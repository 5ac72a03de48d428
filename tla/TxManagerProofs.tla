-------------------------- MODULE TxManagerProofs --------------------------
(***************************************************************************)
(* Proofs about TxManager: its type invariant, the exclusive ownership of  *)
(* waiters, and the guarantees that hold until a waiter is recycled under  *)
(* a goroutine still delivering to it, the implementation of TxTable among *)
(* them.                                                                   *)
(***************************************************************************)
EXTENDS TxRefinement, TLAPS

-----------------------------------------------------------------------------
(* The inductive invariant, in named parts.                                *)

\* Each goroutine is at a point of its own code, with the locals of that point.
RequesterControl ==
    \A r \in Requesters :
        /\ pc[r] \in RequesterPC
        /\ pc[r] = "idle" <=> at[r] = NoSlot
        /\ pc[r] # "idle" => txn[r] \in 1..nextID
        /\ pc[r] \in Delivering => val[r] \in Failures /\ val[r].kind # "closed"
        /\ got[r] # NoResult <=> pc[r] \in {"remove", "drain", "put"}

WorkerControl ==
    \A w \in Workers :
        /\ pc[w] \in WorkerPC
        /\ pc[w] \in Delivering => at[w] # NoSlot /\ val[w] \in Responses

CloserControl ==
    /\ pc[Closer] \in CloserPC
    /\ pc[Closer] \in Delivering => at[Closer] # NoSlot /\ val[Closer] \in Failures
    /\ pc[Closer] = "idle" <=> ~closed

Control == RequesterControl /\ WorkerControl /\ CloserControl

\* m.mu: one Create at a time, none once closed.
Locked ==
    /\ \A q, r \in Requesters : pc[q] = "acquire" /\ pc[r] = "acquire" => q = r
    /\ closed => MuFree

\* Waiters not allocated yet are unknown to everyone and empty.
FreshUntouched ==
    /\ pool \cap fresh = {}
    /\ snap \cap fresh = {}
    /\ \A t \in Threads : at[t] \notin fresh
    /\ \A i \in Ids : wait[i] \notin fresh
    /\ \A s \in fresh : ch[s] = NoResult /\ ~done[s]

\* Requests in flight differ in their waiters and in their ids.
Ownership ==
    /\ \A r \in Requesters : pc[r] # "idle" => at[r] \notin pool
    /\ \A q, r \in Requesters :
         pc[q] # "idle" /\ pc[r] # "idle" /\ q # r => at[q] # at[r] /\ txn[q] # txn[r]

\* The map against the requests in flight; Close empties it for good.
MapInv ==
    /\ MapIsInFlight
    /\ closed => \A i \in Ids : wait[i] = NoSlot

\* A worker inside tryDeliver is delivering to the request its id names, or to
\* a waiter no request owns.
Targeted ==
    \A w \in Workers, r \in Requesters :
        pc[w] \in Delivering /\ pc[r] # "idle" /\ at[w] = at[r] =>
          val[w].id = txn[r] /\ pc[r] # "acquire"

\* p.done against the channel: a goroutine about to send finds it empty, and a
\* full channel means done, except in a waiter Create has not drained yet.
Sending ==
    /\ \A t \in Threads : pc[t] = "send" => done[at[t]] /\ ch[at[t]] = NoResult
    /\ \A s \in Slots : ch[s] # NoResult =>
         \/ done[s]
         \/ \E r \in Requesters : pc[r] = "acquire" /\ at[r] = s
    /\ \A r \in Requesters : pc[r] = "acquire" => ~done[at[r]]

\* p.mu: one goroutine at a time between p.done = true and the channel send.
Sole ==
    \A t, u \in Threads :
        pc[t] = "send" /\ pc[u] = "send" /\ at[t] = at[u] => t = u

\* A response in a request's channel, or taken out of it, is its own.
Answered ==
    \A r \in Requesters :
        /\ pc[r] \notin {"idle", "acquire"} /\ ch[at[r]] \in Responses =>
             ch[at[r]].id = txn[r]
        /\ got[r] \in Responses => got[r].id = txn[r]

\* Once Wait has its result nothing more comes; before that, done means the
\* result is in the channel or about to be.
Settled ==
    \A r \in Requesters :
        /\ pc[r] \in {"remove", "drain", "put"} =>
             done[at[r]] /\ ch[at[r]] = NoResult /\ SlotFree(at[r])
        /\ pc[r] \in Mapped \ {"remove"} /\ done[at[r]] =>
             ch[at[r]] # NoResult \/ ~SlotFree(at[r])

\* A request that Close unmapped is done or Close is coming to it; one in the
\* receive after a timeout, or at the end of Cancel, is done unless it left
\* that to Close.
Fed ==
    \A r \in Requesters :
        /\ closed /\ pc[r] \in Mapped =>
             \/ done[at[r]]
             \/ at[r] \in snap
             \/ pc[Closer] = "deliver" /\ at[Closer] = at[r]
        /\ pc[r] \in {"recv", "forget"} => done[at[r]] \/ closed

\* Wait is called once per transaction, so claimWait finds its waiter unclaimed.
Unclaimed ==
    \A r \in Requesters :
        pc[r] \in {"acquire", "created", "wait", "claim"} => ~waiting[at[r]]

DeliveryInv == Targeted /\ Sending /\ Answered /\ Settled /\ Fed

IInv == /\ TypeOK
        /\ Control
        /\ Locked
        /\ FreshUntouched
        /\ Ownership
        /\ MapInv
        /\ Unclaimed
        /\ Sole
        /\ ~raced => DeliveryInv

-----------------------------------------------------------------------------
(* Values and locals.                                                      *)

\* A response names its transaction and is none of the manager's own errors; an
\* empty channel is neither.
LEMMA ResultFacts ==
    /\ \A i \in Ids : [kind |-> "response", id |-> i] \in Responses
    /\ \A i \in Ids : [kind |-> "response", id |-> i].id = i
    /\ \A k \in {"ctx", "canceled", "closed"} : Failure(k) \in Failures
    /\ NoResult \notin Responses /\ NoResult \notin Failures
    /\ \A x \in Failures : x \notin Responses
BY DEF Responses, Failures, Failure, NoResult

\* Every point of Create, Wait, Cancel, tryDeliver and Close is a value of pc.
LEMMA LabelFacts ==
    {"idle", "acquire", "created", "wait", "claim", "select", "timeout", "recv",
     "cancel", "forget", "remove", "drain", "put", "deliver", "send", "next",
     "closed"} \subseteq RequesterPC \cup CloserPC
BY DEF RequesterPC, CloserPC, Mapped, Delivering

\* What a goroutine's locals are, where it uses them.
LEMMA Locals ==
    ASSUME TypeOK, Control
    PROVE  /\ \A r \in Requesters : pc[r] # "idle" => at[r] \in Slots /\ txn[r] \in Ids
           /\ \A t \in Threads : pc[t] \in Delivering => at[t] \in Slots
           /\ \A t \in Threads : pc[t] = "send" => val[t] \in Results
BY DEF TypeOK, Control, RequesterControl, WorkerControl, CloserControl, Threads,
   Ids, Results, Delivering

-----------------------------------------------------------------------------
(* What the steps with alternatives amount to, given the invariant.        *)

\* A request that looks its own id up finds its own waiter, unless closed.
LEMMA FinishOwn ==
    ASSUME IInv, NEW r \in Requesters, pc[r] \in Mapped, NEW x, NEW l,
           Finish(r, txn[r], x, l)
    PROVE  /\ at' = at
           /\ \/ closed /\ pc' = [pc EXCEPT ![r] = l] /\ val' = val
              \/ ~closed /\ pc' = [pc EXCEPT ![r] = "deliver"]
                         /\ val' = [val EXCEPT ![r] = x]
<1>1. at[r] \in Slots /\ txn[r] \in Ids
  BY Locals DEF IInv, Mapped, Delivering
<1>2. ~closed => wait[txn[r]] = at[r]
  BY DEF IInv, MapInv, MapIsInFlight
<1>3. at \in [Threads -> Slots \cup {NoSlot}]
  BY DEF IInv, TypeOK
<1> QED
  BY <1>1, <1>2, <1>3, SlotAssumption DEF Finish, Goto

\* The lookup at the head of Wait finds the request's own waiter, unless closed.
LEMMA WaitLookupEffect ==
    ASSUME IInv, NEW r \in Requesters, WaitLookup(r)
    PROVE  \/ closed /\ Returned(r)
           \/ ~closed /\ at' = at /\ pc' = [pc EXCEPT ![r] = "claim"] /\ txn' = txn
                      /\ got' = got
<1>1. at[r] \in Slots /\ txn[r] \in Ids
  BY Locals DEF IInv, WaitLookup
<1>2. ~closed => wait[txn[r]] = at[r]
  BY DEF IInv, MapInv, MapIsInFlight, WaitLookup, Mapped
<1>3. at \in [Threads -> Slots \cup {NoSlot}]
  BY DEF IInv, TypeOK
<1> QED
  BY <1>1, <1>2, <1>3, SlotAssumption DEF WaitLookup, Goto

\* claimWait succeeds: its early return is never taken.
LEMMA ClaimWaitEffect ==
    ASSUME IInv, NEW r \in Requesters, ClaimWait(r)
    PROVE  /\ pc' = [pc EXCEPT ![r] = "select"]
           /\ waiting' = [waiting EXCEPT ![at[r]] = TRUE]
           /\ UNCHANGED <<at, txn, got>>
BY DEF ClaimWait, IInv, Unclaimed, Goto

\* Where a goroutine is after tryDeliver, by its kind.
LEMMA ReturnEffect ==
    ASSUME NEW t \in Threads, Return(t)
    PROVE  /\ val' = [val EXCEPT ![t] = NoResult]
           /\ \/ /\ t \in Requesters
                 /\ at' = at
                 /\ \/ pc' = [pc EXCEPT ![t] = "forget"]
                    \/ pc' = [pc EXCEPT ![t] = "recv"]
              \/ /\ t \in Workers
                 /\ at' = [at EXCEPT ![t] = NoSlot]
                 /\ pc' = [pc EXCEPT ![t] = "idle"]
              \/ /\ t = Closer
                 /\ at' = [at EXCEPT ![t] = NoSlot]
                 /\ pc' = [pc EXCEPT ![t] = "next"]
BY DEF Return, Goto, Threads

\* Steps of tryDeliver, seen from the requests.
LEMMA DeliverFrame ==
    ASSUME IInv, NEW t \in Threads, TryDeliver(t) \/ DeliverSend(t)
    PROVE  /\ \A r \in Requesters :
                /\ at'[r] = at[r]
                /\ \/ pc'[r] = pc[r]
                   \/ pc[r] \in Delivering /\ pc'[r] \in {"send", "forget", "recv"}
                /\ pc'[r] \in Delivering => val'[r] = val[r]
           /\ UNCHANGED <<closed, wait, nextID, pool, fresh, waiting, txn, got, snap,
                          raced>>
<1>0. /\ pc \in [Threads -> RequesterPC \cup CloserPC]
      /\ at \in [Threads -> Slots \cup {NoSlot}]
      /\ val \in [Threads -> Results \cup {NoResult}]
  BY DEF IInv, TypeOK
<1>a. UNCHANGED <<closed, wait, nextID, pool, fresh, waiting, txn, got, snap, raced>>
  BY DEF TryDeliver, DeliverSend
<1>1. CASE Return(t) /\ pc[t] \in Delivering
  BY <1>0, <1>1, <1>a, ReturnEffect, ThreadAssumption DEF Threads, Delivering
<1>2. CASE /\ pc[t] = "deliver"
           /\ pc' = [pc EXCEPT ![t] = "send"]
           /\ UNCHANGED <<at, val>>
  BY <1>0, <1>2, <1>a DEF Delivering
<1> QED
  BY <1>1, <1>2 DEF TryDeliver, DeliverSend, Goto, Delivering

\* The lookup of Complete or Fail changes nothing a request sees.
LEMMA OnResponseFrame ==
    ASSUME IInv, NEW w \in Workers, OnResponse(w)
    PROVE  /\ \A r \in Requesters :
                at'[r] = at[r] /\ pc'[r] = pc[r] /\ val'[r] = val[r]
           /\ UNCHANGED <<closed, wait, nextID, slotVars, txn, got, snap, raced>>
<1>0. /\ pc \in [Threads -> RequesterPC \cup CloserPC]
      /\ at \in [Threads -> Slots \cup {NoSlot}]
      /\ val \in [Threads -> Results \cup {NoResult}]
  BY DEF IInv, TypeOK
<1> QED
  BY <1>0, ThreadAssumption DEF OnResponse, Finish, Goto, Threads

\* Close changes no request's locals.
LEMMA CloseFrame ==
    ASSUME IInv, CloseLock \/ CloseNext
    PROVE  /\ \A r \in Requesters :
                at'[r] = at[r] /\ pc'[r] = pc[r] /\ val'[r] = val[r]
           /\ UNCHANGED <<nextID, slotVars, txn, got, raced>>
<1>0. /\ pc \in [Threads -> RequesterPC \cup CloserPC]
      /\ at \in [Threads -> Slots \cup {NoSlot}]
      /\ val \in [Threads -> Results \cup {NoResult}]
  BY DEF IInv, TypeOK
<1> QED
  BY <1>0, ThreadAssumption DEF CloseLock, CloseNext, Goto, Threads

\* A step that moves no request in or out of flight.
LEMMA OwnershipFrame ==
    ASSUME Ownership, pool' = pool,
           \A r \in Requesters :
             /\ pc'[r] = "idle" <=> pc[r] = "idle"
             /\ txn'[r] = txn[r] /\ at'[r] = at[r]
    PROVE  Ownership'
BY DEF Ownership

\* A step that neither touches the map nor moves a request in or out of it.
LEMMA MapFrame ==
    ASSUME MapInv, UNCHANGED <<wait, closed>>,
           \A r \in Requesters :
             /\ pc'[r] \in Mapped <=> pc[r] \in Mapped
             /\ pc[r] \in Mapped => txn'[r] = txn[r] /\ at'[r] = at[r]
    PROVE  MapInv'
<1>1. ASSUME NEW i \in Ids, wait'[i] # NoSlot
      PROVE  \E r \in Requesters : pc'[r] \in Mapped /\ txn'[r] = i /\ at'[r] = wait'[i]
  <2>1. PICK r \in Requesters : pc[r] \in Mapped /\ txn[r] = i /\ at[r] = wait[i]
    BY <1>1 DEF MapInv, MapIsInFlight
  <2> QED
    BY <2>1
<1>2. \A r \in Requesters : pc'[r] \in Mapped /\ ~closed' => wait'[txn'[r]] = at'[r]
  BY DEF MapInv, MapIsInFlight
<1> QED
  BY <1>1, <1>2 DEF MapInv, MapIsInFlight

-----------------------------------------------------------------------------
(* Each part of the invariant is preserved, action by action.              *)

\* Every step keeps the types.
LEMMA TypeStep ==
    ASSUME IInv, [Next]_vars
    PROVE  TypeOK'
<1>1. ASSUME NEW r \in Requesters, CreateAcquire(r) PROVE TypeOK'
  <2>1. PICK i \in FreshId, s \in pool \cup fresh : CreateAcquire(r)!4!(i, s)
    BY <1>1 DEF CreateAcquire
  <2>2. raced' \in BOOLEAN
    BY <2>1
  <2>3. i \in Ids /\ s \in Slots
    BY DEF IInv, TypeOK, FreshId
  <2>4. nextID' \in 0..MaxId /\ i \in 0..MaxId
    BY <2>1, <2>3 DEF Ids
  <2>5. /\ txn' \in [Requesters -> 0..MaxId]
        /\ pid' \in [Slots -> 0..MaxId]
        /\ done' \in [Slots -> BOOLEAN]
        /\ waiting' \in [Slots -> BOOLEAN]
    BY <2>1, <2>4 DEF IInv, TypeOK
  <2>6. /\ pc' \in [Threads -> RequesterPC \cup CloserPC]
        /\ at' \in [Threads -> Slots \cup {NoSlot}]
    BY <1>1, <2>1, <2>3, LabelFacts DEF IInv, TypeOK, CreateAcquire, Goto
  <2> QED
    BY <1>1, <2>1, <2>2, <2>4, <2>5, <2>6 DEF IInv, TypeOK, CreateAcquire, netVars
<1>2. ASSUME NEW r \in Requesters, CreateInsert(r) PROVE TypeOK'
  BY <1>2, Locals, LabelFacts DEF IInv, TypeOK, netVars, CreateInsert, Goto
<1>3. ASSUME NEW r \in Requesters, Send(r) PROVE TypeOK'
  BY <1>3, Locals, LabelFacts DEF IInv, TypeOK, slotVars, Send, Goto
<1>4. ASSUME NEW r \in Requesters, SendFails(r) PROVE TypeOK'
  BY <1>4, Locals, LabelFacts DEF IInv, TypeOK, slotVars, SendFails, Goto
<1>5. ASSUME NEW r \in Requesters, WaitLookup(r) PROVE TypeOK'
  BY <1>5, Locals, LabelFacts, BoundAssumption DEF IInv, TypeOK, slotVars,
     netVars, WaitLookup, Returned, Goto
<1>6. ASSUME NEW r \in Requesters, ClaimWait(r) PROVE TypeOK'
  <2>1. txn' \in [Requesters -> 0..MaxId]
    BY <1>6, BoundAssumption DEF IInv, TypeOK, ClaimWait, Returned
  <2>2. got' \in [Requesters -> Results \cup {NoResult}]
    BY <1>6 DEF IInv, TypeOK, ClaimWait, Returned
  <2>3. waiting' \in [Slots -> BOOLEAN] /\ done' \in [Slots -> BOOLEAN]
    BY <1>6 DEF IInv, TypeOK, ClaimWait
  <2>4. pid' \in [Slots -> 0..MaxId]
    BY <1>6 DEF IInv, TypeOK, ClaimWait
  <2>5. pool' \subseteq Slots
    BY <1>6 DEF IInv, TypeOK, ClaimWait
  <2>6. wait' \in [Ids -> Slots \cup {NoSlot}]
    BY <1>6 DEF IInv, TypeOK, ClaimWait
  <2>7. pc' \in [Threads -> RequesterPC \cup CloserPC]
    BY <1>6, LabelFacts DEF IInv, TypeOK, ClaimWait, Returned, Goto
  <2>8. at' \in [Threads -> Slots \cup {NoSlot}]
    BY <1>6 DEF IInv, TypeOK, ClaimWait, Returned
  <2> QED
    BY <2>1, <2>2, <2>3, <2>4, <2>5, <2>6, <2>7, <2>8, <1>6 DEF IInv, TypeOK,
       netVars, ClaimWait
<1>7. ASSUME NEW r \in Requesters, Receive(r) PROVE TypeOK'
  BY <1>7, Locals, LabelFacts DEF IInv, TypeOK, netVars, Receive, Goto
<1>8. ASSUME NEW r \in Requesters, CtxDone(r) PROVE TypeOK'
  BY <1>8, LabelFacts DEF IInv, TypeOK, slotVars, netVars, CtxDone, Goto
<1>9. ASSUME NEW r \in Requesters, TimeoutFinish(r) PROVE TypeOK'
  <2>1. pc' \in [Threads -> RequesterPC \cup CloserPC]
    BY <1>9, LabelFacts DEF IInv, TypeOK, TimeoutFinish, Goto, Finish
  <2>2. at' \in [Threads -> Slots \cup {NoSlot}]
    BY <1>9, Locals DEF IInv, TypeOK, TimeoutFinish, Finish
  <2>3. val' \in [Threads -> Results \cup {NoResult}]
    BY <1>9, ResultFacts DEF IInv, TypeOK, TimeoutFinish, Finish, Results
  <2>4. ch' \in [Slots -> Results \cup {NoResult}]
    BY <1>9 DEF IInv, TypeOK, slotVars, TimeoutFinish, Finish
  <2> QED
    BY <2>1, <2>2, <2>3, <2>4, <1>9 DEF IInv, TypeOK, slotVars, netVars,
       TimeoutFinish, Finish
<1>10. ASSUME NEW r \in Requesters, CancelFinish(r) PROVE TypeOK'
  <2>1. pc' \in [Threads -> RequesterPC \cup CloserPC]
    BY <1>10, LabelFacts DEF IInv, TypeOK, CancelFinish, Goto, Finish
  <2>2. at' \in [Threads -> Slots \cup {NoSlot}]
    BY <1>10, Locals DEF IInv, TypeOK, CancelFinish, Finish
  <2>3. val' \in [Threads -> Results \cup {NoResult}]
    BY <1>10, ResultFacts DEF IInv, TypeOK, CancelFinish, Finish, Results
  <2>4. ch' \in [Slots -> Results \cup {NoResult}]
    BY <1>10 DEF IInv, TypeOK, slotVars, CancelFinish, Finish
  <2> QED
    BY <2>1, <2>2, <2>3, <2>4, <1>10 DEF IInv, TypeOK, slotVars, netVars,
       CancelFinish, Finish
<1>11. ASSUME NEW r \in Requesters, Remove(r) PROVE TypeOK'
  BY <1>11, LabelFacts DEF IInv, TypeOK, slotVars, netVars, Remove, Goto
<1>12. ASSUME NEW r \in Requesters, CancelRemove(r) PROVE TypeOK'
  <2>1. txn' \in [Requesters -> 0..MaxId]
    BY <1>12, BoundAssumption DEF IInv, TypeOK, CancelRemove, Returned
  <2>2. got' \in [Requesters -> Results \cup {NoResult}]
    BY <1>12 DEF IInv, TypeOK, CancelRemove, Returned
  <2>3. waiting' \in [Slots -> BOOLEAN] /\ done' \in [Slots -> BOOLEAN]
    BY <1>12 DEF IInv, TypeOK, slotVars, CancelRemove
  <2>4. pid' \in [Slots -> 0..MaxId]
    BY <1>12 DEF IInv, TypeOK, slotVars, CancelRemove
  <2>5. pool' \subseteq Slots
    BY <1>12 DEF IInv, TypeOK, slotVars, CancelRemove
  <2>6. wait' \in [Ids -> Slots \cup {NoSlot}]
    BY <1>12 DEF IInv, TypeOK, CancelRemove
  <2>7. pc' \in [Threads -> RequesterPC \cup CloserPC]
    BY <1>12, LabelFacts DEF IInv, TypeOK, CancelRemove, Returned, Goto
  <2>8. at' \in [Threads -> Slots \cup {NoSlot}]
    BY <1>12 DEF IInv, TypeOK, CancelRemove, Returned
  <2> QED
    BY <2>1, <2>2, <2>3, <2>4, <2>5, <2>6, <2>7, <2>8, <1>12 DEF IInv, TypeOK,
       slotVars, netVars, CancelRemove
<1>13. ASSUME NEW r \in Requesters, ReleaseDrain(r) PROVE TypeOK'
  BY <1>13, LabelFacts DEF IInv, TypeOK, netVars, ReleaseDrain, Goto
<1>14. ASSUME NEW r \in Requesters, ReleasePut(r) PROVE TypeOK'
  <2>1. txn' \in [Requesters -> 0..MaxId]
    BY <1>14, BoundAssumption DEF IInv, TypeOK, ReleasePut, Returned
  <2>2. got' \in [Requesters -> Results \cup {NoResult}]
    BY <1>14 DEF IInv, TypeOK, ReleasePut, Returned
  <2>3. waiting' \in [Slots -> BOOLEAN] /\ done' \in [Slots -> BOOLEAN]
    BY <1>14 DEF IInv, TypeOK, ReleasePut
  <2>4. pid' \in [Slots -> 0..MaxId]
    BY <1>14, Locals, BoundAssumption DEF IInv, TypeOK, ReleasePut
  <2>5. pool' \subseteq Slots
    BY <1>14, Locals DEF IInv, TypeOK, ReleasePut
  <2>6. wait' \in [Ids -> Slots \cup {NoSlot}]
    BY <1>14 DEF IInv, TypeOK, ReleasePut
  <2>7. pc' \in [Threads -> RequesterPC \cup CloserPC]
    BY <1>14, LabelFacts DEF IInv, TypeOK, ReleasePut, Returned, Goto
  <2>8. at' \in [Threads -> Slots \cup {NoSlot}]
    BY <1>14 DEF IInv, TypeOK, ReleasePut, Returned
  <2> QED
    BY <2>1, <2>2, <2>3, <2>4, <2>5, <2>6, <2>7, <2>8, <1>14 DEF IInv, TypeOK,
       netVars, ReleasePut
<1>15. ASSUME NEW w \in Workers, OnResponse(w) PROVE TypeOK'
  <2>1. pc' \in [Threads -> RequesterPC \cup CloserPC]
    BY <1>15, LabelFacts DEF IInv, TypeOK, OnResponse, Finish, Goto
  <2>2. at' \in [Threads -> Slots \cup {NoSlot}]
    BY <1>15 DEF IInv, TypeOK, OnResponse, Finish
  <2>3. val' \in [Threads -> Results \cup {NoResult}]
    BY <1>15, ResultFacts DEF IInv, TypeOK, OnResponse, Finish, Results
  <2>4. ch' \in [Slots -> Results \cup {NoResult}]
    BY <1>15 DEF IInv, TypeOK, slotVars, OnResponse, Finish
  <2> QED
    BY <2>1, <2>2, <2>3, <2>4, <1>15, BoundAssumption DEF IInv, TypeOK,
       slotVars, OnResponse, Finish
<1>16. CASE CloseLock
  <2>1. snap' \subseteq Slots
    BY <1>16 DEF CloseLock, IInv, TypeOK
  <2>2. pc' \in [Threads -> RequesterPC \cup CloserPC]
    BY <1>16, LabelFacts DEF CloseLock, Goto, IInv, TypeOK
  <2> QED
    BY <2>1, <2>2, <1>16 DEF IInv, TypeOK, slotVars, netVars, CloseLock
<1>17. CASE CloseNext
  <2>1. pc' \in [Threads -> RequesterPC \cup CloserPC]
    BY <1>17, LabelFacts DEF IInv, TypeOK, CloseNext, Goto
  <2>2. at' \in [Threads -> Slots \cup {NoSlot}]
    BY <1>17 DEF IInv, TypeOK, CloseNext
  <2>3. val' \in [Threads -> Results \cup {NoResult}]
    BY <1>17, ResultFacts DEF IInv, TypeOK, CloseNext, Results
  <2>4. ch' \in [Slots -> Results \cup {NoResult}]
    BY <1>17 DEF IInv, TypeOK, slotVars, CloseNext
  <2> QED
    BY <2>1, <2>2, <2>3, <2>4, <1>17 DEF IInv, TypeOK, slotVars, netVars, CloseNext
<1>18. ASSUME NEW t \in Threads, TryDeliver(t) PROVE TypeOK'
  <2>1. pc' \in [Threads -> RequesterPC \cup CloserPC]
    BY <1>18, LabelFacts DEF IInv, TypeOK, TryDeliver, Goto, Return
  <2>2. at' \in [Threads -> Slots \cup {NoSlot}]
    BY <1>18 DEF IInv, TypeOK, TryDeliver, Return
  <2>3. val' \in [Threads -> Results \cup {NoResult}]
    BY <1>18 DEF IInv, TypeOK, TryDeliver, Return, Results
  <2>4. ch' \in [Slots -> Results \cup {NoResult}]
    BY <1>18 DEF IInv, TypeOK, TryDeliver, Return
  <2> QED
    BY <2>1, <2>2, <2>3, <2>4, <1>18 DEF IInv, TypeOK, netVars, TryDeliver, Return
<1>19. ASSUME NEW t \in Threads, DeliverSend(t) PROVE TypeOK'
  <2>1. pc' \in [Threads -> RequesterPC \cup CloserPC]
    BY <1>19, LabelFacts DEF IInv, TypeOK, DeliverSend, Goto, Return
  <2>2. at' \in [Threads -> Slots \cup {NoSlot}]
    BY <1>19 DEF IInv, TypeOK, DeliverSend, Return
  <2>3. val' \in [Threads -> Results \cup {NoResult}]
    BY <1>19 DEF IInv, TypeOK, DeliverSend, Return, Results
  <2>4. ch' \in [Slots -> Results \cup {NoResult}]
    BY <1>19 DEF IInv, TypeOK, DeliverSend, Return
  <2> QED
    BY <2>1, <2>2, <2>3, <2>4, <1>19 DEF IInv, TypeOK, netVars, DeliverSend, Return
<1>20. CASE UNCHANGED vars
  BY <1>20 DEF IInv, TypeOK, slotVars, netVars, vars
<1> QED
  BY <1>1, <1>2, <1>3, <1>4, <1>5, <1>6, <1>7, <1>8, <1>9, <1>10, <1>11, <1>12,
     <1>13, <1>14, <1>15, <1>16, <1>17, <1>18, <1>19, <1>20 DEF Next,
     RequesterStep, DeliverStep

\* Every step keeps the requests' control points and locals.
LEMMA RequesterControlStep ==
    ASSUME IInv, [Next]_vars
    PROVE  RequesterControl'
<1>1. ASSUME NEW r \in Requesters, CreateAcquire(r) PROVE RequesterControl'
  <2>1. PICK i \in FreshId, s \in pool \cup fresh : CreateAcquire(r)!4!(i, s)
    BY <1>1 DEF CreateAcquire
  <2>2. /\ i \in Ids /\ i > nextID
        /\ s \in Slots
    BY DEF IInv, TypeOK, FreshId
  <2>3. /\ pc' = [pc EXCEPT ![r] = "acquire"]
        /\ pc[r] = "idle"
        /\ UNCHANGED <<closed, wait, ch, val, got, snap>>
    BY <1>1 DEF CreateAcquire, Goto
  <2>4. /\ \A q \in Requesters \ {r} : at'[q] = at[q] /\ txn'[q] = txn[q] /\ pc'[q] = pc[q]
        /\ at'[r] = s /\ txn'[r] = i /\ pc'[r] = "acquire" /\ nextID' = i
    BY <2>1, <2>3 DEF IInv, TypeOK, Threads
  <2>5. nextID \in Nat /\ i \in Nat /\ i >= 1
    BY <2>2 DEF IInv, TypeOK, Ids
  <2>6. ASSUME NEW q \in Requesters, q # r
        PROVE  /\ pc'[q] \in RequesterPC
               /\ pc'[q] = "idle" <=> at'[q] = NoSlot
               /\ pc'[q] # "idle" => txn'[q] \in 1..nextID'
               /\ pc'[q] \in Delivering => val'[q] \in Failures /\ val'[q].kind # "closed"
               /\ got'[q] # NoResult <=> pc'[q] \in {"remove", "drain", "put"}
    BY <2>2, <2>3, <2>4, <2>5, <2>6 DEF IInv, Control, RequesterControl
  <2>7. got[r] = NoResult
    BY <2>3 DEF IInv, Control, RequesterControl
  <2> QED
    BY <2>2, <2>3, <2>4, <2>5, <2>6, <2>7, SlotAssumption DEF RequesterControl,
       RequesterPC, Delivering
<1>2. ASSUME NEW r \in Requesters, CreateInsert(r) PROVE RequesterControl'
  BY <1>2 DEF IInv, Control, RequesterControl, RequesterPC, Mapped, CreateInsert,
     Goto, Delivering
<1>3. ASSUME NEW r \in Requesters, Send(r) PROVE RequesterControl'
  BY <1>3 DEF IInv, Control, RequesterControl, Threads, RequesterPC, Mapped, Send,
     Goto, Delivering
<1>4. ASSUME NEW r \in Requesters, SendFails(r) PROVE RequesterControl'
  BY <1>4 DEF IInv, Control, RequesterControl, RequesterPC, Mapped, SendFails,
     Goto, Delivering
<1>5. ASSUME NEW r \in Requesters, WaitLookup(r) PROVE RequesterControl'
  <2>1. UNCHANGED <<closed, wait, nextID, slotVars, val>> /\ pc[r] = "wait"
    BY <1>5 DEF WaitLookup
  <2>2. CASE closed /\ Returned(r)
    BY <2>1, <2>2 DEF IInv, TypeOK, Control, RequesterControl, Threads,
       RequesterPC, Returned, Goto, Delivering
  <2>3. CASE ~closed /\ at' = at /\ pc' = [pc EXCEPT ![r] = "claim"] /\ txn' = txn
             /\ got' = got
    BY <2>1, <2>3 DEF IInv, Control, RequesterControl, Threads, RequesterPC,
       Mapped, Delivering
  <2> QED
    BY <2>2, <2>3, <1>5, WaitLookupEffect
<1>6. ASSUME NEW r \in Requesters, ClaimWait(r) PROVE RequesterControl'
  <2>1. UNCHANGED <<nextID, val>> /\ pc[r] = "claim"
    BY <1>6 DEF ClaimWait
  <2>2. pc' = [pc EXCEPT ![r] = "select"] /\ UNCHANGED <<at, txn, got>>
    BY <1>6, ClaimWaitEffect
  <2> QED
    BY <2>1, <2>2 DEF IInv, Control, RequesterControl, Threads, RequesterPC,
       Mapped, Delivering
<1>7. ASSUME NEW r \in Requesters, Receive(r) PROVE RequesterControl'
  BY <1>7 DEF IInv, TypeOK, Control, RequesterControl, Threads, RequesterPC,
     Mapped, Receive, Goto, Delivering
<1>8. ASSUME NEW r \in Requesters, CtxDone(r) PROVE RequesterControl'
  BY <1>8 DEF IInv, Control, RequesterControl, Threads, RequesterPC, Mapped,
     CtxDone, Goto, Delivering
<1>9. ASSUME NEW r \in Requesters, TimeoutFinish(r) PROVE RequesterControl'
  <2>1. /\ UNCHANGED <<closed, wait, nextID, slotVars, txn, got, at>>
        /\ \/ closed /\ pc' = [pc EXCEPT ![r] = "recv"] /\ val' = val
           \/ ~closed /\ pc' = [pc EXCEPT ![r] = "deliver"]
                      /\ val' = [val EXCEPT ![r] = Failure("ctx")]
    BY <1>9, FinishOwn DEF TimeoutFinish, Mapped
  <2>2. pc[r] = "timeout"
    BY <1>9 DEF TimeoutFinish
  <2>3. Failure("ctx") \in Failures /\ Failure("ctx").kind # "closed"
    BY ResultFacts DEF Failure
  <2>4. got[r] = NoResult
    BY <2>2 DEF IInv, Control, RequesterControl
  <2> QED
    BY <2>1, <2>2, <2>3, <2>4 DEF IInv, TypeOK, Control, RequesterControl,
       RequesterPC, Mapped, Threads, Delivering
<1>10. ASSUME NEW r \in Requesters, CancelFinish(r) PROVE RequesterControl'
  <2>1. /\ UNCHANGED <<closed, wait, nextID, slotVars, txn, got, at>>
        /\ \/ closed /\ pc' = [pc EXCEPT ![r] = "forget"] /\ val' = val
           \/ ~closed /\ pc' = [pc EXCEPT ![r] = "deliver"]
                      /\ val' = [val EXCEPT ![r] = Failure("canceled")]
    BY <1>10, FinishOwn DEF CancelFinish, Mapped
  <2>2. pc[r] = "cancel"
    BY <1>10 DEF CancelFinish
  <2>3. Failure("canceled") \in Failures /\ Failure("canceled").kind # "closed"
    BY ResultFacts DEF Failure
  <2>4. got[r] = NoResult
    BY <2>2 DEF IInv, Control, RequesterControl
  <2> QED
    BY <2>1, <2>2, <2>3, <2>4 DEF IInv, TypeOK, Control, RequesterControl,
       RequesterPC, Mapped, Threads, Delivering
<1>11. ASSUME NEW r \in Requesters, Remove(r) PROVE RequesterControl'
  BY <1>11 DEF IInv, Control, RequesterControl, RequesterPC, Remove, Goto,
     Delivering
<1>12. ASSUME NEW r \in Requesters, CancelRemove(r) PROVE RequesterControl'
  BY <1>12 DEF IInv, TypeOK, Control, RequesterControl, Threads, RequesterPC,
     CancelRemove, Returned, Goto, Delivering
<1>13. ASSUME NEW r \in Requesters, ReleaseDrain(r) PROVE RequesterControl'
  BY <1>13 DEF IInv, Control, RequesterControl, RequesterPC, ReleaseDrain, Goto,
     Delivering
<1>14. ASSUME NEW r \in Requesters, ReleasePut(r) PROVE RequesterControl'
  BY <1>14 DEF IInv, TypeOK, Control, RequesterControl, Threads, RequesterPC,
     ReleasePut, Returned, Goto, Delivering
<1>15. ASSUME NEW w \in Workers, OnResponse(w) PROVE RequesterControl'
  BY <1>15, OnResponseFrame DEF IInv, Control, RequesterControl
<1>16. CASE CloseLock
  BY <1>16, CloseFrame DEF IInv, Control, RequesterControl
<1>17. CASE CloseNext
  BY <1>17, CloseFrame DEF IInv, Control, RequesterControl
<1>18. ASSUME NEW t \in Threads, TryDeliver(t) PROVE RequesterControl'
  BY <1>18, DeliverFrame DEF IInv, Control, RequesterControl, Threads,
     RequesterPC, Mapped, Delivering
<1>19. ASSUME NEW t \in Threads, DeliverSend(t) PROVE RequesterControl'
  BY <1>19, DeliverFrame DEF IInv, Control, RequesterControl, Threads,
     RequesterPC, Mapped, Delivering
<1>20. CASE UNCHANGED vars
  BY <1>20 DEF IInv, Control, RequesterControl, vars
<1> QED
  BY <1>1, <1>2, <1>3, <1>4, <1>5, <1>6, <1>7, <1>8, <1>9, <1>10, <1>11, <1>12,
     <1>13, <1>14, <1>15, <1>16, <1>17, <1>18, <1>19, <1>20 DEF Next,
     RequesterStep, DeliverStep

\* Every step keeps the dispatch workers' control points and locals.
LEMMA WorkerControlStep ==
    ASSUME IInv, [Next]_vars
    PROVE  WorkerControl'
<1>1. ASSUME NEW r \in Requesters, CreateAcquire(r) PROVE WorkerControl'
  BY <1>1, ThreadAssumption DEF IInv, Control, WorkerControl, CreateAcquire,
     FreshId, Goto
<1>2. ASSUME NEW r \in Requesters, CreateInsert(r) PROVE WorkerControl'
  BY <1>2, ThreadAssumption DEF IInv, Control, WorkerControl, CreateInsert, Goto
<1>3. ASSUME NEW r \in Requesters, Send(r) PROVE WorkerControl'
  BY <1>3, ThreadAssumption DEF IInv, Control, WorkerControl, Send, Goto
<1>4. ASSUME NEW r \in Requesters, SendFails(r) PROVE WorkerControl'
  BY <1>4, ThreadAssumption DEF IInv, Control, WorkerControl, SendFails, Goto
<1>5. ASSUME NEW r \in Requesters, WaitLookup(r) PROVE WorkerControl'
  <2>1. UNCHANGED <<closed, wait, nextID, slotVars, val>> /\ pc[r] = "wait"
    BY <1>5 DEF WaitLookup
  <2>2. CASE closed /\ Returned(r)
    BY <2>1, <2>2, ThreadAssumption DEF IInv, Control, WorkerControl, Returned, Goto
  <2>3. CASE ~closed /\ at' = at /\ pc' = [pc EXCEPT ![r] = "claim"] /\ txn' = txn
             /\ got' = got
    BY <2>1, <2>3, ThreadAssumption DEF IInv, Control, WorkerControl
  <2> QED
    BY <2>2, <2>3, <1>5, WaitLookupEffect
<1>6. ASSUME NEW r \in Requesters, ClaimWait(r) PROVE WorkerControl'
  <2>1. UNCHANGED <<closed, wait, nextID, pool, fresh, done, ch, val>> /\ pc[r] = "claim"
    BY <1>6 DEF ClaimWait
  <2> QED
    BY <2>1, <1>6, ClaimWaitEffect, ResultFacts, ThreadAssumption DEF IInv,
       TypeOK, Control, WorkerControl, Threads
<1>7. ASSUME NEW r \in Requesters, Receive(r) PROVE WorkerControl'
  BY <1>7, ThreadAssumption DEF IInv, Control, WorkerControl, Receive, Goto
<1>8. ASSUME NEW r \in Requesters, CtxDone(r) PROVE WorkerControl'
  BY <1>8, ThreadAssumption DEF IInv, Control, WorkerControl, CtxDone, Goto
<1>9. ASSUME NEW r \in Requesters, TimeoutFinish(r) PROVE WorkerControl'
  <2>1. /\ UNCHANGED <<closed, wait, nextID, slotVars, txn, got, at>>
        /\ \/ closed /\ pc' = [pc EXCEPT ![r] = "recv"] /\ val' = val
           \/ ~closed /\ pc' = [pc EXCEPT ![r] = "deliver"]
                      /\ val' = [val EXCEPT ![r] = Failure("ctx")]
    BY <1>9, FinishOwn DEF TimeoutFinish, Mapped
  <2>2. pc[r] = "timeout"
    BY <1>9 DEF TimeoutFinish
  <2> QED
    BY <2>1, <2>2, SlotAssumption DEF IInv, TypeOK, Control, WorkerControl,
       Threads, WorkerPC, Delivering
<1>10. ASSUME NEW r \in Requesters, CancelFinish(r) PROVE WorkerControl'
  <2>1. /\ UNCHANGED <<closed, wait, nextID, slotVars, txn, got, at>>
        /\ \/ closed /\ pc' = [pc EXCEPT ![r] = "forget"] /\ val' = val
           \/ ~closed /\ pc' = [pc EXCEPT ![r] = "deliver"]
                      /\ val' = [val EXCEPT ![r] = Failure("canceled")]
    BY <1>10, FinishOwn DEF CancelFinish, Mapped
  <2>2. pc[r] = "cancel"
    BY <1>10 DEF CancelFinish
  <2> QED
    BY <2>1, <2>2, ThreadAssumption DEF IInv, TypeOK, Control, WorkerControl,
       Threads, Delivering
<1>11. ASSUME NEW r \in Requesters, Remove(r) PROVE WorkerControl'
  BY <1>11, ThreadAssumption DEF IInv, Control, WorkerControl, Remove, Goto
<1>12. ASSUME NEW r \in Requesters, CancelRemove(r) PROVE WorkerControl'
  BY <1>12, ThreadAssumption DEF IInv, Control, WorkerControl, CancelRemove,
     Returned, Goto
<1>13. ASSUME NEW r \in Requesters, ReleaseDrain(r) PROVE WorkerControl'
  BY <1>13, ThreadAssumption DEF IInv, Control, WorkerControl, ReleaseDrain, Goto
<1>14. ASSUME NEW r \in Requesters, ReleasePut(r) PROVE WorkerControl'
  BY <1>14, ThreadAssumption DEF IInv, Control, WorkerControl, ReleasePut,
     Returned, Goto
<1>15. ASSUME NEW w \in Workers, OnResponse(w) PROVE WorkerControl'
  BY <1>15, ResultFacts, SlotAssumption, OnResponseFrame DEF IInv, TypeOK,
     Control, WorkerControl, Threads, WorkerPC, OnResponse, Finish, Goto,
     Delivering
<1>16. CASE CloseLock
  BY <1>16, ThreadAssumption, CloseFrame DEF IInv, Control, WorkerControl,
     CloseLock, Goto
<1>17. CASE CloseNext
  BY <1>17, CloseFrame DEF IInv, TypeOK, Control, WorkerControl, Threads,
     WorkerPC, CloseNext, Goto, Delivering
<1>18. ASSUME NEW t \in Threads, TryDeliver(t) PROVE WorkerControl'
  <2>1. CASE Return(t)
    BY <2>1, ReturnEffect, ThreadAssumption DEF IInv, TypeOK, Control,
       WorkerControl, Threads, WorkerPC, Delivering
  <2>2. CASE pc' = [pc EXCEPT ![t] = "send"] /\ UNCHANGED <<at, val>> /\ pc[t] = "deliver"
    BY <2>2 DEF IInv, Control, WorkerControl, WorkerPC, Delivering
  <2> QED
    BY <2>1, <2>2, <1>18 DEF TryDeliver, Goto
<1>19. ASSUME NEW t \in Threads, DeliverSend(t) PROVE WorkerControl'
  <2>1. Return(t) /\ pc[t] = "send"
    BY <1>19 DEF DeliverSend
  <2> QED
    BY <2>1, ReturnEffect, ResultFacts, SlotAssumption, ThreadAssumption DEF
       IInv, TypeOK, Control, WorkerControl, Threads, WorkerPC, Delivering
<1>20. CASE UNCHANGED vars
  BY <1>20 DEF IInv, Control, WorkerControl, vars
<1> QED
  BY <1>1, <1>2, <1>3, <1>4, <1>5, <1>6, <1>7, <1>8, <1>9, <1>10, <1>11, <1>12,
     <1>13, <1>14, <1>15, <1>16, <1>17, <1>18, <1>19, <1>20 DEF Next,
     RequesterStep, DeliverStep

\* Every step keeps Close's control points and locals.
LEMMA CloserControlStep ==
    ASSUME IInv, [Next]_vars
    PROVE  CloserControl'
<1>1. ASSUME NEW r \in Requesters, CreateAcquire(r) PROVE CloserControl'
  BY <1>1, ThreadAssumption DEF IInv, Control, CloserControl, CreateAcquire,
     FreshId, Goto
<1>2. ASSUME NEW r \in Requesters, CreateInsert(r) PROVE CloserControl'
  BY <1>2, ThreadAssumption DEF IInv, Control, CloserControl, CreateInsert, Goto
<1>3. ASSUME NEW r \in Requesters, Send(r) PROVE CloserControl'
  BY <1>3, ThreadAssumption DEF IInv, Control, CloserControl, Send, Goto
<1>4. ASSUME NEW r \in Requesters, SendFails(r) PROVE CloserControl'
  BY <1>4, ThreadAssumption DEF IInv, Control, CloserControl, SendFails, Goto
<1>5. ASSUME NEW r \in Requesters, WaitLookup(r) PROVE CloserControl'
  BY <1>5, ThreadAssumption, WaitLookupEffect DEF IInv, TypeOK, Control,
     CloserControl, Threads, WaitLookup, Returned, Goto
<1>6. ASSUME NEW r \in Requesters, ClaimWait(r) PROVE CloserControl'
  BY <1>6, ThreadAssumption, ClaimWaitEffect DEF IInv, TypeOK, Control,
     CloserControl, Threads, ClaimWait, Goto
<1>7. ASSUME NEW r \in Requesters, Receive(r) PROVE CloserControl'
  BY <1>7, ThreadAssumption DEF IInv, Control, CloserControl, Receive, Goto
<1>8. ASSUME NEW r \in Requesters, CtxDone(r) PROVE CloserControl'
  BY <1>8, ThreadAssumption DEF IInv, Control, CloserControl, CtxDone, Goto
<1>9. ASSUME NEW r \in Requesters, TimeoutFinish(r) PROVE CloserControl'
  BY <1>9, ThreadAssumption, FinishOwn DEF IInv, TypeOK, Control, CloserControl,
     Threads, TimeoutFinish, Mapped
<1>10. ASSUME NEW r \in Requesters, CancelFinish(r) PROVE CloserControl'
  BY <1>10, ThreadAssumption, FinishOwn DEF IInv, TypeOK, Control, CloserControl,
     Threads, CancelFinish, Mapped
<1>11. ASSUME NEW r \in Requesters, Remove(r) PROVE CloserControl'
  BY <1>11, ThreadAssumption DEF IInv, Control, CloserControl, Remove, Goto
<1>12. ASSUME NEW r \in Requesters, CancelRemove(r) PROVE CloserControl'
  BY <1>12, ThreadAssumption DEF IInv, Control, CloserControl, CancelRemove,
     Returned, Goto
<1>13. ASSUME NEW r \in Requesters, ReleaseDrain(r) PROVE CloserControl'
  BY <1>13, ThreadAssumption DEF IInv, Control, CloserControl, ReleaseDrain, Goto
<1>14. ASSUME NEW r \in Requesters, ReleasePut(r) PROVE CloserControl'
  BY <1>14, ThreadAssumption DEF IInv, Control, CloserControl, ReleasePut,
     Returned, Goto
<1>15. ASSUME NEW w \in Workers, OnResponse(w) PROVE CloserControl'
  BY <1>15, ThreadAssumption, OnResponseFrame DEF IInv, TypeOK, Control,
     CloserControl, Threads, OnResponse, Finish, Goto
<1>16. CASE CloseLock
  BY <1>16, CloseFrame DEF IInv, TypeOK, CloserControl, Threads, CloserPC,
     CloseLock, Goto, Delivering
<1>17. CASE CloseNext
  BY <1>17, ResultFacts, SlotAssumption, CloseFrame DEF IInv, TypeOK, Control,
     CloserControl, CloserPC, CloseNext, Goto, Delivering
<1>18. ASSUME NEW t \in Threads, TryDeliver(t) PROVE CloserControl'
  BY <1>18, ThreadAssumption, ReturnEffect, DeliverFrame DEF IInv, TypeOK,
     Control, CloserControl, Threads, CloserPC, TryDeliver, Goto, Delivering
<1>19. ASSUME NEW t \in Threads, DeliverSend(t) PROVE CloserControl'
  BY <1>19, ThreadAssumption, ReturnEffect, DeliverFrame DEF IInv, TypeOK,
     Control, CloserControl, Threads, CloserPC, DeliverSend, Delivering
<1>20. CASE UNCHANGED vars
  BY <1>20 DEF IInv, Control, CloserControl, vars
<1> QED
  BY <1>1, <1>2, <1>3, <1>4, <1>5, <1>6, <1>7, <1>8, <1>9, <1>10, <1>11, <1>12,
     <1>13, <1>14, <1>15, <1>16, <1>17, <1>18, <1>19, <1>20 DEF Next,
     RequesterStep, DeliverStep

\* m.mu keeps Creates apart.
LEMMA LockedStep ==
    ASSUME IInv, [Next]_vars
    PROVE  Locked'
<1>1. ASSUME NEW r \in Requesters, CreateAcquire(r) PROVE Locked'
  BY <1>1 DEF Locked, MuFree, CreateAcquire, FreshId, Goto, Delivering
<1>2. ASSUME NEW r \in Requesters, CreateInsert(r) PROVE Locked'
  BY <1>2 DEF IInv, Locked, MuFree, CreateInsert, Goto, Delivering
<1>3. ASSUME NEW r \in Requesters, Send(r) PROVE Locked'
  BY <1>3 DEF IInv, Locked, MuFree, Send, Goto, Delivering
<1>4. ASSUME NEW r \in Requesters, SendFails(r) PROVE Locked'
  BY <1>4 DEF IInv, Locked, MuFree, SendFails, Goto, Delivering
<1>5. ASSUME NEW r \in Requesters, WaitLookup(r) PROVE Locked'
  BY <1>5, WaitLookupEffect DEF IInv, Locked, TypeOK, MuFree, Threads, WaitLookup,
     Returned, Goto, Delivering
<1>6. ASSUME NEW r \in Requesters, ClaimWait(r) PROVE Locked'
  BY <1>6, ClaimWaitEffect DEF IInv, Locked, TypeOK, MuFree, Threads, ClaimWait,
     Goto, Delivering
<1>7. ASSUME NEW r \in Requesters, Receive(r) PROVE Locked'
  BY <1>7 DEF IInv, Locked, MuFree, Receive, Goto, Delivering
<1>8. ASSUME NEW r \in Requesters, CtxDone(r) PROVE Locked'
  BY <1>8 DEF IInv, Locked, MuFree, CtxDone, Goto, Delivering
<1>9. ASSUME NEW r \in Requesters, TimeoutFinish(r) PROVE Locked'
  BY <1>9, FinishOwn DEF IInv, Locked, TypeOK, MuFree, Threads, TimeoutFinish,
     Mapped
<1>10. ASSUME NEW r \in Requesters, CancelFinish(r) PROVE Locked'
  BY <1>10, FinishOwn DEF IInv, Locked, TypeOK, MuFree, Threads, CancelFinish,
     Mapped
<1>11. ASSUME NEW r \in Requesters, Remove(r) PROVE Locked'
  BY <1>11 DEF Locked, MuFree, Remove, Goto, Delivering
<1>12. ASSUME NEW r \in Requesters, CancelRemove(r) PROVE Locked'
  BY <1>12 DEF Locked, MuFree, CancelRemove, Returned, Goto, Delivering
<1>13. ASSUME NEW r \in Requesters, ReleaseDrain(r) PROVE Locked'
  BY <1>13 DEF IInv, Locked, MuFree, ReleaseDrain, Goto, Delivering
<1>14. ASSUME NEW r \in Requesters, ReleasePut(r) PROVE Locked'
  BY <1>14 DEF IInv, Locked, MuFree, ReleasePut, Returned, Goto, Delivering
<1>15. ASSUME NEW w \in Workers, OnResponse(w) PROVE Locked'
  BY <1>15, OnResponseFrame DEF Locked, MuFree, OnResponse, Finish, Delivering
<1>16. CASE CloseLock
  BY <1>16, CloseFrame DEF Locked, MuFree, CloseLock, Delivering
<1>17. CASE CloseNext
  BY <1>17, CloseFrame DEF IInv, Locked, MuFree, CloseNext, Delivering
<1>18. ASSUME NEW t \in Threads, TryDeliver(t) PROVE Locked'
  BY <1>18, ReturnEffect, DeliverFrame DEF IInv, Locked, MuFree, Threads, TryDeliver
<1>19. ASSUME NEW t \in Threads, DeliverSend(t) PROVE Locked'
  BY <1>19, ReturnEffect, DeliverFrame DEF IInv, Locked, MuFree
<1>20. CASE UNCHANGED vars
  BY <1>20 DEF IInv, Locked, MuFree, vars, Delivering
<1> QED
  BY <1>1, <1>2, <1>3, <1>4, <1>5, <1>6, <1>7, <1>8, <1>9, <1>10, <1>11, <1>12,
     <1>13, <1>14, <1>15, <1>16, <1>17, <1>18, <1>19, <1>20 DEF Next,
     RequesterStep, DeliverStep

\* Nobody gets at a waiter before pendingPool.New allocated it.
LEMMA FreshStep ==
    ASSUME IInv, [Next]_vars
    PROVE  FreshUntouched'
<1>1. ASSUME NEW r \in Requesters, CreateAcquire(r) PROVE FreshUntouched'
  BY <1>1 DEF IInv, FreshUntouched, CreateAcquire, FreshId
<1>2. ASSUME NEW r \in Requesters, CreateInsert(r) PROVE FreshUntouched'
  <2>1. at[r] \in Slots /\ at[r] \notin fresh /\ txn[r] \in Ids
    BY <1>2, Locals DEF IInv, CreateInsert, FreshUntouched, Threads
  <2> QED
    BY <1>2, <2>1 DEF IInv, FreshUntouched, slotVars, CreateInsert
<1>3. ASSUME NEW r \in Requesters, Send(r) PROVE FreshUntouched'
  BY <1>3 DEF IInv, FreshUntouched, slotVars, Send
<1>4. ASSUME NEW r \in Requesters, SendFails(r) PROVE FreshUntouched'
  BY <1>4 DEF IInv, FreshUntouched, slotVars, SendFails
<1>5. ASSUME NEW r \in Requesters, WaitLookup(r) PROVE FreshUntouched'
  BY <1>5, SlotAssumption, WaitLookupEffect DEF IInv, FreshUntouched, TypeOK,
     slotVars, WaitLookup, Returned
<1>6. ASSUME NEW r \in Requesters, ClaimWait(r) PROVE FreshUntouched'
  BY <1>6, ClaimWaitEffect DEF IInv, FreshUntouched, ClaimWait
<1>7. ASSUME NEW r \in Requesters, Receive(r) PROVE FreshUntouched'
  BY <1>7 DEF IInv, FreshUntouched, Receive
<1>8. ASSUME NEW r \in Requesters, CtxDone(r) PROVE FreshUntouched'
  BY <1>8 DEF IInv, FreshUntouched, slotVars, CtxDone
<1>9. ASSUME NEW r \in Requesters, TimeoutFinish(r) PROVE FreshUntouched'
  BY <1>9, FinishOwn DEF IInv, FreshUntouched, slotVars, TimeoutFinish, Mapped
<1>10. ASSUME NEW r \in Requesters, CancelFinish(r) PROVE FreshUntouched'
  BY <1>10, FinishOwn DEF IInv, FreshUntouched, slotVars, CancelFinish, Mapped
<1>11. ASSUME NEW r \in Requesters, Remove(r) PROVE FreshUntouched'
  BY <1>11, SlotAssumption DEF IInv, FreshUntouched, TypeOK, slotVars, Remove
<1>12. ASSUME NEW r \in Requesters, CancelRemove(r) PROVE FreshUntouched'
  BY <1>12, SlotAssumption DEF IInv, FreshUntouched, TypeOK, slotVars,
     CancelRemove, Returned
<1>13. ASSUME NEW r \in Requesters, ReleaseDrain(r) PROVE FreshUntouched'
  BY <1>13 DEF IInv, FreshUntouched, ReleaseDrain
<1>14. ASSUME NEW r \in Requesters, ReleasePut(r) PROVE FreshUntouched'
  <2>1. at[r] \in Slots /\ at[r] \notin fresh
    BY <1>14, Locals DEF IInv, ReleasePut, FreshUntouched, Threads
  <2>2. \A t \in Threads : at'[t] \notin fresh
    BY <1>14, SlotAssumption DEF IInv, TypeOK, FreshUntouched, ReleasePut, Returned
  <2> QED
    BY <1>14, <2>1, <2>2 DEF IInv, FreshUntouched, slotVars, ReleasePut
<1>15. ASSUME NEW w \in Workers, OnResponse(w) PROVE FreshUntouched'
  BY <1>15, OnResponseFrame DEF IInv, FreshUntouched, TypeOK, slotVars,
     OnResponse, Finish
<1>16. CASE CloseLock
  BY <1>16, SlotAssumption, CloseFrame DEF IInv, FreshUntouched, TypeOK, slotVars,
     CloseLock
<1>17. CASE CloseNext
  BY <1>17, CloseFrame DEF IInv, FreshUntouched, TypeOK, slotVars, CloseNext
<1>18. ASSUME NEW t \in Threads, TryDeliver(t) PROVE FreshUntouched'
  BY <1>18, SlotAssumption, ReturnEffect, DeliverFrame DEF IInv, FreshUntouched,
     TypeOK, TryDeliver
<1>19. ASSUME NEW t \in Threads, DeliverSend(t) PROVE FreshUntouched'
  BY <1>19, SlotAssumption, ReturnEffect, DeliverFrame DEF IInv, FreshUntouched,
     TypeOK, DeliverSend
<1>20. CASE UNCHANGED vars
  BY <1>20 DEF IInv, FreshUntouched, slotVars, vars
<1> QED
  BY <1>1, <1>2, <1>3, <1>4, <1>5, <1>6, <1>7, <1>8, <1>9, <1>10, <1>11, <1>12,
     <1>13, <1>14, <1>15, <1>16, <1>17, <1>18, <1>19, <1>20 DEF Next,
     RequesterStep, DeliverStep

\* A request's waiter is unclaimed until its claimWait.
LEMMA UnclaimedStep ==
    ASSUME IInv, [Next]_vars
    PROVE  Unclaimed'
<1>1. ASSUME NEW r \in Requesters, CreateAcquire(r) PROVE Unclaimed'
  BY <1>1 DEF IInv, Unclaimed, TypeOK, CreateAcquire, FreshId, Goto
<1>2. ASSUME NEW r \in Requesters, CreateInsert(r) PROVE Unclaimed'
  BY <1>2 DEF IInv, Unclaimed, CreateInsert, Goto
<1>3. ASSUME NEW r \in Requesters, Send(r) PROVE Unclaimed'
  BY <1>3 DEF IInv, Unclaimed, slotVars, Send, Goto
<1>4. ASSUME NEW r \in Requesters, SendFails(r) PROVE Unclaimed'
  BY <1>4 DEF IInv, Unclaimed, slotVars, SendFails, Goto
<1>5. ASSUME NEW r \in Requesters, WaitLookup(r) PROVE Unclaimed'
  <2>1. UNCHANGED <<closed, wait, nextID, slotVars, val>> /\ pc[r] = "wait"
    BY <1>5 DEF WaitLookup
  <2>2. CASE closed /\ Returned(r)
    BY <2>1, <2>2 DEF IInv, Unclaimed, TypeOK, slotVars, Returned, Goto
  <2>3. CASE ~closed /\ at' = at /\ pc' = [pc EXCEPT ![r] = "claim"] /\ txn' = txn
             /\ got' = got
    BY <2>1, <2>3 DEF IInv, Unclaimed, slotVars
  <2> QED
    BY <2>2, <2>3, <1>5, WaitLookupEffect
<1>6. ASSUME NEW r \in Requesters, ClaimWait(r) PROVE Unclaimed'
  <2>1. UNCHANGED <<closed, wait, nextID, pool, fresh, done, ch, val>> /\ pc[r] = "claim"
    BY <1>6 DEF ClaimWait
  <2> QED
    BY <2>1, <1>6, ClaimWaitEffect, Locals DEF IInv, Unclaimed, Ownership,
       TypeOK, Threads
<1>7. ASSUME NEW r \in Requesters, Receive(r) PROVE Unclaimed'
  BY <1>7 DEF IInv, Unclaimed, Receive, Goto
<1>8. ASSUME NEW r \in Requesters, CtxDone(r) PROVE Unclaimed'
  BY <1>8 DEF IInv, Unclaimed, slotVars, CtxDone, Goto
<1>9. ASSUME NEW r \in Requesters, TimeoutFinish(r) PROVE Unclaimed'
  <2>1. /\ UNCHANGED <<closed, wait, nextID, slotVars, txn, got, at>>
        /\ \/ closed /\ pc' = [pc EXCEPT ![r] = "recv"] /\ val' = val
           \/ ~closed /\ pc' = [pc EXCEPT ![r] = "deliver"]
                      /\ val' = [val EXCEPT ![r] = Failure("ctx")]
    BY <1>9, FinishOwn DEF TimeoutFinish, Mapped
  <2>2. pc[r] = "timeout"
    BY <1>9 DEF TimeoutFinish
  <2> QED
    BY <2>1, <2>2 DEF IInv, Unclaimed, TypeOK, slotVars, Threads
<1>10. ASSUME NEW r \in Requesters, CancelFinish(r) PROVE Unclaimed'
  <2>1. /\ UNCHANGED <<closed, wait, nextID, slotVars, txn, got, at>>
        /\ \/ closed /\ pc' = [pc EXCEPT ![r] = "forget"] /\ val' = val
           \/ ~closed /\ pc' = [pc EXCEPT ![r] = "deliver"]
                      /\ val' = [val EXCEPT ![r] = Failure("canceled")]
    BY <1>10, FinishOwn DEF CancelFinish, Mapped
  <2>2. pc[r] = "cancel"
    BY <1>10 DEF CancelFinish
  <2> QED
    BY <2>1, <2>2 DEF IInv, Unclaimed, TypeOK, slotVars, Threads
<1>11. ASSUME NEW r \in Requesters, Remove(r) PROVE Unclaimed'
  BY <1>11 DEF IInv, Unclaimed, slotVars, Remove, Goto
<1>12. ASSUME NEW r \in Requesters, CancelRemove(r) PROVE Unclaimed'
  BY <1>12 DEF IInv, Unclaimed, slotVars, CancelRemove, Returned, Goto
<1>13. ASSUME NEW r \in Requesters, ReleaseDrain(r) PROVE Unclaimed'
  BY <1>13 DEF IInv, Unclaimed, ReleaseDrain, Goto
<1>14. ASSUME NEW r \in Requesters, ReleasePut(r) PROVE Unclaimed'
  BY <1>14 DEF IInv, Unclaimed, ReleasePut, Returned, Goto
<1>15. ASSUME NEW w \in Workers, OnResponse(w) PROVE Unclaimed'
  BY <1>15, OnResponseFrame DEF IInv, Unclaimed, slotVars, OnResponse, Finish
<1>16. CASE CloseLock
  BY <1>16, CloseFrame DEF IInv, Unclaimed, slotVars
<1>17. CASE CloseNext
  BY <1>17, CloseFrame DEF IInv, Unclaimed, slotVars
<1>18. ASSUME NEW t \in Threads, TryDeliver(t) PROVE Unclaimed'
  BY <1>18, ReturnEffect, DeliverFrame DEF IInv, Unclaimed, TryDeliver
<1>19. ASSUME NEW t \in Threads, DeliverSend(t) PROVE Unclaimed'
  BY <1>19, ReturnEffect, DeliverFrame DEF IInv, Unclaimed
<1>20. CASE UNCHANGED vars
  BY <1>20 DEF IInv, Unclaimed, slotVars, vars
<1> QED
  BY <1>1, <1>2, <1>3, <1>4, <1>5, <1>6, <1>7, <1>8, <1>9, <1>10, <1>11, <1>12,
     <1>13, <1>14, <1>15, <1>16, <1>17, <1>18, <1>19, <1>20 DEF Next,
     RequesterStep, DeliverStep

\* No step gives a waiter or an id to two requests, nor one in use to the pool.
LEMMA OwnershipStep ==
    ASSUME IInv, [Next]_vars
    PROVE  Ownership'
<1>1. ASSUME NEW r \in Requesters, CreateAcquire(r) PROVE Ownership'
  <2>1. PICK i \in FreshId, s \in pool \cup fresh : CreateAcquire(r)!4!(i, s)
    BY <1>1 DEF CreateAcquire
  <2>2. /\ i \in Ids /\ i > nextID
        /\ s \in Slots
    BY DEF IInv, TypeOK, FreshId
  <2>3. /\ pc' = [pc EXCEPT ![r] = "acquire"]
        /\ pc[r] = "idle"
        /\ UNCHANGED <<closed, wait, ch, val, got, snap>>
    BY <1>1 DEF CreateAcquire, Goto
  <2>4. \A q \in Requesters : pc[q] # "idle" => at[q] # s /\ txn[q] # i
    BY <2>2 DEF IInv, TypeOK, Ownership, FreshUntouched, Control,
       RequesterControl, Threads
  <2>5. \A q \in Requesters : q # r =>
          at'[q] = at[q] /\ txn'[q] = txn[q] /\ pc'[q] = pc[q]
    BY <2>1, <2>3
  <2>6. at'[r] = s /\ txn'[r] = i /\ pool' = pool \ {s}
    BY <2>1, <2>3 DEF IInv, TypeOK, Threads
  <2> QED
    BY <2>4, <2>5, <2>6 DEF IInv, Ownership
<1>2. ASSUME NEW r \in Requesters, CreateInsert(r) PROVE Ownership'
  BY <1>2 DEF IInv, Ownership, CreateInsert, Goto
<1>3. ASSUME NEW r \in Requesters, Send(r) PROVE Ownership'
  BY <1>3 DEF IInv, Ownership, slotVars, Send, Goto
<1>4. ASSUME NEW r \in Requesters, SendFails(r) PROVE Ownership'
  BY <1>4 DEF IInv, Ownership, slotVars, SendFails, Goto
<1>5. ASSUME NEW r \in Requesters, WaitLookup(r) PROVE Ownership'
  <2>1. UNCHANGED <<closed, wait, nextID, slotVars, val>> /\ pc[r] = "wait"
    BY <1>5 DEF WaitLookup
  <2>2. CASE closed /\ Returned(r)
    BY <2>1, <2>2, Locals, ThreadAssumption DEF IInv, Ownership, TypeOK,
       slotVars, Ids, Returned, Goto
  <2>3. CASE ~closed /\ at' = at /\ pc' = [pc EXCEPT ![r] = "claim"] /\ txn' = txn
             /\ got' = got
    BY <2>1, <2>3 DEF IInv, Ownership, slotVars
  <2> QED
    BY <2>2, <2>3, <1>5, WaitLookupEffect
<1>6. ASSUME NEW r \in Requesters, ClaimWait(r) PROVE Ownership'
  <2>1. UNCHANGED pool /\ pc[r] = "claim"
    BY <1>6 DEF ClaimWait
  <2>2. pc' = [pc EXCEPT ![r] = "select"] /\ UNCHANGED <<at, txn>>
    BY <1>6, ClaimWaitEffect
  <2> QED
    BY <2>1, <2>2, OwnershipFrame DEF IInv
<1>7. ASSUME NEW r \in Requesters, Receive(r) PROVE Ownership'
  BY <1>7 DEF IInv, Ownership, Receive, Goto
<1>8. ASSUME NEW r \in Requesters, CtxDone(r) PROVE Ownership'
  BY <1>8 DEF IInv, Ownership, slotVars, CtxDone, Goto
<1>9. ASSUME NEW r \in Requesters, TimeoutFinish(r) PROVE Ownership'
  <2>1. /\ UNCHANGED <<closed, wait, nextID, slotVars, txn, got, at>>
        /\ \/ closed /\ pc' = [pc EXCEPT ![r] = "recv"] /\ val' = val
           \/ ~closed /\ pc' = [pc EXCEPT ![r] = "deliver"]
                      /\ val' = [val EXCEPT ![r] = Failure("ctx")]
    BY <1>9, FinishOwn DEF TimeoutFinish, Mapped
  <2>2. pc[r] = "timeout"
    BY <1>9 DEF TimeoutFinish
  <2> QED
    BY <2>1, <2>2, SlotAssumption DEF IInv, Ownership, TypeOK, slotVars, Threads
<1>10. ASSUME NEW r \in Requesters, CancelFinish(r) PROVE Ownership'
  <2>1. /\ UNCHANGED <<closed, wait, nextID, slotVars, txn, got, at>>
        /\ \/ closed /\ pc' = [pc EXCEPT ![r] = "forget"] /\ val' = val
           \/ ~closed /\ pc' = [pc EXCEPT ![r] = "deliver"]
                      /\ val' = [val EXCEPT ![r] = Failure("canceled")]
    BY <1>10, FinishOwn DEF CancelFinish, Mapped
  <2>2. pc[r] = "cancel"
    BY <1>10 DEF CancelFinish
  <2> QED
    BY <2>1, <2>2, SlotAssumption DEF IInv, Ownership, TypeOK, slotVars, Threads
<1>11. ASSUME NEW r \in Requesters, Remove(r) PROVE Ownership'
  BY <1>11 DEF IInv, Ownership, slotVars, Remove, Goto
<1>12. ASSUME NEW r \in Requesters, CancelRemove(r) PROVE Ownership'
  BY <1>12 DEF IInv, Ownership, TypeOK, slotVars, Threads, CancelRemove, Returned,
     Goto
<1>13. ASSUME NEW r \in Requesters, ReleaseDrain(r) PROVE Ownership'
  BY <1>13 DEF IInv, Ownership, ReleaseDrain, Goto
<1>14. ASSUME NEW r \in Requesters, ReleasePut(r) PROVE Ownership'
  BY <1>14 DEF IInv, Ownership, TypeOK, Threads, ReleasePut, Returned, Goto
<1>15. ASSUME NEW w \in Workers, OnResponse(w) PROVE Ownership'
  BY <1>15, OnResponseFrame, OwnershipFrame DEF IInv, slotVars, Delivering
<1>16. CASE CloseLock
  BY <1>16, CloseFrame, OwnershipFrame DEF IInv, slotVars, Delivering
<1>17. CASE CloseNext
  BY <1>17, CloseFrame, OwnershipFrame DEF IInv, slotVars, Delivering
<1>18. ASSUME NEW t \in Threads, TryDeliver(t) PROVE Ownership'
  BY <1>18, DeliverFrame, OwnershipFrame DEF IInv, slotVars, Delivering
<1>19. ASSUME NEW t \in Threads, DeliverSend(t) PROVE Ownership'
  BY <1>19, DeliverFrame, OwnershipFrame DEF IInv, slotVars, Delivering
<1>20. CASE UNCHANGED vars
  BY <1>20 DEF IInv, Ownership, slotVars, vars
<1> QED
  BY <1>1, <1>2, <1>3, <1>4, <1>5, <1>6, <1>7, <1>8, <1>9, <1>10, <1>11, <1>12,
     <1>13, <1>14, <1>15, <1>16, <1>17, <1>18, <1>19, <1>20 DEF Next,
     RequesterStep, DeliverStep

\* m.wait follows the requests in flight: Create inserts, remove deletes, Close
\* empties.
LEMMA MapStep ==
    ASSUME IInv, [Next]_vars
    PROVE  MapInv'
<1>1. ASSUME NEW r \in Requesters, CreateAcquire(r) PROVE MapInv'
  BY <1>1, MapFrame DEF IInv, Mapped, CreateAcquire, FreshId, Goto, Delivering
<1>2. ASSUME NEW r \in Requesters, CreateInsert(r) PROVE MapInv'
  <2>1. /\ pc' = [pc EXCEPT ![r] = "created"]
        /\ wait' = [wait EXCEPT ![txn[r]] = at[r]]
        /\ pc[r] = "acquire"
        /\ UNCHANGED <<closed, txn, at>>
    BY <1>2 DEF CreateInsert, Goto
  <2>2. ~closed /\ txn[r] \in Ids /\ at[r] \in Slots
    BY <2>1, Locals DEF IInv, Locked, MuFree
  <2>3. ASSUME NEW i \in Ids, wait'[i] # NoSlot
        PROVE  \E q \in Requesters : pc'[q] \in Mapped /\ txn'[q] = i /\ at'[q] = wait'[i]
    <3>1. CASE i = txn[r]
      BY <3>1, <2>1, <2>2 DEF IInv, TypeOK, Threads, Mapped
    <3>2. CASE i # txn[r]
      <4>1. PICK q \in Requesters : pc[q] \in Mapped /\ txn[q] = i /\ at[q] = wait[i]
        BY <3>2, <2>1, <2>3 DEF IInv, MapInv, MapIsInFlight
      <4>2. q # r
        BY <4>1, <2>1 DEF Mapped, Delivering
      <4> QED
        BY <4>1, <4>2, <3>2, <2>1
    <3> QED
      BY <3>1, <3>2
  <2>4. ASSUME NEW q \in Requesters, pc'[q] \in Mapped
        PROVE  wait'[txn'[q]] = at'[q]
    <3>1. CASE q = r
      BY <3>1, <2>1, <2>2 DEF IInv, TypeOK
    <3>2. CASE q # r
      <4>1. pc[q] \in Mapped
        BY <3>2, <2>1, <2>4
      <4>2. wait[txn[q]] = at[q] /\ txn[q] # txn[r]
        BY <3>2, <4>1, <2>1, <2>2 DEF IInv, MapInv, MapIsInFlight,
           Ownership, Mapped, Delivering
      <4> QED
        BY <4>2, <2>1
    <3> QED
      BY <3>1, <3>2
  <2> QED
    BY <2>1, <2>2, <2>3, <2>4 DEF MapInv, MapIsInFlight
<1>3. ASSUME NEW r \in Requesters, Send(r) PROVE MapInv'
  BY <1>3, MapFrame DEF IInv, Mapped, Send, Goto
<1>4. ASSUME NEW r \in Requesters, SendFails(r) PROVE MapInv'
  BY <1>4, MapFrame DEF IInv, Mapped, SendFails, Goto
<1>5. ASSUME NEW r \in Requesters, WaitLookup(r) PROVE MapInv'
  <2>1. UNCHANGED <<closed, wait>> /\ pc[r] = "wait"
    BY <1>5 DEF WaitLookup
  <2>2. CASE closed /\ Returned(r)
    <3>1. \A i \in Ids : wait[i] = NoSlot
      BY <2>2 DEF IInv, MapInv
    <3> QED
      BY <2>1, <2>2, <3>1 DEF MapInv, MapIsInFlight
  <2>3. CASE at' = at /\ pc' = [pc EXCEPT ![r] = "claim"] /\ txn' = txn
    BY <2>1, <2>3, MapFrame DEF IInv, Mapped
  <2> QED
    BY <2>2, <2>3, <1>5, WaitLookupEffect
<1>6. ASSUME NEW r \in Requesters, ClaimWait(r) PROVE MapInv'
  <2>1. UNCHANGED <<closed, wait, nextID, pool, fresh, done, ch, val>> /\ pc[r] = "claim"
    BY <1>6 DEF ClaimWait
  <2> QED
    BY <2>1, <1>6, ClaimWaitEffect, MapFrame DEF IInv, TypeOK, Threads, Mapped,
       Delivering
<1>7. ASSUME NEW r \in Requesters, Receive(r) PROVE MapInv'
  BY <1>7, MapFrame DEF IInv, Mapped, Receive, Goto
<1>8. ASSUME NEW r \in Requesters, CtxDone(r) PROVE MapInv'
  BY <1>8, MapFrame DEF IInv, Mapped, CtxDone, Goto
<1>9. ASSUME NEW r \in Requesters, TimeoutFinish(r) PROVE MapInv'
  BY <1>9, MapFrame, FinishOwn DEF IInv, MapInv, TypeOK, Threads, TimeoutFinish,
     Mapped, Delivering
<1>10. ASSUME NEW r \in Requesters, CancelFinish(r) PROVE MapInv'
  BY <1>10, MapFrame, FinishOwn DEF IInv, MapInv, TypeOK, Threads, CancelFinish,
     Mapped, Delivering
<1>11. ASSUME NEW r \in Requesters, Remove(r) PROVE MapInv'
  <2>1. /\ pc' = [pc EXCEPT ![r] = "drain"]
        /\ wait' = [wait EXCEPT ![txn[r]] = NoSlot]
        /\ pc[r] = "remove"
        /\ \A q \in Requesters : q # r => txn'[q] = txn[q] /\ at'[q] = at[q]
        /\ UNCHANGED closed
    BY <1>11 DEF Remove, Goto
  <2>2. txn[r] \in Ids
    BY <2>1, Locals DEF IInv
  <2>3. ASSUME NEW i \in Ids, wait'[i] # NoSlot
        PROVE  \E q \in Requesters : pc'[q] \in Mapped /\ txn'[q] = i /\ at'[q] = wait'[i]
    <3>1. i # txn[r] /\ wait'[i] = wait[i]
      BY <2>1, <2>2, <2>3 DEF IInv, TypeOK
    <3>2. PICK q \in Requesters : pc[q] \in Mapped /\ txn[q] = i /\ at[q] = wait[i]
      BY <3>1, <2>3 DEF IInv, MapInv, MapIsInFlight
    <3> QED
      BY <3>1, <3>2, <2>1
  <2>4. ASSUME NEW q \in Requesters, pc'[q] \in Mapped, ~closed'
        PROVE  wait'[txn'[q]] = at'[q]
    <3>1. q # r /\ pc[q] \in Mapped
      BY <2>1, <2>4 DEF IInv, TypeOK, Threads, Mapped, Delivering
    <3>2. wait[txn[q]] = at[q] /\ txn[q] # txn[r]
      BY <3>1, <2>1, <2>4 DEF IInv, MapInv, MapIsInFlight, Ownership, Mapped,
         Delivering
    <3> QED
      BY <3>1, <3>2, <2>1
  <2>5. closed' => \A i \in Ids : wait'[i] = NoSlot
    BY <2>1, <2>2 DEF IInv, MapInv
  <2> QED
    BY <2>3, <2>4, <2>5 DEF MapInv, MapIsInFlight
<1>12. ASSUME NEW r \in Requesters, CancelRemove(r) PROVE MapInv'
  <2>1. /\ pc' = [pc EXCEPT ![r] = "idle"]
        /\ wait' = [wait EXCEPT ![txn[r]] = NoSlot]
        /\ pc[r] = "forget"
        /\ \A q \in Requesters : q # r => txn'[q] = txn[q] /\ at'[q] = at[q]
        /\ UNCHANGED closed
    BY <1>12 DEF CancelRemove, Returned, Goto
  <2>2. txn[r] \in Ids
    BY <2>1, Locals DEF IInv
  <2>3. ASSUME NEW i \in Ids, wait'[i] # NoSlot
        PROVE  \E q \in Requesters : pc'[q] \in Mapped /\ txn'[q] = i /\ at'[q] = wait'[i]
    <3>1. i # txn[r] /\ wait'[i] = wait[i]
      BY <2>1, <2>2, <2>3 DEF IInv, TypeOK
    <3>2. PICK q \in Requesters : pc[q] \in Mapped /\ txn[q] = i /\ at[q] = wait[i]
      BY <3>1, <2>3 DEF IInv, MapInv, MapIsInFlight
    <3> QED
      BY <3>1, <3>2, <2>1
  <2>4. ASSUME NEW q \in Requesters, pc'[q] \in Mapped, ~closed'
        PROVE  wait'[txn'[q]] = at'[q]
    <3>1. q # r /\ pc[q] \in Mapped
      BY <2>1, <2>4 DEF IInv, TypeOK, Threads, Mapped, Delivering
    <3>2. wait[txn[q]] = at[q] /\ txn[q] # txn[r]
      BY <3>1, <2>1, <2>4 DEF IInv, MapInv, MapIsInFlight, Ownership, Mapped,
         Delivering
    <3> QED
      BY <3>1, <3>2, <2>1
  <2>5. closed' => \A i \in Ids : wait'[i] = NoSlot
    BY <2>1, <2>2 DEF IInv, MapInv
  <2> QED
    BY <2>3, <2>4, <2>5 DEF MapInv, MapIsInFlight
<1>13. ASSUME NEW r \in Requesters, ReleaseDrain(r) PROVE MapInv'
  BY <1>13, MapFrame DEF IInv, Mapped, ReleaseDrain, Goto, Delivering
<1>14. ASSUME NEW r \in Requesters, ReleasePut(r) PROVE MapInv'
  BY <1>14, MapFrame DEF IInv, Mapped, ReleasePut, Returned, Goto, Delivering
<1>15. ASSUME NEW w \in Workers, OnResponse(w) PROVE MapInv'
  BY <1>15, ThreadAssumption, MapFrame, OnResponseFrame DEF IInv, Threads,
     OnResponse, Finish
<1>16. CASE CloseLock
  BY <1>16, MapFrame, CloseFrame DEF MapInv, MapIsInFlight, CloseLock
<1>17. CASE CloseNext
  BY <1>17, MapFrame, CloseFrame DEF IInv, CloseNext
<1>18. ASSUME NEW t \in Threads, TryDeliver(t) PROVE MapInv'
  BY <1>18, MapFrame, ReturnEffect, DeliverFrame DEF IInv, Mapped, TryDeliver,
     Delivering
<1>19. ASSUME NEW t \in Threads, DeliverSend(t) PROVE MapInv'
  BY <1>19, MapFrame, ReturnEffect, DeliverFrame DEF IInv, Mapped, Delivering
<1>20. CASE UNCHANGED vars
  BY <1>20, MapFrame DEF IInv, vars
<1> QED
  BY <1>1, <1>2, <1>3, <1>4, <1>5, <1>6, <1>7, <1>8, <1>9, <1>10, <1>11, <1>12,
     <1>13, <1>14, <1>15, <1>16, <1>17, <1>18, <1>19, <1>20 DEF Next,
     RequesterStep, DeliverStep

\* p.mu keeps deliveries to one waiter apart.
LEMMA SoleStep ==
    ASSUME IInv, [Next]_vars
    PROVE  Sole'
<1>1. ASSUME NEW r \in Requesters, CreateAcquire(r) PROVE Sole'
  BY <1>1 DEF IInv, Sole, CreateAcquire, FreshId, Goto
<1>2. ASSUME NEW r \in Requesters, CreateInsert(r) PROVE Sole'
  BY <1>2 DEF IInv, Sole, CreateInsert, Goto
<1>3. ASSUME NEW r \in Requesters, Send(r) PROVE Sole'
  BY <1>3 DEF IInv, Sole, Send, Goto
<1>4. ASSUME NEW r \in Requesters, SendFails(r) PROVE Sole'
  BY <1>4 DEF IInv, Sole, SendFails, Goto
<1>5. ASSUME NEW r \in Requesters, WaitLookup(r) PROVE Sole'
  BY <1>5, WaitLookupEffect DEF IInv, Sole, TypeOK, WaitLookup, Returned, Goto
<1>6. ASSUME NEW r \in Requesters, ClaimWait(r) PROVE Sole'
  BY <1>6, ClaimWaitEffect DEF IInv, Sole, TypeOK
<1>7. ASSUME NEW r \in Requesters, Receive(r) PROVE Sole'
  BY <1>7 DEF IInv, Sole, Receive, Goto
<1>8. ASSUME NEW r \in Requesters, CtxDone(r) PROVE Sole'
  BY <1>8 DEF IInv, Sole, CtxDone, Goto
<1>9. ASSUME NEW r \in Requesters, TimeoutFinish(r) PROVE Sole'
  BY <1>9, FinishOwn DEF IInv, Sole, TypeOK, TimeoutFinish, Mapped
<1>10. ASSUME NEW r \in Requesters, CancelFinish(r) PROVE Sole'
  BY <1>10, FinishOwn DEF IInv, Sole, TypeOK, CancelFinish, Mapped
<1>11. ASSUME NEW r \in Requesters, Remove(r) PROVE Sole'
  BY <1>11 DEF IInv, Sole, Remove, Goto
<1>12. ASSUME NEW r \in Requesters, CancelRemove(r) PROVE Sole'
  BY <1>12 DEF IInv, Sole, CancelRemove, Returned, Goto
<1>13. ASSUME NEW r \in Requesters, ReleaseDrain(r) PROVE Sole'
  BY <1>13 DEF IInv, Sole, ReleaseDrain, Goto
<1>14. ASSUME NEW r \in Requesters, ReleasePut(r) PROVE Sole'
  BY <1>14 DEF IInv, Sole, ReleasePut, Returned, Goto
<1>15. ASSUME NEW w \in Workers, OnResponse(w) PROVE Sole'
  BY <1>15, OnResponseFrame DEF IInv, Sole, TypeOK, OnResponse, Finish, Goto
<1>16. CASE CloseLock
  BY <1>16, CloseFrame DEF IInv, Sole, CloseLock, Goto
<1>17. CASE CloseNext
  BY <1>17, CloseFrame DEF IInv, Sole, TypeOK, CloseNext, Goto
<1>18. ASSUME NEW t \in Threads, TryDeliver(t) PROVE Sole'
  BY <1>18, ReturnEffect, DeliverFrame DEF IInv, Sole, TypeOK, SlotFree,
     TryDeliver, Goto
<1>19. ASSUME NEW t \in Threads, DeliverSend(t) PROVE Sole'
  BY <1>19, ReturnEffect, DeliverFrame DEF IInv, Sole, TypeOK, DeliverSend
<1>20. CASE UNCHANGED vars
  BY <1>20 DEF IInv, Sole, vars
<1> QED
  BY <1>1, <1>2, <1>3, <1>4, <1>5, <1>6, <1>7, <1>8, <1>9, <1>10, <1>11, <1>12,
     <1>13, <1>14, <1>15, <1>16, <1>17, <1>18, <1>19, <1>20 DEF Next,
     RequesterStep, DeliverStep

\* Until raced, a worker that looked a waiter up delivers to the request it was
\* looked up for.
LEMMA TargetedStep ==
    ASSUME IInv, ~raced, ~raced', [Next]_vars
    PROVE  Targeted'
<1>1. ASSUME NEW r \in Requesters, CreateAcquire(r) PROVE Targeted'
  <2>1. PICK i \in FreshId, s \in pool \cup fresh : CreateAcquire(r)!4!(i, s)
    BY <1>1 DEF CreateAcquire
  <2>2. /\ i \in Ids /\ i > nextID
        /\ s \in Slots
    BY DEF IInv, TypeOK, FreshId
  <2>3. /\ pc' = [pc EXCEPT ![r] = "acquire"]
        /\ pc[r] = "idle"
        /\ UNCHANGED <<closed, wait, ch, val, got, snap>>
    BY <1>1 DEF CreateAcquire, Goto
  <2>4. /\ \A t \in Threads : pc[t] \in Delivering => at[t] # s
        /\ \A q \in Requesters : pc[q] # "idle" => at[q] # s
    BY <2>1, <2>2 DEF BeingDelivered, IInv, Ownership, FreshUntouched, Threads
  <2>5. /\ \A t \in Threads \ {r} : at'[t] = at[t] /\ pc'[t] = pc[t]
        /\ \A q \in Requesters \ {r} : txn'[q] = txn[q]
        /\ at'[r] = s /\ txn'[r] = i /\ pc'[r] = "acquire"
        /\ done'[s] = FALSE
        /\ \A z \in Slots \ {s} : done'[z] = done[z]
    BY <2>1, <2>2, <2>3 DEF IInv, TypeOK, Threads
  <2> QED
    BY <2>2, <2>3, <2>4, <2>5, ThreadAssumption DEF IInv, DeliveryInv, Targeted,
       Threads
<1>2. ASSUME NEW r \in Requesters, CreateInsert(r) PROVE Targeted'
  BY <1>2, ThreadAssumption DEF IInv, DeliveryInv, Targeted, CreateInsert, Goto
<1>3. ASSUME NEW r \in Requesters, Send(r) PROVE Targeted'
  BY <1>3, ThreadAssumption DEF IInv, DeliveryInv, Targeted, Send, Goto
<1>4. ASSUME NEW r \in Requesters, SendFails(r) PROVE Targeted'
  BY <1>4, ThreadAssumption DEF IInv, DeliveryInv, Targeted, SendFails, Goto
<1>5. ASSUME NEW r \in Requesters, WaitLookup(r) PROVE Targeted'
  BY <1>5, ThreadAssumption, WaitLookupEffect DEF IInv, DeliveryInv, Targeted,
     TypeOK, Threads, Mapped, MapInv, MapIsInFlight, WaitLookup, Returned, Goto
<1>6. ASSUME NEW r \in Requesters, ClaimWait(r) PROVE Targeted'
  BY <1>6, ThreadAssumption, ClaimWaitEffect DEF IInv, DeliveryInv, Targeted,
     TypeOK, Threads, ClaimWait, Goto
<1>7. ASSUME NEW r \in Requesters, Receive(r) PROVE Targeted'
  BY <1>7, ThreadAssumption DEF IInv, DeliveryInv, Targeted, Receive, Goto
<1>8. ASSUME NEW r \in Requesters, CtxDone(r) PROVE Targeted'
  BY <1>8, ThreadAssumption DEF IInv, DeliveryInv, Targeted, CtxDone, Goto
<1>9. ASSUME NEW r \in Requesters, TimeoutFinish(r) PROVE Targeted'
  BY <1>9, ThreadAssumption, FinishOwn DEF IInv, DeliveryInv, Targeted, TypeOK,
     Threads, TimeoutFinish, Mapped
<1>10. ASSUME NEW r \in Requesters, CancelFinish(r) PROVE Targeted'
  BY <1>10, ThreadAssumption, FinishOwn DEF IInv, DeliveryInv, Targeted, TypeOK,
     Threads, CancelFinish, Mapped
<1>11. ASSUME NEW r \in Requesters, Remove(r) PROVE Targeted'
  BY <1>11, ThreadAssumption DEF IInv, DeliveryInv, Targeted, Remove, Goto
<1>12. ASSUME NEW r \in Requesters, CancelRemove(r) PROVE Targeted'
  BY <1>12, ThreadAssumption DEF IInv, DeliveryInv, Targeted, TypeOK, Threads,
     CancelRemove, Returned, Goto
<1>13. ASSUME NEW r \in Requesters, ReleaseDrain(r) PROVE Targeted'
  BY <1>13, ThreadAssumption DEF IInv, DeliveryInv, Targeted, ReleaseDrain, Goto
<1>14. ASSUME NEW r \in Requesters, ReleasePut(r) PROVE Targeted'
  BY <1>14, ThreadAssumption DEF IInv, DeliveryInv, Targeted, TypeOK, Threads,
     ReleasePut, Returned, Goto
<1>15. ASSUME NEW w \in Workers, OnResponse(w) PROVE Targeted'
  BY <1>15, SlotAssumption, ThreadAssumption, ResultFacts, OnResponseFrame DEF
     IInv, DeliveryInv, Targeted, TypeOK, Ownership, slotVars, Threads, Mapped,
     MapInv, MapIsInFlight, OnResponse, Finish, Goto, Delivering
<1>16. CASE CloseLock
  BY <1>16, ThreadAssumption, CloseFrame DEF IInv, DeliveryInv, Targeted,
     CloseLock, Goto
<1>17. CASE CloseNext
  BY <1>17, ThreadAssumption, CloseFrame DEF IInv, DeliveryInv, Targeted, TypeOK,
     Threads, CloseNext, Goto
<1>18. ASSUME NEW t \in Threads, TryDeliver(t) PROVE Targeted'
  BY <1>18, ReturnEffect, DeliverFrame DEF IInv, DeliveryInv, Targeted, TypeOK,
     Threads, TryDeliver, Goto, Delivering
<1>19. ASSUME NEW t \in Threads, DeliverSend(t) PROVE Targeted'
  BY <1>19, Locals, SlotAssumption, ThreadAssumption, ReturnEffect, DeliverFrame
     DEF IInv, DeliveryInv, Targeted, TypeOK, Threads, DeliverSend
<1>20. CASE UNCHANGED vars
  BY <1>20 DEF IInv, DeliveryInv, Targeted, vars
<1> QED
  BY <1>1, <1>2, <1>3, <1>4, <1>5, <1>6, <1>7, <1>8, <1>9, <1>10, <1>11, <1>12,
     <1>13, <1>14, <1>15, <1>16, <1>17, <1>18, <1>19, <1>20 DEF Next,
     RequesterStep, DeliverStep

\* Until raced, p.done and the channel of a waiter agree.
LEMMA SendingStep ==
    ASSUME IInv, ~raced, ~raced', [Next]_vars
    PROVE  Sending'
<1>1. ASSUME NEW r \in Requesters, CreateAcquire(r) PROVE Sending'
  <2>1. PICK i \in FreshId, s \in pool \cup fresh : CreateAcquire(r)!4!(i, s)
    BY <1>1 DEF CreateAcquire
  <2>2. /\ i \in Ids /\ i > nextID
        /\ s \in Slots
    BY DEF IInv, TypeOK, FreshId
  <2>3. /\ pc' = [pc EXCEPT ![r] = "acquire"]
        /\ pc[r] = "idle"
        /\ UNCHANGED <<closed, wait, ch, val, got, snap>>
    BY <1>1 DEF CreateAcquire, Goto
  <2>4. /\ \A t \in Threads : pc[t] \in Delivering => at[t] # s
        /\ \A q \in Requesters : pc[q] # "idle" => at[q] # s
    BY <2>1, <2>2 DEF BeingDelivered, IInv, Ownership, FreshUntouched, Threads
  <2>5. /\ \A t \in Threads \ {r} : at'[t] = at[t] /\ pc'[t] = pc[t]
        /\ \A q \in Requesters \ {r} : txn'[q] = txn[q]
        /\ at'[r] = s /\ txn'[r] = i /\ pc'[r] = "acquire"
        /\ done'[s] = FALSE
        /\ \A z \in Slots \ {s} : done'[z] = done[z]
    BY <2>1, <2>2, <2>3 DEF IInv, TypeOK, Threads
  <2> QED
    BY <2>2, <2>3, <2>4, <2>5, Locals DEF IInv, DeliveryInv, Sending, Threads,
       Delivering
<1>2. ASSUME NEW r \in Requesters, CreateInsert(r) PROVE Sending'
  BY <1>2 DEF IInv, DeliveryInv, Sending, TypeOK, CreateInsert, Goto
<1>3. ASSUME NEW r \in Requesters, Send(r) PROVE Sending'
  BY <1>3 DEF IInv, DeliveryInv, Sending, slotVars, Send, Goto
<1>4. ASSUME NEW r \in Requesters, SendFails(r) PROVE Sending'
  BY <1>4 DEF IInv, DeliveryInv, Sending, slotVars, SendFails, Goto
<1>5. ASSUME NEW r \in Requesters, WaitLookup(r) PROVE Sending'
  BY <1>5, SlotAssumption, ThreadAssumption, WaitLookupEffect DEF IInv,
     DeliveryInv, Sending, TypeOK, slotVars, Threads, WaitLookup, Returned, Goto
<1>6. ASSUME NEW r \in Requesters, ClaimWait(r) PROVE Sending'
  <2>1. UNCHANGED <<done, ch>> /\ pc[r] = "claim"
    BY <1>6 DEF ClaimWait
  <2>2. pc' = [pc EXCEPT ![r] = "select"] /\ at' = at
    BY <1>6, ClaimWaitEffect
  <2> QED
    BY <2>1, <2>2 DEF IInv, DeliveryInv, Sending
<1>7. ASSUME NEW r \in Requesters, Receive(r) PROVE Sending'
  BY <1>7 DEF IInv, DeliveryInv, Sending, Receive, Goto
<1>8. ASSUME NEW r \in Requesters, CtxDone(r) PROVE Sending'
  BY <1>8 DEF IInv, DeliveryInv, Sending, slotVars, CtxDone, Goto
<1>9. ASSUME NEW r \in Requesters, TimeoutFinish(r) PROVE Sending'
  BY <1>9, FinishOwn DEF IInv, DeliveryInv, Sending, TypeOK, slotVars, Threads,
     TimeoutFinish, Mapped
<1>10. ASSUME NEW r \in Requesters, CancelFinish(r) PROVE Sending'
  BY <1>10, FinishOwn DEF IInv, DeliveryInv, Sending, TypeOK, slotVars, Threads,
     CancelFinish, Mapped
<1>11. ASSUME NEW r \in Requesters, Remove(r) PROVE Sending'
  BY <1>11 DEF IInv, DeliveryInv, Sending, slotVars, Remove, Goto
<1>12. ASSUME NEW r \in Requesters, CancelRemove(r) PROVE Sending'
  BY <1>12 DEF IInv, DeliveryInv, Sending, slotVars, CancelRemove, Returned, Goto
<1>13. ASSUME NEW r \in Requesters, ReleaseDrain(r) PROVE Sending'
  BY <1>13 DEF IInv, DeliveryInv, Sending, ReleaseDrain, Goto
<1>14. ASSUME NEW r \in Requesters, ReleasePut(r) PROVE Sending'
  <2>1. /\ pc' = [pc EXCEPT ![r] = "idle"] /\ at' = [at EXCEPT ![r] = NoSlot]
        /\ done' = [done EXCEPT ![at[r]] = FALSE]
        /\ ch' = ch /\ pc[r] = "put" /\ SlotFree(at[r])
    BY <1>14 DEF ReleasePut, Returned, Goto
  <2>2. ch[at[r]] = NoResult /\ at[r] \in Slots
    BY <2>1, Locals DEF IInv, DeliveryInv, Settled
  <2>3. \A q \in Requesters : pc[q] = "acquire" => q # r /\ at[q] # at[r]
    BY <2>1 DEF IInv, Ownership
  <2> QED
    BY <2>1, <2>2, <2>3 DEF IInv, DeliveryInv, Sending, SlotFree
<1>15. ASSUME NEW w \in Workers, OnResponse(w) PROVE Sending'
  <2>1. /\ \A t \in Threads \ {w} : pc'[t] = pc[t] /\ at'[t] = at[t]
        /\ pc[w] = "idle" /\ pc'[w] \in {"idle", "deliver"}
    BY <1>15 DEF OnResponse, Finish, Goto, IInv, TypeOK
  <2>2. w \notin Requesters /\ w # Closer
    BY ThreadAssumption
  <2>3. UNCHANGED <<closed, done, ch, txn, got, snap>>
    BY <1>15 DEF OnResponse, slotVars
  <2> QED
    BY <2>1, <2>2, <2>3 DEF IInv, DeliveryInv, Sending, SlotFree, Threads
<1>16. CASE CloseLock
  BY <1>16, CloseFrame DEF IInv, DeliveryInv, Sending, slotVars, CloseLock, Goto
<1>17. CASE CloseNext
  BY <1>17, Locals, SlotAssumption, CloseFrame DEF IInv, DeliveryInv, Sending,
     TypeOK, slotVars, CloseNext, Goto
<1>18. ASSUME NEW t \in Threads, TryDeliver(t) PROVE Sending'
  <2>1. CASE Return(t) /\ UNCHANGED <<done, ch>>
    BY <2>1, <1>18, ReturnEffect DEF IInv, DeliveryInv, Sending, TypeOK,
       RequesterControl, Threads, TryDeliver
  <2>2. CASE /\ ~done[at[t]]
             /\ done' = [done EXCEPT ![at[t]] = TRUE]
             /\ pc' = [pc EXCEPT ![t] = "send"]
             /\ UNCHANGED <<at, ch>>
    <3>1. at[t] \in Slots /\ pc[t] = "deliver"
      BY <1>18, Locals DEF IInv, TryDeliver, Delivering
    <3>2. \A r \in Requesters : pc[r] = "acquire" => at[r] # at[t]
      BY <3>1 DEF IInv, DeliveryInv, Targeted, Locked, MuFree, Control,
         CloserControl, Ownership, Threads, Delivering
    <3>3. ch[at[t]] = NoResult
      BY <2>2, <3>1, <3>2 DEF IInv, DeliveryInv, Sending
    <3> QED
      BY <2>2, <3>1, <3>2, <3>3 DEF IInv, DeliveryInv, Sending, TypeOK
  <2> QED
    BY <2>1, <2>2, <1>18 DEF TryDeliver, Goto
<1>19. ASSUME NEW t \in Threads, DeliverSend(t) PROVE Sending'
  <2>1. /\ ch' = [ch EXCEPT ![at[t]] = val[t]]
        /\ pc[t] = "send" /\ done' = done /\ Return(t)
    BY <1>19 DEF DeliverSend
  <2>2. at[t] \in Slots /\ done[at[t]]
    BY <2>1, Locals DEF IInv, DeliveryInv, Sending, Delivering
  <2>3. \A u \in Threads : pc'[u] = "send" => u # t /\ pc[u] = "send" /\ at'[u] = at[u]
    BY <2>1, ReturnEffect DEF IInv, TypeOK
  <2>4. \A u \in Threads : u # t /\ pc[u] = "send" => at[u] # at[t]
    BY <2>1 DEF IInv, Sole
  <2>5. \A r \in Requesters : pc'[r] = "acquire" <=> pc[r] = "acquire"
    BY <1>19, DeliverFrame DEF Delivering
  <2>6. \A r \in Requesters : at'[r] = at[r]
    BY <1>19, DeliverFrame
  <2> QED
    BY <2>1, <2>2, <2>3, <2>4, <2>5, <2>6 DEF IInv, DeliveryInv, Sending
<1>20. CASE UNCHANGED vars
  BY <1>20 DEF IInv, DeliveryInv, Sending, slotVars, vars
<1> QED
  BY <1>1, <1>2, <1>3, <1>4, <1>5, <1>6, <1>7, <1>8, <1>9, <1>10, <1>11, <1>12,
     <1>13, <1>14, <1>15, <1>16, <1>17, <1>18, <1>19, <1>20 DEF Next,
     RequesterStep, DeliverStep

\* Until raced, the response in a request's channel is its own.
LEMMA AnsweredStep ==
    ASSUME IInv, ~raced, ~raced', [Next]_vars
    PROVE  Answered'
<1>1. ASSUME NEW r \in Requesters, CreateAcquire(r) PROVE Answered'
  BY <1>1, ResultFacts DEF IInv, DeliveryInv, Answered, Control, RequesterControl,
     Targeted, CreateAcquire, FreshId, Goto
<1>2. ASSUME NEW r \in Requesters, CreateInsert(r) PROVE Answered'
  BY <1>2, Locals, ResultFacts DEF IInv, DeliveryInv, Answered, TypeOK, Targeted,
     CreateInsert, Goto
<1>3. ASSUME NEW r \in Requesters, Send(r) PROVE Answered'
  BY <1>3 DEF IInv, DeliveryInv, Answered, slotVars, Targeted, Send, Goto
<1>4. ASSUME NEW r \in Requesters, SendFails(r) PROVE Answered'
  BY <1>4 DEF IInv, DeliveryInv, Answered, slotVars, Targeted, SendFails, Goto
<1>5. ASSUME NEW r \in Requesters, WaitLookup(r) PROVE Answered'
  <2>1. UNCHANGED <<closed, wait, nextID, slotVars, val>> /\ pc[r] = "wait"
    BY <1>5 DEF WaitLookup
  <2>2. CASE closed /\ Returned(r)
    BY <2>1, <2>2, ResultFacts DEF IInv, DeliveryInv, Answered, TypeOK,
       slotVars, Threads, Targeted, Returned, Goto
  <2>3. CASE ~closed /\ at' = at /\ pc' = [pc EXCEPT ![r] = "claim"] /\ txn' = txn
             /\ got' = got
    BY <2>1, <2>3 DEF IInv, DeliveryInv, Answered, slotVars, Targeted
  <2> QED
    BY <2>2, <2>3, <1>5, WaitLookupEffect
<1>6. ASSUME NEW r \in Requesters, ClaimWait(r) PROVE Answered'
  BY <1>6, ClaimWaitEffect DEF IInv, DeliveryInv, Answered, TypeOK, Threads,
     Targeted, ClaimWait
<1>7. ASSUME NEW r \in Requesters, Receive(r) PROVE Answered'
  BY <1>7, ResultFacts DEF IInv, DeliveryInv, Answered, Targeted, Receive, Goto
<1>8. ASSUME NEW r \in Requesters, CtxDone(r) PROVE Answered'
  BY <1>8 DEF IInv, DeliveryInv, Answered, slotVars, Targeted, CtxDone, Goto
<1>9. ASSUME NEW r \in Requesters, TimeoutFinish(r) PROVE Answered'
  BY <1>9, FinishOwn DEF IInv, DeliveryInv, Answered, TypeOK, slotVars, Threads,
     Targeted, TimeoutFinish, Mapped
<1>10. ASSUME NEW r \in Requesters, CancelFinish(r) PROVE Answered'
  BY <1>10, FinishOwn DEF IInv, DeliveryInv, Answered, TypeOK, slotVars, Threads,
     Targeted, CancelFinish, Mapped
<1>11. ASSUME NEW r \in Requesters, Remove(r) PROVE Answered'
  BY <1>11 DEF IInv, DeliveryInv, Answered, slotVars, Targeted, Remove, Goto
<1>12. ASSUME NEW r \in Requesters, CancelRemove(r) PROVE Answered'
  BY <1>12, ResultFacts DEF IInv, DeliveryInv, Answered, TypeOK, slotVars,
     Threads, Targeted, CancelRemove, Returned, Goto
<1>13. ASSUME NEW r \in Requesters, ReleaseDrain(r) PROVE Answered'
  BY <1>13, ResultFacts DEF IInv, DeliveryInv, Answered, Targeted, ReleaseDrain,
     Goto
<1>14. ASSUME NEW r \in Requesters, ReleasePut(r) PROVE Answered'
  BY <1>14, ResultFacts DEF IInv, DeliveryInv, Answered, TypeOK, Threads,
     Targeted, ReleasePut, Returned, Goto
<1>15. ASSUME NEW w \in Workers, OnResponse(w) PROVE Answered'
  <2>1. /\ \A t \in Threads \ {w} : pc'[t] = pc[t] /\ at'[t] = at[t]
        /\ pc[w] = "idle" /\ pc'[w] \in {"idle", "deliver"}
    BY <1>15 DEF OnResponse, Finish, Goto, IInv, TypeOK
  <2>2. w \notin Requesters /\ w # Closer
    BY ThreadAssumption
  <2>3. UNCHANGED <<closed, done, ch, txn, got, snap>>
    BY <1>15 DEF OnResponse, slotVars
  <2> QED
    BY <2>1, <2>2, <2>3 DEF IInv, DeliveryInv, Answered, SlotFree, Threads
<1>16. CASE CloseLock
  BY <1>16, CloseFrame DEF IInv, DeliveryInv, Answered, slotVars, Targeted
<1>17. CASE CloseNext
  BY <1>17, CloseFrame DEF IInv, DeliveryInv, Answered, slotVars, Targeted
<1>18. ASSUME NEW t \in Threads, TryDeliver(t) PROVE Answered'
  BY <1>18, ReturnEffect, DeliverFrame DEF IInv, DeliveryInv, Answered, TypeOK,
     Threads, Targeted, TryDeliver, Goto
<1>19. ASSUME NEW t \in Threads, DeliverSend(t) PROVE Answered'
  BY <1>19, ThreadAssumption, ResultFacts, ReturnEffect, DeliverFrame DEF IInv,
     DeliveryInv, Answered, TypeOK, Control, RequesterControl, Threads, Targeted,
     CloserControl, DeliverSend, Delivering
<1>20. CASE UNCHANGED vars
  BY <1>20 DEF IInv, DeliveryInv, Answered, slotVars, Targeted, vars
<1> QED
  BY <1>1, <1>2, <1>3, <1>4, <1>5, <1>6, <1>7, <1>8, <1>9, <1>10, <1>11, <1>12,
     <1>13, <1>14, <1>15, <1>16, <1>17, <1>18, <1>19, <1>20 DEF Next,
     RequesterStep, DeliverStep

\* Until raced, a waiter marked done has its result, or a goroutine about to send
\* it.
LEMMA SettledStep ==
    ASSUME IInv, ~raced, ~raced', [Next]_vars
    PROVE  Settled'
<1>1. ASSUME NEW r \in Requesters, CreateAcquire(r) PROVE Settled'
  <2>1. PICK i \in FreshId, s \in pool \cup fresh : CreateAcquire(r)!4!(i, s)
    BY <1>1 DEF CreateAcquire
  <2>2. /\ i \in Ids /\ i > nextID
        /\ s \in Slots
    BY DEF IInv, TypeOK, FreshId
  <2>3. /\ pc' = [pc EXCEPT ![r] = "acquire"]
        /\ pc[r] = "idle"
        /\ UNCHANGED <<closed, wait, ch, val, got, snap>>
    BY <1>1 DEF CreateAcquire, Goto
  <2>4. /\ \A t \in Threads : pc[t] \in Delivering => at[t] # s
        /\ \A q \in Requesters : pc[q] # "idle" => at[q] # s
    BY <2>1, <2>2 DEF BeingDelivered, IInv, Ownership, FreshUntouched, Threads
  <2>5. /\ \A t \in Threads \ {r} : at'[t] = at[t] /\ pc'[t] = pc[t]
        /\ \A q \in Requesters \ {r} : txn'[q] = txn[q]
        /\ at'[r] = s /\ txn'[r] = i /\ pc'[r] = "acquire"
        /\ done'[s] = FALSE
        /\ \A z \in Slots \ {s} : done'[z] = done[z]
    BY <2>1, <2>2, <2>3 DEF IInv, TypeOK, Threads
  <2> QED
    BY <2>2, <2>3, <2>4, <2>5, Locals DEF IInv, DeliveryInv, Settled, Threads,
       Mapped, SlotFree, Sending
<1>2. ASSUME NEW r \in Requesters, CreateInsert(r) PROVE Settled'
  BY <1>2 DEF IInv, DeliveryInv, Settled, SlotFree, Sending, CreateInsert, Goto
<1>3. ASSUME NEW r \in Requesters, Send(r) PROVE Settled'
  BY <1>3 DEF IInv, DeliveryInv, Settled, slotVars, Mapped, SlotFree, Sending,
     Send, Goto
<1>4. ASSUME NEW r \in Requesters, SendFails(r) PROVE Settled'
  BY <1>4 DEF IInv, DeliveryInv, Settled, slotVars, Mapped, SlotFree, Sending,
     SendFails, Goto
<1>5. ASSUME NEW r \in Requesters, WaitLookup(r) PROVE Settled'
  <2>1. UNCHANGED <<closed, wait, nextID, slotVars, val>> /\ pc[r] = "wait"
    BY <1>5 DEF WaitLookup
  <2>2. CASE closed /\ Returned(r)
    BY <2>1, <2>2 DEF IInv, DeliveryInv, Settled, TypeOK, slotVars, Threads,
       Mapped, SlotFree, Sending, Returned, Goto, Delivering
  <2>3. CASE ~closed /\ at' = at /\ pc' = [pc EXCEPT ![r] = "claim"] /\ txn' = txn
             /\ got' = got
    BY <2>1, <2>3 DEF IInv, DeliveryInv, Settled, slotVars, Mapped, SlotFree,
       Sending
  <2> QED
    BY <2>2, <2>3, <1>5, WaitLookupEffect
<1>6. ASSUME NEW r \in Requesters, ClaimWait(r) PROVE Settled'
  BY <1>6, ClaimWaitEffect DEF IInv, DeliveryInv, Settled, TypeOK, Threads,
     Mapped, Delivering, SlotFree, Sending, ClaimWait, Goto
<1>7. ASSUME NEW r \in Requesters, Receive(r) PROVE Settled'
  BY <1>7, Locals DEF IInv, DeliveryInv, Settled, TypeOK, Ownership, Threads,
     Mapped, SlotFree, Sending, Receive, Goto, Delivering
<1>8. ASSUME NEW r \in Requesters, CtxDone(r) PROVE Settled'
  BY <1>8 DEF IInv, DeliveryInv, Settled, slotVars, Mapped, SlotFree, Sending,
     CtxDone, Goto
<1>9. ASSUME NEW r \in Requesters, TimeoutFinish(r) PROVE Settled'
  BY <1>9, FinishOwn DEF IInv, DeliveryInv, Settled, TypeOK, slotVars, Threads,
     SlotFree, Sending, TimeoutFinish, Mapped
<1>10. ASSUME NEW r \in Requesters, CancelFinish(r) PROVE Settled'
  BY <1>10, FinishOwn DEF IInv, DeliveryInv, Settled, TypeOK, slotVars, Threads,
     SlotFree, Sending, CancelFinish, Mapped
<1>11. ASSUME NEW r \in Requesters, Remove(r) PROVE Settled'
  BY <1>11 DEF IInv, DeliveryInv, Settled, slotVars, Mapped, SlotFree, Sending,
     Remove, Goto, Delivering
<1>12. ASSUME NEW r \in Requesters, CancelRemove(r) PROVE Settled'
  BY <1>12 DEF IInv, DeliveryInv, Settled, TypeOK, slotVars, Mapped, SlotFree,
     Sending, CancelRemove, Returned, Goto, Delivering
<1>13. ASSUME NEW r \in Requesters, ReleaseDrain(r) PROVE Settled'
  BY <1>13 DEF IInv, DeliveryInv, Settled, Mapped, SlotFree, Sending,
     ReleaseDrain, Goto, Delivering
<1>14. ASSUME NEW r \in Requesters, ReleasePut(r) PROVE Settled'
  BY <1>14, ResultFacts DEF IInv, DeliveryInv, Settled, TypeOK, Ownership,
     Threads, Mapped, SlotFree, Sending, ReleasePut, Returned, Goto, Delivering
<1>15. ASSUME NEW w \in Workers, OnResponse(w) PROVE Settled'
  <2>1. /\ \A t \in Threads \ {w} : pc'[t] = pc[t] /\ at'[t] = at[t]
        /\ pc[w] = "idle" /\ pc'[w] \in {"idle", "deliver"}
    BY <1>15 DEF OnResponse, Finish, Goto, IInv, TypeOK
  <2>2. w \notin Requesters /\ w # Closer
    BY ThreadAssumption
  <2>3. UNCHANGED <<closed, done, ch, txn, got, snap>>
    BY <1>15 DEF OnResponse, slotVars
  <2> QED
    BY <2>1, <2>2, <2>3 DEF IInv, DeliveryInv, Settled, SlotFree, Threads
<1>16. CASE CloseLock
  BY <1>16, CloseFrame DEF IInv, DeliveryInv, Settled, slotVars, SlotFree,
     Sending, CloseLock, Goto
<1>17. CASE CloseNext
  BY <1>17, SlotAssumption, ThreadAssumption, CloseFrame DEF IInv, DeliveryInv,
     Settled, TypeOK, slotVars, Threads, SlotFree, Sending, CloseNext, Goto
<1>18. ASSUME NEW t \in Threads, TryDeliver(t) PROVE Settled'
  BY <1>18, Locals, SlotAssumption, ThreadAssumption, ReturnEffect, DeliverFrame
     DEF IInv, DeliveryInv, Settled, TypeOK, Threads, Mapped, SlotFree, Sending,
     TryDeliver, Goto, Delivering
<1>19. ASSUME NEW t \in Threads, DeliverSend(t) PROVE Settled'
  <2>1. /\ ch' = [ch EXCEPT ![at[t]] = val[t]]
        /\ pc[t] = "send" /\ done' = done /\ Return(t)
    BY <1>19 DEF DeliverSend
  <2>2. at[t] \in Slots /\ val[t] # NoResult
    BY <2>1, Locals, ResultFacts DEF IInv, Results, Delivering
  <2>3. \A u \in Threads : pc'[u] = "send" <=> u # t /\ pc[u] = "send"
    BY <2>1, ReturnEffect DEF IInv, TypeOK
  <2>4. \A u \in Threads : u # t => at'[u] = at[u]
    BY <2>1, ReturnEffect DEF IInv, TypeOK
  <2>5. ASSUME NEW r \in Requesters
        PROVE  /\ at'[r] = at[r]
               /\ pc'[r] \in {"remove", "drain", "put"} <=> pc[r] \in {"remove", "drain", "put"}
               /\ pc'[r] \in Mapped \ {"remove"} <=> pc[r] \in Mapped \ {"remove"}
    BY <1>19, DeliverFrame DEF Mapped, Delivering
  <2>6. ASSUME NEW r \in Requesters, pc[r] \in {"remove", "drain", "put"}
        PROVE  at[r] # at[t] /\ at[r] \in Slots
    BY <2>1, <2>6, Locals DEF IInv, DeliveryInv, Settled, SlotFree
  <2>7. ASSUME NEW s \in Slots
        PROVE  /\ s # at[t] => ch'[s] = ch[s] /\ (SlotFree(s)' <=> SlotFree(s))
               /\ s = at[t] => ch'[s] # NoResult
    BY <2>1, <2>2, <2>3, <2>4 DEF IInv, TypeOK, SlotFree
  <2>8. ASSUME NEW r \in Requesters, pc'[r] \in {"remove", "drain", "put"}
        PROVE  done'[at'[r]] /\ ch'[at'[r]] = NoResult /\ SlotFree(at[r])'
    BY <2>1, <2>5, <2>6, <2>7, <2>8 DEF IInv, DeliveryInv, Settled
  <2>9. ASSUME NEW r \in Requesters, pc'[r] \in Mapped \ {"remove"}, done'[at'[r]]
        PROVE  ch'[at'[r]] # NoResult \/ ~SlotFree(at[r])'
    <3>1. pc[r] \in Mapped \ {"remove"} /\ at'[r] = at[r] /\ at[r] \in Slots
      BY <2>5, <2>9, Locals DEF IInv, Mapped, Delivering
    <3>2. ch[at[r]] # NoResult \/ ~SlotFree(at[r])
      BY <3>1, <2>1, <2>9 DEF IInv, DeliveryInv, Settled
    <3> QED
      BY <3>1, <3>2, <2>7
  <2> QED
    BY <2>5, <2>8, <2>9 DEF Settled
<1>20. CASE UNCHANGED vars
  BY <1>20 DEF IInv, DeliveryInv, Settled, slotVars, SlotFree, Sending, vars
<1> QED
  BY <1>1, <1>2, <1>3, <1>4, <1>5, <1>6, <1>7, <1>8, <1>9, <1>10, <1>11, <1>12,
     <1>13, <1>14, <1>15, <1>16, <1>17, <1>18, <1>19, <1>20 DEF Next,
     RequesterStep, DeliverStep

\* Until raced, Close gets to every waiter it took out of the map.
LEMMA FedStep ==
    ASSUME IInv, ~raced, ~raced', [Next]_vars
    PROVE  Fed'
<1>1. ASSUME NEW r \in Requesters, CreateAcquire(r) PROVE Fed'
  <2>1. PICK i \in FreshId, s \in pool \cup fresh : CreateAcquire(r)!4!(i, s)
    BY <1>1 DEF CreateAcquire
  <2>2. /\ i \in Ids /\ i > nextID
        /\ s \in Slots
    BY DEF IInv, TypeOK, FreshId
  <2>3. /\ pc' = [pc EXCEPT ![r] = "acquire"]
        /\ pc[r] = "idle"
        /\ UNCHANGED <<closed, wait, ch, val, got, snap>>
    BY <1>1 DEF CreateAcquire, Goto
  <2>4. /\ \A t \in Threads : pc[t] \in Delivering => at[t] # s
        /\ \A q \in Requesters : pc[q] # "idle" => at[q] # s
    BY <2>1, <2>2 DEF BeingDelivered, IInv, Ownership, FreshUntouched, Threads
  <2>5. /\ \A t \in Threads \ {r} : at'[t] = at[t] /\ pc'[t] = pc[t]
        /\ \A q \in Requesters \ {r} : txn'[q] = txn[q]
        /\ at'[r] = s /\ txn'[r] = i /\ pc'[r] = "acquire"
        /\ done'[s] = FALSE
        /\ \A z \in Slots \ {s} : done'[z] = done[z]
    BY <2>1, <2>2, <2>3 DEF IInv, TypeOK, Threads
  <2> QED
    BY <2>2, <2>3, <2>4, <2>5, Locals DEF IInv, DeliveryInv, Fed, Threads,
       Mapped, Delivering
<1>2. ASSUME NEW r \in Requesters, CreateInsert(r) PROVE Fed'
  <2>1. /\ pc' = [pc EXCEPT ![r] = "created"] /\ pc[r] = "acquire"
        /\ UNCHANGED <<closed, at, done, snap>>
    BY <1>2 DEF CreateInsert, Goto
  <2>2. ~closed
    BY <2>1 DEF IInv, Locked, MuFree
  <2> QED
    BY <2>1, <2>2 DEF IInv, DeliveryInv, Fed
<1>3. ASSUME NEW r \in Requesters, Send(r) PROVE Fed'
  BY <1>3 DEF IInv, DeliveryInv, Fed, slotVars, Mapped, Send, Goto
<1>4. ASSUME NEW r \in Requesters, SendFails(r) PROVE Fed'
  BY <1>4 DEF IInv, DeliveryInv, Fed, slotVars, Mapped, SendFails, Goto
<1>5. ASSUME NEW r \in Requesters, WaitLookup(r) PROVE Fed'
  BY <1>5, WaitLookupEffect DEF IInv, DeliveryInv, Fed, TypeOK, slotVars, Threads,
     Mapped, WaitLookup, Returned, Goto, Delivering
<1>6. ASSUME NEW r \in Requesters, ClaimWait(r) PROVE Fed'
  BY <1>6, ClaimWaitEffect DEF IInv, DeliveryInv, Fed, TypeOK, Threads, Mapped,
     ClaimWait, Goto, Delivering
<1>7. ASSUME NEW r \in Requesters, Receive(r) PROVE Fed'
  BY <1>7 DEF IInv, DeliveryInv, Fed, Mapped, Receive, Goto
<1>8. ASSUME NEW r \in Requesters, CtxDone(r) PROVE Fed'
  BY <1>8 DEF IInv, DeliveryInv, Fed, slotVars, Mapped, CtxDone, Goto
<1>9. ASSUME NEW r \in Requesters, TimeoutFinish(r) PROVE Fed'
  BY <1>9, FinishOwn DEF IInv, DeliveryInv, Fed, TypeOK, slotVars, Threads,
     TimeoutFinish, Mapped
<1>10. ASSUME NEW r \in Requesters, CancelFinish(r) PROVE Fed'
  BY <1>10, FinishOwn DEF IInv, DeliveryInv, Fed, TypeOK, slotVars, Threads,
     CancelFinish, Mapped
<1>11. ASSUME NEW r \in Requesters, Remove(r) PROVE Fed'
  BY <1>11 DEF IInv, DeliveryInv, Fed, slotVars, Mapped, Remove, Goto
<1>12. ASSUME NEW r \in Requesters, CancelRemove(r) PROVE Fed'
  BY <1>12 DEF IInv, DeliveryInv, Fed, TypeOK, slotVars, Mapped, CancelRemove,
     Returned, Goto, Delivering
<1>13. ASSUME NEW r \in Requesters, ReleaseDrain(r) PROVE Fed'
  BY <1>13 DEF IInv, DeliveryInv, Fed, Mapped, ReleaseDrain, Goto, Delivering
<1>14. ASSUME NEW r \in Requesters, ReleasePut(r) PROVE Fed'
  BY <1>14 DEF IInv, DeliveryInv, Fed, Ownership, Mapped, ReleasePut, Returned,
     Goto, Delivering
<1>15. ASSUME NEW w \in Workers, OnResponse(w) PROVE Fed'
  <2>1. /\ \A t \in Threads \ {w} : pc'[t] = pc[t] /\ at'[t] = at[t]
        /\ pc[w] = "idle" /\ pc'[w] \in {"idle", "deliver"}
    BY <1>15 DEF OnResponse, Finish, Goto, IInv, TypeOK
  <2>2. w \notin Requesters /\ w # Closer
    BY ThreadAssumption
  <2>3. UNCHANGED <<closed, done, ch, txn, got, snap>>
    BY <1>15 DEF OnResponse, slotVars
  <2> QED
    BY <2>1, <2>2, <2>3 DEF IInv, DeliveryInv, Fed, SlotFree, Threads
<1>16. CASE CloseLock
  BY <1>16, Locals, SlotAssumption, CloseFrame DEF IInv, Fed, Control,
     RequesterControl, Threads, Mapped, MapInv, MapIsInFlight, CloserControl,
     CloseLock
<1>17. CASE CloseNext
  BY <1>17, CloseFrame DEF IInv, DeliveryInv, Fed, TypeOK, slotVars, Threads,
     CloseNext, Goto
<1>18. ASSUME NEW t \in Threads, TryDeliver(t) PROVE Fed'
  BY <1>18, Locals, ReturnEffect, DeliverFrame DEF IInv, DeliveryInv, Fed, TypeOK,
     Threads, Mapped, TryDeliver, Goto
<1>19. ASSUME NEW t \in Threads, DeliverSend(t) PROVE Fed'
  <2>1. pc[t] = "send" /\ done' = done /\ Return(t) /\ UNCHANGED <<closed, snap>>
    BY <1>19 DEF DeliverSend
  <2>2. \A r \in Requesters : /\ at'[r] = at[r]
                              /\ pc'[r] \in Mapped <=> pc[r] \in Mapped
    BY <1>19, DeliverFrame DEF Mapped, Delivering
  <2>3. \A r \in Requesters : pc'[r] \in {"recv", "forget"} =>
          pc[r] = pc'[r] \/ (r = t /\ done[at[r]])
    BY <2>1, ReturnEffect DEF IInv, TypeOK, DeliveryInv, Sending, Threads
  <2>4. pc[Closer] = "deliver" => pc'[Closer] = "deliver" /\ at'[Closer] = at[Closer]
    BY <2>1, ReturnEffect DEF IInv, TypeOK, Threads
  <2> QED
    BY <2>1, <2>2, <2>3, <2>4 DEF IInv, DeliveryInv, Fed
<1>20. CASE UNCHANGED vars
  BY <1>20 DEF IInv, DeliveryInv, Fed, slotVars, vars
<1> QED
  BY <1>1, <1>2, <1>3, <1>4, <1>5, <1>6, <1>7, <1>8, <1>9, <1>10, <1>11, <1>12,
     <1>13, <1>14, <1>15, <1>16, <1>17, <1>18, <1>19, <1>20 DEF Next,
     RequesterStep, DeliverStep

-----------------------------------------------------------------------------
(* The inductive invariant and what follows from it.                       *)

\* A new Manager satisfies the invariant.
LEMMA InitInv == Init => IInv
<1> SUFFICES ASSUME Init PROVE IInv
  OBVIOUS
<1>1. TypeOK
  <2>1. 0 \in 0..MaxId /\ 0 \in 0..MaxResp
    BY BoundAssumption
  <2>2. pc \in [Threads -> RequesterPC \cup CloserPC]
    BY LabelFacts DEF Init
  <2> QED
    BY <2>1, <2>2 DEF Init, TypeOK
<1>2. Control
  BY DEF Init, Control, RequesterControl, WorkerControl, CloserControl, Threads,
     RequesterPC, WorkerPC, CloserPC, Delivering
<1>3. Locked /\ FreshUntouched /\ Ownership /\ Unclaimed /\ Sole
  BY SlotAssumption DEF Init, Locked, MuFree, FreshUntouched, Ownership,
     Unclaimed, Sole, Threads
<1>4. MapInv
  BY DEF Init, MapInv, MapIsInFlight, Mapped, Threads, Delivering
<1>5. DeliveryInv
  BY ResultFacts DEF Init, DeliveryInv, Targeted, Sending, Answered, Settled, Fed,
     Mapped, Threads, Delivering
<1> QED
  BY <1>1, <1>2, <1>3, <1>4, <1>5 DEF IInv

\* A waiter once recycled under a delivery stays counted.
LEMMA RacedStays == ASSUME IInv, [Next]_vars PROVE raced => raced'
BY DEF Next, RequesterStep, DeliverStep, CreateAcquire, CreateInsert, Send,
   SendFails, WaitLookup, ClaimWait, Receive, CtxDone, TimeoutFinish, CancelFinish,
   Remove, CancelRemove, ReleaseDrain, ReleasePut, OnResponse, CloseLock, CloseNext,
   TryDeliver, DeliverSend, vars

\* The invariant is inductive.
LEMMA StepInv == IInv /\ [Next]_vars => IInv'
<1> SUFFICES ASSUME IInv, [Next]_vars PROVE IInv'
  OBVIOUS
<1>1. TypeOK'
  BY TypeStep
<1>2. Control'
  BY RequesterControlStep, WorkerControlStep, CloserControlStep DEF Control
<1>3. Locked' /\ FreshUntouched' /\ Ownership' /\ MapInv' /\ Unclaimed' /\ Sole'
  BY LockedStep, FreshStep, OwnershipStep, MapStep, UnclaimedStep, SoleStep
<1>4. ASSUME ~raced' PROVE DeliveryInv'
  <2>1. ~raced
    BY <1>4, RacedStays
  <2> QED
    BY <1>4, <2>1, TargetedStep, SendingStep, AnsweredStep, SettledStep, FedStep
       DEF DeliveryInv
<1> QED
  BY <1>1, <1>2, <1>3, <1>4 DEF IInv

\* The inductive invariant holds of Create, Wait, Complete, Fail, Cancel and Close
\* in every interleaving, whatever the number of goroutines and waiters.
THEOREM Invariance == Spec => []IInv
BY InitInv, StepInv, PTL DEF Spec

\* Every reachable state of the manager is well typed.
THEOREM TypeCorrect == Spec => []TypeOK
<1>1. IInv => TypeOK
  BY DEF IInv
<1> QED
  BY <1>1, Invariance, PTL

\* A waiter has one owner at a time, for any number of requests, workers and
\* waiters: releasePending and acquirePending never put one *pending into the
\* hands of two requests.
THEOREM ExclusiveOwnership == Spec => []SlotExclusive
<1>1. ASSUME IInv PROVE SlotExclusive
  <2>1. \A r \in Requesters, s \in Slots : Owns(r, s) => s \notin pool \cup fresh
    BY <1>1 DEF IInv, Ownership, FreshUntouched, Owns, Threads
  <2>2. \A q, r \in Requesters, s \in Slots : Owns(q, s) /\ Owns(r, s) => q = r
    BY <1>1 DEF IInv, Ownership, Owns
  <2>3. ASSUME NEW i \in Ids, wait[i] # NoSlot
        PROVE  /\ wait[i] \notin pool
               /\ \A j \in Ids : wait[i] = wait[j] => i = j
    <3>1. PICK q \in Requesters : pc[q] \in Mapped /\ txn[q] = i /\ at[q] = wait[i]
      BY <1>1, <2>3 DEF IInv, MapInv, MapIsInFlight
    <3>2. pc[q] # "idle"
      BY <3>1 DEF Mapped, Delivering
    <3>3. ASSUME NEW j \in Ids, wait[i] = wait[j] PROVE i = j
      <4>1. PICK r \in Requesters : pc[r] \in Mapped /\ txn[r] = j /\ at[r] = wait[j]
        BY <1>1, <2>3, <3>3 DEF IInv, MapInv, MapIsInFlight
      <4>2. pc[r] # "idle"
        BY <4>1 DEF Mapped, Delivering
      <4> QED
        BY <1>1, <3>1, <3>2, <3>3, <4>1, <4>2 DEF IInv, Ownership
    <3> QED
      BY <1>1, <3>1, <3>2, <3>3 DEF IInv, Ownership
  <2> QED
    BY <2>1, <2>2, <2>3 DEF SlotExclusive
<1> QED
  BY <1>1, Invariance, PTL

\* The map holds exactly the requests in flight, so nothing leaks when they end
\* by response, timeout, cancellation or Close.
THEOREM MapCorrect == Spec => []MapIsInFlight
<1>1. IInv => MapIsInFlight
  BY DEF IInv, MapInv
<1> QED
  BY <1>1, Invariance, PTL

\* Responses cross transactions only through a waiter recycled while a finish
\* was still delivering to it.
THEOREM Correlation == Spec => []CorrelatedUnlessRaced
<1>1. IInv => CorrelatedUnlessRaced
  BY DEF IInv, DeliveryInv, Answered, CorrelatedUnlessRaced, Correlated
<1> QED
  BY <1>1, Invariance, PTL

\* The uninterruptible receive of a timed-out Wait has a sender.
THEOREM TimedOutWaitFed == Spec => []TimedOutWaitIsFed
<1>1. ASSUME IInv PROVE TimedOutWaitIsFed
  <2>1. ASSUME NEW r \in Requesters, ~raced, pc[r] = "recv"
        PROVE  \/ ch[at[r]] # NoResult
               \/ ~SlotFree(at[r])
               \/ at[r] \in snap
               \/ pc[Closer] = "deliver" /\ at[Closer] = at[r]
    <3>1. pc[r] \in Mapped \ {"remove"}
      BY <2>1 DEF Mapped
    <3> QED
      BY <1>1, <2>1, <3>1 DEF IInv, DeliveryInv, Settled, Fed
  <2> QED
    BY <2>1 DEF TimedOutWaitIsFed
<1> QED
  BY <1>1, Invariance, PTL

\* tryDeliver does not block while it holds p.mu.
THEOREM DeliveryNeverBlocks == Spec => []DeliverNeverBlocks
<1>1. IInv => DeliverNeverBlocks
  BY DEF IInv, DeliveryInv, Sending, DeliverNeverBlocks
<1> QED
  BY <1>1, Invariance, PTL

-----------------------------------------------------------------------------
(* TxManager implements TxTable.  The variables of the table, as           *)
(* TxRefinement maps them.                                                 *)

tUsed == (1..nextID) \ {txn[r] : r \in {q \in Requesters : pc[q] = "acquire"}}
tOpen == {txn[r] : r \in InFlight}
tSettled == UNION {{<<txn[r], x>> : x \in Given(r)} : r \in InFlight}

\* Steps of the table, in these terms.
LEMMA TableSteps ==
    /\ UNCHANGED <<closed, tUsed, tOpen, tSettled>> => [Table!Next]_(Table!vars)
    /\ \A i \in Ids :
         ~closed /\ i \notin tUsed /\ tUsed' = tUsed \cup {i} /\ tOpen' = tOpen \cup {i}
           /\ UNCHANGED <<closed, tSettled>>
         => [Table!Next]_(Table!vars)
    /\ \A i \in Ids :
         i \in tOpen /\ ((\E p \in tSettled : p[1] = i) \/ closed) /\ tOpen' = tOpen \ {i}
           /\ tSettled' = {p \in tSettled : p[1] # i} /\ UNCHANGED <<closed, tUsed>>
         => [Table!Next]_(Table!vars)
    /\ \A i \in Ids :
         \A x \in {Answer(i), Failure("closed"), Failure("ctx"), Failure("canceled")} :
           i \in tOpen /\ ~(\E p \in tSettled : p[1] = i) /\ (x = Failure("closed") => closed)
             /\ tSettled' = tSettled \cup {<<i, x>>} /\ UNCHANGED <<closed, tUsed, tOpen>>
           => [Table!Next]_(Table!vars)
    /\ ~closed /\ closed' = TRUE /\ UNCHANGED <<tUsed, tOpen, tSettled>>
         => [Table!Next]_(Table!vars)
BY DEF Table!Next, Table!vars, Table!Create, Table!End, Table!Settle, Table!Close,
   Table!HasResult, tUsed, tOpen, tSettled

\* What is in the hands of a request, and in the table.
LEMMA GivenIs ==
    /\ \A r \in Requesters : \A x :
         x \in Given(r) <=>
           /\ x # NoResult
           /\ \/ x = got[r] \/ x = ch[at[r]]
              \/ \E t \in Threads : pc[t] = "send" /\ at[t] = at[r] /\ x = val[t]
    /\ \A p : p \in tSettled <=> \E r \in InFlight : \E x \in Given(r) : p = <<txn[r], x>>
BY DEF Given, tSettled

\* A step that moves no request in or out of flight, and no result.
LEMMA QuietStep ==
    ASSUME nextID' = nextID, got' = got, ch' = ch, txn' = txn,
           \A t \in Threads : pc'[t] = "send" <=> pc[t] = "send",
           \A t \in Threads : pc[t] = "send" => at'[t] = at[t] /\ val'[t] = val[t],
           \A r \in Requesters : pc'[r] \in {"idle", "acquire"} \/ pc[r] \in {"idle", "acquire"}
                                   => pc'[r] = pc[r],
           \A r \in Requesters : at'[r] = at[r]
    PROVE  UNCHANGED <<tUsed, tOpen, tSettled>>
<1>1. tUsed' = tUsed
  BY DEF tUsed
<1>2. InFlight' = InFlight /\ InFlight \subseteq Requesters
  BY DEF InFlight
<1>3. tOpen' = tOpen
  BY <1>2 DEF tOpen
<1>4. \A r \in Requesters : Given(r)' = Given(r)
  BY DEF Given
<1>5. tSettled' = tSettled
  BY <1>2, <1>4 DEF tSettled
<1> QED
  BY <1>1, <1>3, <1>5

\* Create has allocated its id, and holds m.mu: not in the table yet.
LEMMA AcquireStep ==
    ASSUME IInv, NEW r \in Requesters, CreateAcquire(r)
    PROVE  UNCHANGED <<closed, tUsed, tOpen, tSettled>>
<1>1. PICK i \in FreshId, s \in pool \cup fresh : CreateAcquire(r)!4!(i, s)
  BY DEF CreateAcquire
<1>2. /\ pc' = [pc EXCEPT ![r] = "acquire"] /\ pc[r] = "idle" /\ MuFree /\ ~closed
      /\ UNCHANGED <<closed, wait, ch, val, got, snap>>
  BY DEF CreateAcquire, Goto
<1>3. /\ \A t \in Threads \ {r} : at'[t] = at[t] /\ pc'[t] = pc[t]
      /\ \A q \in Requesters \ {r} : txn'[q] = txn[q]
      /\ at'[r] = s /\ txn'[r] = i /\ pc'[r] = "acquire" /\ nextID' = i
  BY <1>1, <1>2 DEF IInv, TypeOK, Threads
<1>4. i = nextID + 1 /\ nextID \in Nat
  <2>1. nextID \in Nat /\ i \in Ids /\ i > nextID /\ MaxId \in Nat
        /\ \A j \in (nextID + 1)..(i - 1) : wait[j] # NoSlot
    BY BoundAssumption DEF IInv, TypeOK, FreshId
  <2>2. \A j \in Ids : wait[j] # NoSlot => j <= nextID
    BY DEF IInv, MapInv, MapIsInFlight, Control, RequesterControl, Mapped, Delivering
  <2>3. CASE i > nextID + 1
    <3>1. nextID + 1 \in (nextID + 1)..(i - 1) /\ nextID + 1 \in Ids
      BY <2>1, <2>3 DEF Ids
    <3> QED
      BY <2>1, <2>2, <3>1
  <2> QED
    BY <2>1, <2>3 DEF Ids
<1>5. tUsed' = tUsed
  <2>1. {txn[q] : q \in {p \in Requesters : pc[p] = "acquire"}} = {}
    BY <1>2 DEF MuFree
  <2>2. {txn'[q] : q \in {p \in Requesters : pc'[p] = "acquire"}} = {nextID + 1}
    BY <1>2, <1>3, <1>4 DEF MuFree, Threads
  <2>3. (1..(nextID + 1)) \ {nextID + 1} = 1..nextID
    BY <1>4
  <2> QED
    BY <1>3, <1>4, <2>1, <2>2, <2>3 DEF tUsed
<1>6. InFlight' = InFlight /\ InFlight \subseteq Requesters \ {r}
  BY <1>2, <1>3 DEF InFlight, Threads
<1>7. tOpen' = tOpen
  BY <1>3, <1>6 DEF tOpen
<1>8. \A q \in Requesters \ {r} : Given(q)' = Given(q)
  BY <1>2, <1>3 DEF Given, Threads
<1>9. tSettled' = tSettled
  BY <1>3, <1>6, <1>8 DEF tSettled
<1> QED
  BY <1>2, <1>5, <1>7, <1>9

\* Create inserts its waiter: the transaction opens, and nothing has come for it.
LEMMA InsertStep ==
    ASSUME IInv, ~raced, NEW r \in Requesters, CreateInsert(r)
    PROVE  [Table!Next]_(Table!vars)
<1>1. /\ pc' = [pc EXCEPT ![r] = "created"] /\ pc[r] = "acquire"
      /\ ch' = [ch EXCEPT ![at[r]] = NoResult]
      /\ UNCHANGED <<closed, nextID, at, txn, val, got>>
  BY DEF CreateInsert, Goto
<1>2. at[r] \in Slots /\ txn[r] \in Ids /\ txn[r] \in 1..nextID /\ got[r] = NoResult
  BY <1>1, Locals DEF IInv, Control, RequesterControl
<1>3. ~closed /\ \A q \in Requesters \ {r} : pc[q] # "acquire"
  BY <1>1 DEF IInv, Locked, MuFree
<1>4. /\ pc'[r] = "created" /\ \A t \in Threads \ {r} : pc'[t] = pc[t]
      /\ ch'[at[r]] = NoResult /\ \A z \in Slots \ {at[r]} : ch'[z] = ch[z]
  BY <1>1, <1>2 DEF IInv, TypeOK, Threads
<1>5. tUsed = (1..nextID) \ {txn[r]} /\ tUsed' = 1..nextID
  <2>1. {txn[q] : q \in {p \in Requesters : pc[p] = "acquire"}} = {txn[r]}
    BY <1>1, <1>3
  <2>2. {txn'[q] : q \in {p \in Requesters : pc'[p] = "acquire"}} = {}
    BY <1>3, <1>4 DEF Threads
  <2> QED
    BY <1>1, <2>1, <2>2 DEF tUsed
<1>6. InFlight' = InFlight \cup {r} /\ InFlight \subseteq Requesters \ {r}
  BY <1>1, <1>4 DEF InFlight, Threads
<1>7. tOpen' = tOpen \cup {txn[r]}
  BY <1>1, <1>6 DEF tOpen
<1>8. \A q \in InFlight : Given(q)' = Given(q)
  <2>1. \A q \in InFlight : at[q] \in Slots \ {at[r]}
    BY <1>1, <1>6, Locals DEF IInv, Ownership, InFlight
  <2> QED
    BY <1>1, <1>4, <1>6, <2>1 DEF Given, Threads
<1>9. Given(r)' = {}
  <2>1. \A t \in Threads : pc[t] = "send" => at[t] # at[r]
    <3>1. \A w \in Workers : pc[w] = "send" => at[w] # at[r]
      BY <1>1 DEF IInv, DeliveryInv, Targeted, Delivering
    <3>2. \A q \in Requesters : pc[q] = "send" => at[q] # at[r]
      BY <1>1 DEF IInv, Ownership
    <3>3. pc[Closer] # "send"
      BY <1>3 DEF IInv, Control, CloserControl
    <3> QED
      BY <3>1, <3>2, <3>3 DEF Threads
  <2>2. \A x : x \notin Given(r)'
    BY <1>1, <1>2, <1>4, <2>1 DEF Given, Threads
  <2> QED
    BY <2>2
<1>10. tSettled' = tSettled
  BY <1>1, <1>6, <1>8, <1>9 DEF tSettled
<1> QED
  BY <1>1, <1>2, <1>3, <1>5, <1>7, <1>10, TableSteps

\* A request returns: its transaction ends, with its result unless closed.
LEMMA EndStep ==
    ASSUME IInv, NEW r \in InFlight, pc[r] # "send", Returned(r),
           UNCHANGED <<closed, nextID, ch, val>>,
           Given(r) # {} \/ closed
    PROVE  [Table!Next]_(Table!vars)
<1>1. r \in Requesters /\ pc[r] \notin {"idle", "acquire", "send"}
  BY DEF InFlight
<1>2. at[r] \in Slots /\ txn[r] \in Ids
  BY <1>1, Locals DEF IInv
<1>3. /\ pc'[r] = "idle" /\ \A t \in Threads \ {r} : pc'[t] = pc[t] /\ at'[t] = at[t]
      /\ \A q \in Requesters \ {r} : txn'[q] = txn[q] /\ got'[q] = got[q]
  BY <1>1 DEF Returned, Goto, IInv, TypeOK, Threads
<1>4. tUsed' = tUsed
  BY <1>1, <1>3 DEF tUsed, Threads
<1>5. InFlight' = InFlight \ {r} /\ InFlight \subseteq Requesters
  BY <1>1, <1>3 DEF InFlight, Threads
<1>6. \A q \in InFlight \ {r} : txn[q] # txn[r] /\ txn'[q] = txn[q] /\ at'[q] = at[q]
  BY <1>1, <1>3, <1>5 DEF IInv, Ownership, InFlight, Threads
<1>7. tOpen' = tOpen \ {txn[r]} /\ txn[r] \in tOpen
  BY <1>5, <1>6 DEF tOpen
<1>8. \A q \in InFlight \ {r} : Given(q)' = Given(q)
  BY <1>1, <1>3, <1>5, <1>6 DEF Given, Threads
<1>9. tSettled' = {p \in tSettled : p[1] # txn[r]}
  <2>1. \A p : p \in tSettled' <=>
          \E q \in InFlight \ {r} : \E x \in Given(q) : p = <<txn[q], x>>
    BY <1>5, <1>6, <1>8 DEF tSettled
  <2> QED
    BY <1>6, <2>1, GivenIs
<1>10. ASSUME Given(r) # {} PROVE \E p \in tSettled : p[1] = txn[r]
  <2>1. PICK x \in Given(r) : TRUE
    BY <1>10
  <2>2. <<txn[r], x>> \in tSettled /\ <<txn[r], x>>[1] = txn[r]
    BY GivenIs
  <2> QED
    BY <2>2
<1> QED
  BY <1>2, <1>4, <1>7, <1>9, <1>10, TableSteps

\* Wait receives its result, which was in the channel.
LEMMA ReceiveStep ==
    ASSUME IInv, NEW r \in Requesters, Receive(r)
    PROVE  UNCHANGED <<closed, tUsed, tOpen, tSettled>>
<1>1. /\ pc[r] \in {"select", "recv"} /\ pc' = [pc EXCEPT ![r] = "remove"]
      /\ got' = [got EXCEPT ![r] = ch[at[r]]] /\ ch' = [ch EXCEPT ![at[r]] = NoResult]
      /\ UNCHANGED <<closed, nextID, at, txn, val>>
  BY DEF Receive, Goto
<1>2. at[r] \in Slots /\ got[r] = NoResult
  BY <1>1, Locals DEF IInv, Control, RequesterControl
<1>3. /\ pc'[r] = "remove" /\ \A t \in Threads \ {r} : pc'[t] = pc[t]
      /\ got'[r] = ch[at[r]] /\ \A q \in Requesters \ {r} : got'[q] = got[q]
      /\ ch'[at[r]] = NoResult /\ \A z \in Slots \ {at[r]} : ch'[z] = ch[z]
  BY <1>1, <1>2 DEF IInv, TypeOK, Threads
<1>4. tUsed' = tUsed
  BY <1>1, <1>3 DEF tUsed, Threads
<1>5. InFlight' = InFlight /\ InFlight \subseteq Requesters
  BY <1>1, <1>3 DEF InFlight, Threads
<1>6. tOpen' = tOpen
  BY <1>1, <1>5 DEF tOpen
<1>7. \A t \in Threads : pc'[t] = "send" <=> pc[t] = "send"
  BY <1>1, <1>3
<1>8. ASSUME NEW q \in InFlight PROVE Given(q)' = Given(q)
  <2>1. CASE q = r
    BY <1>1, <1>2, <1>3, <1>7, <2>1 DEF Given
  <2>2. CASE q # r
    <3>1. at[q] \in Slots \ {at[r]}
      BY <1>1, <1>5, <2>2, Locals DEF IInv, Ownership, InFlight
    <3> QED
      BY <1>1, <1>3, <1>5, <1>7, <2>2, <3>1 DEF Given
  <2> QED
    BY <2>1, <2>2
<1>9. tSettled' = tSettled
  BY <1>1, <1>5, <1>8 DEF tSettled
<1> QED
  BY <1>1, <1>4, <1>6, <1>9

\* tryDeliver's send: the result goes from its goroutine into the channel.
LEMMA SendStep ==
    ASSUME IInv, NEW t \in Threads, DeliverSend(t)
    PROVE  UNCHANGED <<closed, tUsed, tOpen, tSettled>>
<1>1. /\ pc[t] = "send" /\ ch[at[t]] = NoResult /\ ch' = [ch EXCEPT ![at[t]] = val[t]]
      /\ Return(t) /\ UNCHANGED <<closed, nextID, txn, got>>
  BY DEF DeliverSend
<1>2. at[t] \in Slots /\ val[t] \in Results
  BY <1>1, Locals DEF IInv, Delivering
<1>3. /\ pc'[t] \notin {"send", "acquire"}
      /\ \A u \in Threads \ {t} : pc'[u] = pc[u] /\ at'[u] = at[u] /\ val'[u] = val[u]
      /\ \A r \in Requesters : at'[r] = at[r]
      /\ t \in Requesters => pc'[t] \notin {"idle", "acquire"}
      /\ ch'[at[t]] = val[t] /\ \A z \in Slots \ {at[t]} : ch'[z] = ch[z]
  BY <1>1, <1>2, ReturnEffect, ThreadAssumption DEF IInv, TypeOK, Threads
<1>4. tUsed' = tUsed
  BY <1>1, <1>3 DEF tUsed, Threads
<1>5. InFlight' = InFlight /\ InFlight \subseteq Requesters
  BY <1>1, <1>3 DEF InFlight, Threads
<1>6. tOpen' = tOpen
  BY <1>1, <1>5 DEF tOpen
<1>7. ASSUME NEW q \in InFlight PROVE Given(q)' = Given(q)
  <2>1. q \in Requesters /\ at[q] \in Slots /\ at'[q] = at[q] /\ got'[q] = got[q]
    BY <1>1, <1>3, <1>5, Locals DEF IInv, InFlight
  <2>2. CASE at[q] = at[t]
    <3>1. \A u \in Threads : pc[u] = "send" /\ at[u] = at[q] <=> u = t
      BY <1>1, <2>2 DEF IInv, Sole
    <3>2. \A u \in Threads : ~(pc'[u] = "send" /\ at'[u] = at[q])
      BY <1>3, <3>1
    <3>3. \A x : x \in Given(q) <=> x # NoResult /\ (x = got[q] \/ x = val[t])
      BY <1>1, <2>1, <2>2, <3>1, GivenIs
    <3>4. \A x : x \in Given(q)' <=> x # NoResult /\ (x = got[q] \/ x = val[t])
      BY <1>3, <2>1, <2>2, <3>2 DEF Given
    <3> QED
      BY <3>3, <3>4
  <2>3. CASE at[q] # at[t]
    <3>1. \A u \in Threads : pc'[u] = "send" /\ at'[u] = at[q] <=> pc[u] = "send" /\ at[u] = at[q]
      BY <1>1, <1>3, <2>3
    <3>2. \A u \in Threads : pc[u] = "send" /\ at[u] = at[q] => val'[u] = val[u]
      BY <1>3, <2>3
    <3> QED
      BY <1>3, <2>1, <2>3, <3>1, <3>2 DEF Given
  <2> QED
    BY <2>2, <2>3
<1>8. tSettled' = tSettled
  BY <1>1, <1>5, <1>7 DEF tSettled
<1> QED
  BY <1>1, <1>4, <1>6, <1>8

\* tryDeliver sets done: the transaction has its result, its first, and one
\* meant for it; without a request that owns the waiter nothing is settled.
LEMMA TryDeliverStep ==
    ASSUME IInv, ~raced, NEW t \in Threads, pc[t] = "deliver", ~done[at[t]],
           pc' = [pc EXCEPT ![t] = "send"],
           UNCHANGED <<closed, nextID, ch, at, txn, val, got>>
    PROVE  [Table!Next]_(Table!vars)
<1>1. at[t] \in Slots /\ val[t] # NoResult
  BY Locals, ResultFacts DEF IInv, Delivering, Control, RequesterControl, WorkerControl,
     CloserControl, Threads
<1>2. pc'[t] = "send" /\ \A u \in Threads \ {t} : pc'[u] = pc[u]
  BY DEF IInv, TypeOK
<1>3. tUsed' = tUsed
  BY <1>2 DEF tUsed, Threads
<1>4. InFlight' = InFlight /\ InFlight \subseteq Requesters
  BY <1>2 DEF InFlight, Threads
<1>5. tOpen' = tOpen
  BY <1>4 DEF tOpen
<1>6. \A q \in InFlight : at[q] # at[t] => Given(q)' = Given(q)
  <2>1. \A q \in InFlight : at[q] # at[t] => \A u \in Threads :
          (pc'[u] = "send" /\ at[u] = at[q] <=> pc[u] = "send" /\ at[u] = at[q])
    BY <1>2
  <2> QED
    BY <1>4, <2>1 DEF Given
<1>7. CASE \A q \in InFlight : at[q] # at[t]
  <2>1. tSettled' = tSettled
    BY <1>4, <1>6, <1>7 DEF tSettled
  <2> QED
    BY <1>3, <1>5, <2>1, TableSteps
<1>8. ASSUME NEW q \in InFlight, at[q] = at[t] PROVE [Table!Next]_(Table!vars)
  <2>1. q \in Requesters /\ pc[q] \notin {"idle", "acquire"} /\ txn[q] \in Ids
    BY <1>4, Locals DEF IInv, InFlight
  <2>2. \A u \in Threads : pc[u] = "send" => at[u] # at[q]
    BY <1>8 DEF IInv, DeliveryInv, Sending
  <2>3. ch[at[q]] = NoResult
    <3>1. \A r \in Requesters : pc[r] = "acquire" => at[r] # at[q]
      BY <2>1 DEF IInv, Ownership
    <3> QED
      BY <1>1, <1>8, <3>1 DEF IInv, DeliveryInv, Sending
  <2>4. got[q] = NoResult
    BY <1>8, <2>1 DEF IInv, DeliveryInv, Settled, Control, RequesterControl
  <2>5. Given(q) = {}
    BY <2>1, <2>2, <2>3, <2>4, GivenIs
  <2>6. Given(q)' = {val[t]}
    <3>1. \A u \in Threads : pc'[u] = "send" /\ at[u] = at[q] <=> u = t
      BY <1>2, <1>8, <2>2
    <3>2. \A x : x \in Given(q)' <=> x = val[t]
      BY <1>1, <2>3, <2>4, <3>1 DEF Given
    <3> QED
      BY <3>2
  <2>7. \A r \in InFlight \ {q} : txn[r] # txn[q] /\ Given(r)' = Given(r)
    <3>1. \A r \in InFlight \ {q} : txn[r] # txn[q] /\ at[r] # at[q]
      BY <1>4, <2>1 DEF IInv, Ownership, InFlight
    <3> QED
      BY <1>6, <1>8, <3>1
  <2>8. tSettled' = tSettled \cup {<<txn[q], val[t]>>}
    <3>1. \A p : p \in tSettled <=>
            \E r \in InFlight \ {q} : \E x \in Given(r) : p = <<txn[r], x>>
      BY <2>5, GivenIs
    <3>2. \A p : p \in tSettled' <=> \E r \in InFlight : \E x \in Given(r)' : p = <<txn[r], x>>
      BY <1>4 DEF tSettled
    <3> QED
      BY <2>6, <2>7, <3>1, <3>2
  <2>9. ~(\E p \in tSettled : p[1] = txn[q]) /\ txn[q] \in tOpen
    BY <2>5, <2>7, GivenIs DEF tOpen
  <2>10. /\ val[t] \in {Answer(txn[q]), Failure("closed"), Failure("ctx"), Failure("canceled")}
         /\ val[t] = Failure("closed") => closed
    <3>1. CASE t \in Workers
      <4>1. val[t] \in Responses /\ val[t].id = txn[q]
        BY <1>8, <2>1, <3>1 DEF IInv, DeliveryInv, Targeted, Control, WorkerControl,
           Delivering
      <4>2. val[t] = Answer(txn[q])
        BY <4>1 DEF Responses, Answer
      <4>3. val[t] # Failure("closed")
        BY <4>1, ResultFacts
      <4> QED
        BY <4>2, <4>3
    <3>2. CASE t \in Requesters
      <4>1. val[t] \in Failures /\ val[t].kind # "closed"
        BY <3>2 DEF IInv, Control, RequesterControl, Delivering
      <4>2. val[t] = Failure("ctx") \/ val[t] = Failure("canceled")
        BY <4>1 DEF Failures, Failure
      <4>3. val[t] # Failure("closed")
        BY <4>1 DEF Failure
      <4> QED
        BY <4>2, <4>3
    <3>3. CASE t = Closer
      <4>1. val[t] \in Failures /\ closed
        BY <3>3 DEF IInv, Control, CloserControl, Delivering
      <4> QED
        BY <4>1 DEF Failures, Failure
    <3> QED
      BY <3>1, <3>2, <3>3 DEF Threads
  <2> QED
    BY <1>3, <1>5, <2>1, <2>8, <2>9, <2>10, TableSteps
<1> QED
  BY <1>7, <1>8

\* Until a waiter is recycled under a delivery every step is one of the table.
LEMMA TableStep ==
    ASSUME IInv, [Next]_vars, ~raced'
    PROVE  [Table!Next]_(Table!vars)
<1>0. ~raced /\ DeliveryInv
  BY RacedStays DEF IInv
<1>t. /\ pc \in [Threads -> RequesterPC \cup CloserPC]
      /\ at \in [Threads -> Slots \cup {NoSlot}] /\ Requesters \subseteq Threads
  BY DEF IInv, TypeOK, Threads
<1>1. ASSUME NEW r \in Requesters, CreateAcquire(r) PROVE [Table!Next]_(Table!vars)
  BY <1>1, AcquireStep, TableSteps
<1>2. ASSUME NEW r \in Requesters, CreateInsert(r) PROVE [Table!Next]_(Table!vars)
  BY <1>0, <1>2, InsertStep
<1>3. ASSUME NEW r \in Requesters, Send(r) \/ SendFails(r) \/ CtxDone(r) \/ Remove(r)
      PROVE  [Table!Next]_(Table!vars)
  <2>1. UNCHANGED <<tUsed, tOpen, tSettled>> /\ closed' = closed
    BY <1>t, <1>3, QuietStep DEF Send, SendFails, CtxDone, Remove, Goto, slotVars
  <2> QED
    BY <2>1, TableSteps
<1>4. ASSUME NEW r \in Requesters, WaitLookup(r) PROVE [Table!Next]_(Table!vars)
  <2>1. UNCHANGED <<closed, nextID, ch, val>> /\ pc[r] = "wait"
    BY <1>4 DEF WaitLookup, slotVars
  <2>2. CASE closed /\ Returned(r)
    <3>1. r \in InFlight
      BY <2>1 DEF InFlight
    <3> QED
      BY <2>1, <2>2, <3>1, EndStep
  <2>3. CASE ~closed /\ at' = at /\ pc' = [pc EXCEPT ![r] = "claim"] /\ txn' = txn
             /\ got' = got
    <3>1. UNCHANGED <<tUsed, tOpen, tSettled>>
      BY <1>t, <2>1, <2>3, QuietStep
    <3> QED
      BY <2>1, <3>1, TableSteps
  <2> QED
    BY <1>4, <2>2, <2>3, WaitLookupEffect
<1>5. ASSUME NEW r \in Requesters, ClaimWait(r) PROVE [Table!Next]_(Table!vars)
  <2>1. /\ UNCHANGED <<closed, nextID, ch, val, at, txn, got>> /\ pc[r] = "claim"
        /\ pc' = [pc EXCEPT ![r] = "select"]
    BY <1>5, ClaimWaitEffect DEF ClaimWait
  <2>2. UNCHANGED <<tUsed, tOpen, tSettled>>
    BY <1>t, <2>1, QuietStep
  <2> QED
    BY <2>1, <2>2, TableSteps
<1>6. ASSUME NEW r \in Requesters, Receive(r) PROVE [Table!Next]_(Table!vars)
  BY <1>6, ReceiveStep, TableSteps
<1>7. ASSUME NEW r \in Requesters, TimeoutFinish(r) \/ CancelFinish(r)
      PROVE  [Table!Next]_(Table!vars)
  <2>1. /\ UNCHANGED <<closed, nextID, ch, txn, got, at>> /\ pc[r] \in {"timeout", "cancel"}
        /\ \E l \in {"recv", "forget", "deliver"} : pc' = [pc EXCEPT ![r] = l]
        /\ \A t \in Threads \ {r} : val'[t] = val[t]
    <3>1. CASE TimeoutFinish(r)
      BY <3>1, FinishOwn DEF TimeoutFinish, slotVars, Mapped, IInv, TypeOK
    <3>2. CASE CancelFinish(r)
      BY <3>2, FinishOwn DEF CancelFinish, slotVars, Mapped, IInv, TypeOK
    <3> QED
      BY <1>7, <3>1, <3>2
  <2>2. UNCHANGED <<tUsed, tOpen, tSettled>>
    BY <1>t, <2>1, QuietStep
  <2> QED
    BY <2>1, <2>2, TableSteps
<1>8. ASSUME NEW r \in Requesters, CancelRemove(r) PROVE [Table!Next]_(Table!vars)
  <2>1. UNCHANGED <<closed, nextID, ch, val>> /\ pc[r] = "forget" /\ Returned(r)
    BY <1>8 DEF CancelRemove, slotVars
  <2>2. r \in InFlight
    BY <2>1 DEF InFlight
  <2>3. Given(r) # {} \/ closed
    <3>1. CASE ~closed
      <4>1. ch[at[r]] # NoResult \/ ~SlotFree(at[r])
        BY <1>0, <2>1, <3>1 DEF DeliveryInv, Fed, Settled, Mapped
      <4>2. \A t \in Threads : pc[t] = "send" => val[t] # NoResult
        BY Locals, ResultFacts DEF IInv, Results
      <4> QED
        BY <4>1, <4>2, GivenIs DEF SlotFree
    <3> QED
      BY <3>1
  <2> QED
    BY <2>1, <2>2, <2>3, EndStep
<1>9. ASSUME NEW r \in Requesters, ReleaseDrain(r) PROVE [Table!Next]_(Table!vars)
  <2>1. /\ UNCHANGED <<closed, nextID, val, at, txn, got>> /\ pc[r] = "drain"
        /\ pc' = [pc EXCEPT ![r] = "put"] /\ ch' = [ch EXCEPT ![at[r]] = NoResult]
    BY <1>9 DEF ReleaseDrain, Goto
  <2>2. ch' = ch
    BY <1>0, <2>1 DEF DeliveryInv, Settled, IInv, TypeOK
  <2>3. UNCHANGED <<tUsed, tOpen, tSettled>>
    BY <1>t, <2>1, <2>2, QuietStep
  <2> QED
    BY <2>1, <2>3, TableSteps
<1>10. ASSUME NEW r \in Requesters, ReleasePut(r) PROVE [Table!Next]_(Table!vars)
  <2>1. UNCHANGED <<closed, nextID, ch, val>> /\ pc[r] = "put" /\ Returned(r)
    BY <1>10 DEF ReleasePut
  <2>2. r \in InFlight
    BY <2>1 DEF InFlight
  <2>3. got[r] # NoResult
    BY <2>1 DEF IInv, Control, RequesterControl
  <2>4. Given(r) # {}
    BY <2>3, GivenIs
  <2> QED
    BY <2>1, <2>2, <2>4, EndStep
<1>11. ASSUME NEW w \in Workers, OnResponse(w) PROVE [Table!Next]_(Table!vars)
  <2>1. /\ UNCHANGED <<closed, nextID, ch, txn, got>> /\ pc[w] = "idle"
        /\ pc'[w] \in {"idle", "deliver"}
        /\ \A t \in Threads \ {w} : pc'[t] = pc[t] /\ at'[t] = at[t] /\ val'[t] = val[t]
    BY <1>11 DEF OnResponse, Finish, Goto, slotVars, IInv, TypeOK
  <2>2. w \notin Requesters
    BY ThreadAssumption
  <2>3. UNCHANGED <<tUsed, tOpen, tSettled>>
    BY <1>t, <2>1, <2>2, QuietStep
  <2> QED
    BY <2>1, <2>3, TableSteps
<1>12. CASE CloseLock
  <2>1. /\ UNCHANGED <<nextID, ch, txn, got, at, val>> /\ pc[Closer] = "idle"
        /\ pc' = [pc EXCEPT ![Closer] = "next"] /\ closed' = TRUE
    BY <1>12 DEF CloseLock, Goto, slotVars
  <2>2. Closer \notin Requesters /\ ~closed
    BY <2>1, ThreadAssumption DEF IInv, Control, CloserControl
  <2>3. UNCHANGED <<tUsed, tOpen, tSettled>>
    BY <1>t, <2>1, <2>2, QuietStep
  <2> QED
    BY <2>1, <2>2, <2>3, TableSteps
<1>13. CASE CloseNext
  <2>1. /\ UNCHANGED <<closed, nextID, ch, txn, got>> /\ pc[Closer] = "next"
        /\ pc'[Closer] \in {"deliver", "closed"} /\ Closer \in Threads
        /\ \A t \in Threads \ {Closer} : pc'[t] = pc[t] /\ at'[t] = at[t] /\ val'[t] = val[t]
    BY <1>13 DEF CloseNext, Goto, slotVars, IInv, TypeOK, Threads
  <2>2. Closer \notin Requesters
    BY ThreadAssumption
  <2>3. UNCHANGED <<tUsed, tOpen, tSettled>>
    BY <1>t, <2>1, <2>2, QuietStep
  <2> QED
    BY <2>1, <2>3, TableSteps
<1>14. ASSUME NEW t \in Threads, TryDeliver(t) PROVE [Table!Next]_(Table!vars)
  <2>1. UNCHANGED <<closed, nextID, ch, txn, got>> /\ pc[t] = "deliver"
    BY <1>14 DEF TryDeliver
  <2>2. CASE Return(t)
    <3>1. /\ pc'[t] # "send" /\ (t \in Requesters => pc'[t] \in {"forget", "recv"})
          /\ \A u \in Threads \ {t} : pc'[u] = pc[u] /\ at'[u] = at[u] /\ val'[u] = val[u]
          /\ \A r \in Requesters : at'[r] = at[r]
      BY <1>t, <2>2, ReturnEffect, ThreadAssumption DEF IInv, TypeOK, Threads
    <3>2. UNCHANGED <<tUsed, tOpen, tSettled>>
      BY <1>t, <2>1, <3>1, QuietStep
    <3> QED
      BY <2>1, <3>2, TableSteps
  <2>3. CASE ~done[at[t]] /\ pc' = [pc EXCEPT ![t] = "send"] /\ UNCHANGED <<at, val>>
    BY <1>0, <2>1, <2>3, TryDeliverStep
  <2> QED
    BY <1>14, <2>2, <2>3 DEF TryDeliver, Goto
<1>15. ASSUME NEW t \in Threads, DeliverSend(t) PROVE [Table!Next]_(Table!vars)
  BY <1>15, SendStep, TableSteps
<1>16. CASE UNCHANGED vars
  <2>1. UNCHANGED <<closed, tUsed, tOpen, tSettled>>
    BY <1>16, QuietStep DEF vars, slotVars
  <2> QED
    BY <2>1, TableSteps
<1> QED
  BY <1>1, <1>2, <1>3, <1>4, <1>5, <1>6, <1>7, <1>8, <1>9, <1>10, <1>11, <1>12, <1>13,
     <1>14, <1>15, <1>16 DEF Next, RequesterStep, DeliverStep

\* TxManager implements TxTable until a waiter is recycled under a delivery:
\* every step of Create, Wait, Complete, Fail, Cancel and Close is a step of
\* the table, or none.
THEOREM ManagerImplementsTable == Spec => ImplementsTable
<1>1. Init => Table!Init
  <2> SUFFICES ASSUME Init PROVE Table!Init
    OBVIOUS
  <2>1. InFlight = {} /\ closed = FALSE /\ nextID = 0
    BY DEF Init, InFlight, Threads
  <2>2. (1..nextID) = {}
    BY <2>1
  <2> QED
    BY <2>1, <2>2 DEF Table!Init
<1>2. IInv /\ [Next]_vars => [~raced' => [Table!Next]_(Table!vars)]_vars
  BY TableStep
<1> QED
  BY <1>1, <1>2, Invariance, PTL DEF Spec, ImplementsTable
=============================================================================
