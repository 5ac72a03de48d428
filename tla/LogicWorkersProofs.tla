------------------------- MODULE LogicWorkersProofs -------------------------
(***************************************************************************)
(* Proofs about LogicWorkers: that nobody sends on the closed queue, and   *)
(* that every request is in one place until it is settled, settled once    *)
(* and counted right; for any number of receivers, workers and requests    *)
(* and any capacity of the queue.                                          *)
(***************************************************************************)
EXTENDS LogicWorkers, FiniteSetTheorems, SequenceTheorems, TLAPS

-----------------------------------------------------------------------------
(* The inductive invariant, in named parts.                                *)

Goroutines == Receivers \cup Workers

NodeMetrics == [requestRX : Nat, responseTX : Nat, sendError : Nat, requests : Nat,
                dropped : Nat]

\* Every variable has its type.
TypeOK ==
    /\ jobs \in Seq(Reqs)
    /\ jobsOpen \in BOOLEAN /\ closing \in BOOLEAN /\ connOpen \in BOOLEAN
    /\ rpc \in [Receivers -> {"idle", "enqueue", "locked", "checked", "refused"}]
    /\ cur \in [Goroutines -> 0..MaxReq]
    /\ wpc \in [Workers -> {"idle", "run", "exited"}]
    /\ closer \in {"idle", "pool", "lock", "wait", "done"}
    /\ stranded \subseteq Goroutines
    /\ next \in 0..MaxReq
    /\ reply \in [Reqs -> Replies]
    /\ freed \in [Reqs -> Nat]
    /\ met \in NodeMetrics

\* The order of pool.Close: closing first, then the channel, which is closed
\* with no reader between its check and its send.
CloseOrder ==
    /\ closing <=> closer \in {"lock", "wait", "done"}
    /\ ~jobsOpen <=> closer \in {"wait", "done"}
    /\ NoSendOnClosed

\* A goroutine has a request in hand at the points of its code where it has.
InUse ==
    /\ \A r \in Receivers : cur[r] = 0 <=> rpc[r] = "idle"
    /\ \A w \in Workers : cur[w] # 0 <=> wpc[w] = "run"

\* A request is in one place.
OnePlace ==
    /\ \A g, h \in Goroutines : cur[g] = cur[h] /\ cur[g] # 0 => g = h
    /\ \A j, k \in 1..Len(jobs) : jobs[j] = jobs[k] => j = k
    /\ \A g \in Goroutines, k \in 1..Len(jobs) : cur[g] # jobs[k]

\* Where a request may be.
Held(i) == \E g \in Goroutines : cur[g] = i
Queued(i) == \E k \in 1..Len(jobs) : jobs[k] = i
Inside(i) == Held(i) \/ Queued(i)

\* It is settled when it leaves, and those not received yet are nowhere.
Settling ==
    \A i \in Reqs :
        /\ freed[i] = IF reply[i] = "none" THEN 0 ELSE 1
        /\ Inside(i) => i <= next /\ reply[i] = "none"
        /\ reply[i] = "none" /\ i <= next => Inside(i)
        /\ i > next => reply[i] = "none"

\* The sets the counters count.
Hands == {i \in Reqs : Inside(i)}
AtReceivers == {i \in Reqs : \E r \in Receivers : cur[r] = i}
Undecided == {i \in Reqs : \E r \in Receivers :
                cur[r] = i /\ rpc[r] \in {"enqueue", "locked", "checked"}}
AtWorkers == {i \in Reqs : \E w \in Workers : cur[w] = i}
Answered == {i \in Reqs : reply[i] \in {"answered"}}
Overloaded == {i \in Reqs : reply[i] \in {"overload"}}

\* The counters received, sent, failed, begun and dropped against the length of
\* the queue and the numbers of requests in hand, undecided, answered, at
\* workers, turned away and at receivers.
Balance(rx, tx, failed, begun, drop, len, hands, und, ans, work, over, recv) ==
    /\ rx = tx + failed + hands
    /\ begun + drop + len + und <= rx
    /\ ans + work <= begun
    /\ over + recv + begun + len <= rx

Counted ==
    Balance(met.requestRX, met.responseTX, met.sendError, met.requests, met.dropped,
            Len(jobs), Cardinality(Hands), Cardinality(Undecided), Cardinality(Answered),
            Cardinality(AtWorkers), Cardinality(Overloaded), Cardinality(AtReceivers))

IInv == TypeOK /\ CloseOrder /\ InUse /\ OnePlace /\ Settling /\ Counted

-----------------------------------------------------------------------------
(* Lemmas.                                                                 *)

\* Sets of requests are finite, and count one by one.
LEMMA Counting ==
    ASSUME NEW S \in SUBSET Reqs
    PROVE  /\ Cardinality(S) \in Nat
           /\ \A i \in Reqs \ S : Cardinality(S \cup {i}) = Cardinality(S) + 1
           /\ \A i \in S : Cardinality(S \ {i}) = Cardinality(S) - 1
           /\ \A T \in SUBSET S : Cardinality(T) \in Nat /\ Cardinality(T) <= Cardinality(S)
  <1>1. IsFiniteSet(Reqs)
    BY WorkersAssumption, FS_Interval DEF Reqs
  <1>2. IsFiniteSet(S)
    BY <1>1, FS_Subset
  <1> QED BY <1>2, FS_CardinalityType, FS_AddElement, FS_RemoveElement, FS_Subset

\* The queue as a function of its positions.
LEMMA Queue ==
    ASSUME NEW s \in Seq(Reqs)
    PROVE  /\ Len(s) \in Nat /\ DOMAIN s = 1..Len(s)
           /\ \A k \in 1..Len(s) : s[k] \in Reqs
           /\ \A x \in Reqs :
                /\ Append(s, x) \in Seq(Reqs) /\ Len(Append(s, x)) = Len(s) + 1
                /\ \A k \in 1..Len(s) : Append(s, x)[k] = s[k]
                /\ Append(s, x)[Len(s) + 1] = x
           /\ s # <<>> =>
                /\ Len(s) > 0 /\ Head(s) = s[1] /\ Tail(s) \in Seq(Reqs)
                /\ Len(Tail(s)) = Len(s) - 1
                /\ \A k \in 1..(Len(s) - 1) : Tail(s)[k] = s[k + 1]
  OBVIOUS

\* A counter moves and the others stay.
LEMMA Increments ==
    ASSUME NEW m \in NodeMetrics
    PROVE  /\ Inc(m, "requestRX") = [m EXCEPT !.requestRX = @ + 1]
           /\ Inc(m, "responseTX") = [m EXCEPT !.responseTX = @ + 1]
           /\ Inc(m, "sendError") = [m EXCEPT !.sendError = @ + 1]
           /\ Inc(m, "requests") = [m EXCEPT !.requests = @ + 1]
           /\ Inc(m, "dropped") = [m EXCEPT !.dropped = @ + 1]
  BY DEF Inc

\* What the steps do to the balance: a request comes, is queued, dropped or
\* refused, turned away, taken, handled.
LEMMA BalanceKept ==
    ASSUME NEW rx \in Nat, NEW tx \in Nat, NEW failed \in Nat, NEW begun \in Nat,
           NEW drop \in Nat, NEW len \in Nat, NEW hands \in Nat, NEW und \in Nat,
           NEW ans \in Nat, NEW work \in Nat, NEW over \in Nat, NEW recv \in Nat,
           Balance(rx, tx, failed, begun, drop, len, hands, und, ans, work, over, recv)
    PROVE
      /\ Balance(rx + 1, tx, failed, begun, drop, len, hands + 1, und + 1, ans, work, over,
                 recv + 1)
      /\ Balance(rx, tx, failed, begun, drop, len + 1, hands, und - 1, ans, work, over,
                 recv - 1)
      /\ Balance(rx, tx, failed, begun, drop + 1, len, hands, und - 1, ans, work, over, recv)
      /\ \A u \in Nat : u <= und =>
           Balance(rx, tx, failed, begun, drop, len, hands, u, ans, work, over, recv)
      /\ Balance(rx, tx + 1, failed, begun, drop, len, hands - 1, und, ans, work, over + 1,
                 recv - 1)
      /\ Balance(rx, tx, failed + 1, begun, drop, len, hands - 1, und, ans, work, over,
                 recv - 1)
      /\ Balance(rx, tx, failed, begun + 1, drop, len - 1, hands, und, ans, work + 1, over,
                 recv)
      /\ Balance(rx, tx + 1, failed, begun, drop, len, hands - 1, und, ans + 1, work - 1,
                 over, recv)
      /\ Balance(rx, tx, failed + 1, begun, drop, len, hands - 1, und, ans, work - 1, over,
                 recv)
  BY DEF Balance

\* What the balance says of the counters alone.
LEMMA BalanceMeans ==
    ASSUME NEW rx \in Nat, NEW tx \in Nat, NEW failed \in Nat, NEW begun \in Nat,
           NEW drop \in Nat, NEW len \in Nat, NEW hands \in Nat, NEW und \in Nat,
           NEW ans \in Nat, NEW work \in Nat, NEW over \in Nat, NEW recv \in Nat,
           Balance(rx, tx, failed, begun, drop, len, hands, und, ans, work, over, recv)
    PROVE  /\ rx = tx + failed + hands
           /\ begun + drop + len <= rx
           /\ ans <= begun
           /\ over + begun + len <= rx
  BY DEF Balance

\* Counters stay counters.
LEMMA CountersType ==
    ASSUME NEW m \in NodeMetrics,
           NEW c \in {"requestRX", "responseTX", "sendError", "requests", "dropped"}
    PROVE  Inc(m, c) \in NodeMetrics
  <1>1. CASE c = "requestRX"
    BY <1>1, Increments DEF NodeMetrics
  <1>2. CASE c = "responseTX"
    BY <1>2, Increments DEF NodeMetrics
  <1>3. CASE c = "sendError"
    BY <1>3, Increments DEF NodeMetrics
  <1>4. CASE c = "requests"
    BY <1>4, Increments DEF NodeMetrics
  <1>5. CASE c = "dropped"
    BY <1>5, Increments DEF NodeMetrics
  <1> QED BY <1>1, <1>2, <1>3, <1>4, <1>5

\* The sets the counters count are sets of requests.
LEMMA CountedSets ==
    /\ Hands \subseteq Reqs /\ AtReceivers \subseteq Reqs /\ Undecided \subseteq Reqs
    /\ AtWorkers \subseteq Reqs /\ Answered \subseteq Reqs /\ Overloaded \subseteq Reqs
  BY DEF Hands, AtReceivers, Undecided, AtWorkers, Answered, Overloaded

\* The terms of Counted are numbers.
LEMMA CountedNumbers ==
    ASSUME TypeOK
    PROVE  /\ met.requestRX \in Nat /\ met.responseTX \in Nat /\ met.sendError \in Nat
           /\ met.requests \in Nat /\ met.dropped \in Nat /\ Len(jobs) \in Nat
           /\ Cardinality(Hands) \in Nat /\ Cardinality(AtReceivers) \in Nat
           /\ Cardinality(Undecided) \in Nat /\ Cardinality(AtWorkers) \in Nat
           /\ Cardinality(Answered) \in Nat /\ Cardinality(Overloaded) \in Nat
  <1>1. met \in NodeMetrics /\ Len(jobs) \in Nat
    BY Queue DEF TypeOK
  <1> QED BY <1>1, CountedSets, Counting DEF NodeMetrics

-----------------------------------------------------------------------------
\* The invariant holds at the start.
LEMMA InitIInv == Init => IInv
  <1> SUFFICES ASSUME Init PROVE IInv
    OBVIOUS
  <1>0. MaxReq \in Nat /\ jobs = <<>> /\ Len(jobs) = 0 /\ jobs \in Seq(Reqs)
    BY WorkersAssumption DEF Init
  <1>1. TypeOK
    <2>1. met \in NodeMetrics
      BY DEF Init, newNodeMetrics, NodeMetrics
    <2>2. /\ jobsOpen \in BOOLEAN /\ closing \in BOOLEAN /\ connOpen \in BOOLEAN
      BY DEF Init
    <2> QED BY <1>0, <2>1, <2>2 DEF Init, TypeOK, Goroutines, Replies
  <1>2. CloseOrder /\ InUse
    BY DEF Init, CloseOrder, InUse, NoSendOnClosed
  <1>3. OnePlace
    BY <1>0 DEF Init, OnePlace, Goroutines
  <1>4. \A i \in Reqs : ~Inside(i)
    BY <1>0 DEF Init, Inside, Held, Queued, Goroutines, Reqs
  <1>5. Settling
    BY <1>0, <1>4 DEF Init, Settling, Reqs
  <1>6. Hands = {} /\ AtReceivers = {} /\ Undecided = {} /\ AtWorkers = {}
        /\ Answered = {} /\ Overloaded = {}
    BY <1>0, <1>4 DEF Init, Hands, AtReceivers, Undecided, AtWorkers, Answered,
                        Overloaded, Reqs
  <1>7. Counted
    <2>1. /\ met.requestRX = 0 /\ met.responseTX = 0 /\ met.sendError = 0
          /\ met.requests = 0 /\ met.dropped = 0
      BY DEF Init, newNodeMetrics
    <2>2. Cardinality({}) = 0
      BY FS_EmptySet
    <2>3. /\ Cardinality(Hands) = 0 /\ Cardinality(AtReceivers) = 0
          /\ Cardinality(Undecided) = 0 /\ Cardinality(AtWorkers) = 0
          /\ Cardinality(Answered) = 0 /\ Cardinality(Overloaded) = 0
      BY <1>6, <2>2, Zenon
    <2>4. Len(jobs) = 0
      BY <1>0
    <2> QED BY <2>1, <2>3, <2>4 DEF Counted, Balance
  <1> QED BY <1>1, <1>2, <1>3, <1>5, <1>7 DEF IInv

\* A step of the locks and of the shutdown moves no request.
LEMMA ControlStep ==
    ASSUME IInv, TypeOK', CloseOrder', InUse',
           UNCHANGED <<jobs, cur, next, reply, freed, met>>,
           \A r \in Receivers : rpc'[r] \in {"enqueue", "locked", "checked"} =>
              rpc[r] \in {"enqueue", "locked", "checked"}
    PROVE  IInv'
  <1>1. OnePlace' /\ Settling'
    BY DEF IInv, OnePlace, Settling, Inside, Held, Queued
  <1>2. /\ Hands' = Hands /\ AtReceivers' = AtReceivers /\ AtWorkers' = AtWorkers
        /\ Answered' = Answered /\ Overloaded' = Overloaded
    BY DEF Hands, Inside, Held, Queued, AtReceivers, AtWorkers, Answered, Overloaded
  <1>3. Undecided' \in SUBSET Undecided
    BY DEF Undecided
  <1>4. /\ Cardinality(Undecided') \in Nat /\ Cardinality(Undecided) \in Nat
        /\ Cardinality(Undecided') <= Cardinality(Undecided)
    BY <1>3, Counting, CountedSets
  <1>5. Counted'
    BY <1>2, <1>4, CountedNumbers, BalanceKept DEF IInv, Counted
  <1> QED BY <1>1, <1>5 DEF IInv

\* receiveLoop: the request is new, and now in the receiver's hand.
LEMMA ReceiveStep ==
    ASSUME IInv, NEW r \in Receivers, Receive(r)
    PROVE  IInv'
  <1>t. TypeOK /\ MaxReq \in Nat /\ r \in Goroutines
    BY WorkersAssumption DEF IInv, Goroutines
  <1> DEFINE n == next + 1
  <1>n. n \in Reqs /\ next \in Nat /\ n # 0 /\ n \in 0..MaxReq /\ n > next
    BY <1>t DEF Receive, TypeOK, Reqs
  <1>r. /\ cur' = [cur EXCEPT ![r] = n] /\ rpc' = [rpc EXCEPT ![r] = "enqueue"] /\ next' = n
        /\ met' = Inc(met, "requestRX") /\ rpc[r] = "idle"
        /\ UNCHANGED <<jobs, jobsOpen, closing, wpc, closer, connOpen, stranded, reply, freed>>
    BY DEF Receive, poolVars
  <1> HIDE DEF n
  <1>c. /\ cur'[r] = n /\ cur[r] = 0 /\ \A g \in Goroutines \ {r} : cur'[g] = cur[g]
        /\ rpc'[r] = "enqueue" /\ \A q \in Receivers \ {r} : rpc'[q] = rpc[q]
        /\ \A g \in Goroutines : cur[g] # n
        /\ ~Inside(n) /\ reply[n] = "none"
    BY <1>t, <1>n, <1>r DEF IInv, TypeOK, InUse, Settling, Inside, Held
  <1>1. TypeOK'
    BY <1>t, <1>n, <1>r, CountersType DEF TypeOK
  <1>2. CloseOrder' /\ InUse'
    BY <1>t, <1>n, <1>r, <1>c, WorkersAssumption
       DEF IInv, TypeOK, CloseOrder, NoSendOnClosed, InUse, Goroutines
  <1>3. OnePlace'
    BY <1>n, <1>r, <1>c DEF IInv, OnePlace, Inside, Queued
  <1>4. \A i \in Reqs : Inside(i)' <=> Inside(i) \/ i = n
    BY <1>t, <1>n, <1>r, <1>c DEF Inside, Held, Queued, Reqs
  <1>5. Settling'
    BY <1>t, <1>n, <1>r, <1>c, <1>4 DEF IInv, Settling, Reqs, n
  <1>6. /\ Hands' = Hands \cup {n} /\ n \notin Hands
        /\ AtReceivers' = AtReceivers \cup {n} /\ n \notin AtReceivers
        /\ Undecided' = Undecided \cup {n} /\ n \notin Undecided
    BY <1>t, <1>n, <1>c, <1>4 DEF Hands, AtReceivers, Undecided, Goroutines, Reqs
  <1>7. AtWorkers' = AtWorkers
    BY <1>c, WorkersAssumption DEF AtWorkers, Goroutines
  <1>8. Answered' = Answered /\ Overloaded' = Overloaded
    BY <1>r DEF Answered, Overloaded
  <1>9. Counted'
    <2>1. /\ Cardinality(Hands') = Cardinality(Hands) + 1
          /\ Cardinality(AtReceivers') = Cardinality(AtReceivers) + 1
          /\ Cardinality(Undecided') = Cardinality(Undecided) + 1
      BY <1>n, <1>6, Counting, CountedSets
    <2>2. met' = [met EXCEPT !.requestRX = @ + 1] /\ met \in NodeMetrics
      BY <1>t, <1>r, Increments DEF TypeOK
    <2>3. /\ met'.requestRX = met.requestRX + 1
          /\ met'.responseTX = met.responseTX /\ met'.sendError = met.sendError
          /\ met'.requests = met.requests /\ met'.dropped = met.dropped
      BY <2>2 DEF NodeMetrics
    <2>4. /\ Cardinality(AtWorkers') = Cardinality(AtWorkers)
          /\ Cardinality(Answered') = Cardinality(Answered)
          /\ Cardinality(Overloaded') = Cardinality(Overloaded)
          /\ Len(jobs') = Len(jobs)
      BY <1>r, <1>7, <1>8, Zenon
    <2>5. Balance(met.requestRX + 1, met.responseTX, met.sendError, met.requests,
                  met.dropped, Len(jobs), Cardinality(Hands) + 1, Cardinality(Undecided) + 1,
                  Cardinality(Answered), Cardinality(AtWorkers), Cardinality(Overloaded),
                  Cardinality(AtReceivers) + 1)
      BY <1>t, CountedNumbers, BalanceKept DEF IInv, Counted
    <2> QED BY <2>1, <2>3, <2>4, <2>5 DEF Counted
  <1> QED BY <1>1, <1>2, <1>3, <1>5, <1>9 DEF IInv

\* Enqueue's send: the request goes from the receiver's hand into the queue.
LEMMA QueuedStep ==
    ASSUME IInv, NEW r \in Receivers, TrySend(r), Len(jobs) < QueueCap
    PROVE  IInv'
  <1>t. TypeOK /\ MaxReq \in Nat /\ r \in Goroutines
    BY WorkersAssumption DEF IInv, Goroutines
  <1> DEFINE n == cur[r]
  <1>n. n \in Reqs /\ n # 0 /\ rpc[r] = "checked"
    BY <1>t DEF TrySend, IInv, InUse, TypeOK, Reqs
  <1>r. /\ jobs' = Append(jobs, n) /\ cur' = [cur EXCEPT ![r] = 0]
        /\ rpc' = [rpc EXCEPT ![r] = "idle"]
        /\ UNCHANGED <<jobsOpen, closing, wpc, closer, connOpen, stranded, next, reply, freed,
                       met>>
    BY DEF TrySend
  <1>q. /\ Len(jobs) \in Nat /\ Len(jobs') = Len(jobs) + 1 /\ jobs' \in Seq(Reqs)
        /\ \A k \in 1..Len(jobs) : jobs'[k] = jobs[k]
        /\ jobs'[Len(jobs) + 1] = n
        /\ 1..(Len(jobs) + 1) = (1..Len(jobs)) \cup {Len(jobs) + 1}
    BY <1>t, <1>n, <1>r, Queue DEF TypeOK
  <1>c. /\ cur'[r] = 0 /\ \A g \in Goroutines \ {r} : cur'[g] = cur[g] /\ cur[g] # n
        /\ rpc'[r] = "idle" /\ \A q \in Receivers \ {r} : rpc'[q] = rpc[q]
    BY <1>t, <1>n, <1>r DEF IInv, TypeOK, OnePlace
  <1> HIDE DEF n
  <1>x. cur[r] = n
    BY DEF n
  <1>1. TypeOK'
    BY <1>t, <1>r, <1>q DEF TypeOK
  <1>2. CloseOrder' /\ InUse'
    BY <1>t, <1>r, <1>c, WorkersAssumption
       DEF IInv, TypeOK, CloseOrder, NoSendOnClosed, InUse, Goroutines
  <1>3. OnePlace'
    <2>1. \A g, h \in Goroutines : cur'[g] = cur'[h] /\ cur'[g] # 0 => g = h
      BY <1>c DEF IInv, OnePlace
    <2>2. \A k \in 1..Len(jobs) : jobs[k] # n
      BY <1>t, <1>x DEF IInv, OnePlace
    <2>3. \A j, k \in 1..Len(jobs') : jobs'[j] = jobs'[k] => j = k
      BY <1>q, <2>2 DEF IInv, OnePlace
    <2>4. \A k \in 1..Len(jobs) : jobs[k] \in Reqs /\ jobs[k] # 0
      BY <1>t, Queue DEF TypeOK, Reqs
    <2>5. \A g \in Goroutines, k \in 1..Len(jobs') : cur'[g] # jobs'[k]
      BY <1>n, <1>q, <1>c, <2>4 DEF IInv, OnePlace
    <2> QED BY <2>1, <2>3, <2>5 DEF OnePlace
  <1>4. \A i \in Reqs : Inside(i)' <=> Inside(i)
    <2>1. \A i \in Reqs : i # 0
      BY <1>t DEF Reqs
    <2>2. \A i \in Reqs : Held(i)' <=> Held(i) /\ i # n
      BY <1>t, <1>x, <1>c, <2>1 DEF Held
    <2>3. \A i \in Reqs : Queued(i)' <=> Queued(i) \/ i = n
      BY <1>q DEF Queued
    <2>4. Held(n)
      BY <1>t, <1>x DEF Held
    <2> QED BY <2>2, <2>3, <2>4 DEF Inside
  <1>5. Settling'
    BY <1>r, <1>4 DEF IInv, Settling
  <1>6. /\ Hands' = Hands
        /\ AtReceivers' = AtReceivers \ {n} /\ n \in AtReceivers
        /\ Undecided' = Undecided \ {n} /\ n \in Undecided
    <2>1. \A i \in Reqs : i # 0
      BY <1>t DEF Reqs
    <2> QED BY <1>n, <1>x, <1>c, <1>4, <2>1 DEF Hands, AtReceivers, Undecided, Goroutines
  <1>7. AtWorkers' = AtWorkers
    BY <1>c, WorkersAssumption DEF AtWorkers, Goroutines
  <1>8. Answered' = Answered /\ Overloaded' = Overloaded
    BY <1>r DEF Answered, Overloaded
  <1>9. Counted'
    <2>1. /\ Cardinality(AtReceivers') = Cardinality(AtReceivers) - 1
          /\ Cardinality(Undecided') = Cardinality(Undecided) - 1
      BY <1>6, Counting, CountedSets
    <2>2. Balance(met.requestRX, met.responseTX, met.sendError, met.requests,
                  met.dropped, Len(jobs) + 1, Cardinality(Hands), Cardinality(Undecided) - 1,
                  Cardinality(Answered), Cardinality(AtWorkers), Cardinality(Overloaded),
                  Cardinality(AtReceivers) - 1)
      BY <1>t, CountedNumbers, BalanceKept DEF IInv, Counted
    <2> QED BY <1>r, <1>q, <1>6, <1>7, <1>8, <2>1, <2>2 DEF Counted
  <1> QED BY <1>1, <1>2, <1>3, <1>5, <1>9 DEF IInv

\* Enqueue's default: the queue is full.
LEMMA DroppedStep ==
    ASSUME IInv, NEW r \in Receivers, TrySend(r), ~(Len(jobs) < QueueCap)
    PROVE  IInv'
  <1>t. TypeOK /\ MaxReq \in Nat /\ r \in Goroutines
    BY WorkersAssumption DEF IInv, Goroutines
  <1>r. /\ rpc' = [rpc EXCEPT ![r] = "refused"] /\ rpc[r] = "checked"
        /\ met' = Inc(met, "dropped")
        /\ UNCHANGED <<jobs, jobsOpen, closing, cur, wpc, closer, connOpen, stranded, next,
                       reply, freed>>
    BY DEF TrySend
  <1>n. cur[r] \in Reqs /\ cur[r] # 0
    BY <1>t, <1>r DEF IInv, InUse, TypeOK, Reqs
  <1>1. TypeOK'
    BY <1>t, <1>r, CountersType DEF TypeOK
  <1>2. CloseOrder' /\ InUse'
    BY <1>t, <1>r DEF IInv, TypeOK, CloseOrder, NoSendOnClosed, InUse
  <1>3. OnePlace' /\ Settling'
    BY <1>r DEF IInv, OnePlace, Settling, Inside, Held, Queued
  <1>4. /\ Hands' = Hands /\ AtReceivers' = AtReceivers /\ AtWorkers' = AtWorkers
        /\ Answered' = Answered /\ Overloaded' = Overloaded
    BY <1>r DEF Hands, Inside, Held, Queued, AtReceivers, AtWorkers, Answered, Overloaded
  <1>5. Undecided' = Undecided \ {cur[r]} /\ cur[r] \in Undecided
    <2>1. rpc'[r] = "refused" /\ \A q \in Receivers \ {r} : rpc'[q] = rpc[q]
      BY <1>t, <1>r DEF TypeOK
    <2>2. \A q \in Receivers \ {r} : cur[q] # cur[r]
      BY <1>t, <1>n DEF IInv, OnePlace, Goroutines
    <2> QED BY <1>r, <1>n, <2>1, <2>2 DEF Undecided
  <1>6. Counted'
    <2>1. Cardinality(Undecided') = Cardinality(Undecided) - 1
      BY <1>5, Counting, CountedSets
    <2>2. met' = [met EXCEPT !.dropped = @ + 1] /\ met \in NodeMetrics
      BY <1>t, <1>r, Increments DEF TypeOK
    <2>3. /\ met'.dropped = met.dropped + 1 /\ met'.requestRX = met.requestRX
          /\ met'.responseTX = met.responseTX /\ met'.sendError = met.sendError
          /\ met'.requests = met.requests
      BY <2>2 DEF NodeMetrics
    <2>4. Balance(met.requestRX, met.responseTX, met.sendError, met.requests,
                  met.dropped + 1, Len(jobs), Cardinality(Hands), Cardinality(Undecided) - 1,
                  Cardinality(Answered), Cardinality(AtWorkers), Cardinality(Overloaded),
                  Cardinality(AtReceivers))
      BY <1>t, CountedNumbers, BalanceKept DEF IInv, Counted
    <2> QED BY <1>r, <1>4, <2>1, <2>3, <2>4 DEF Counted
  <1> QED BY <1>1, <1>2, <1>3, <1>6 DEF IInv

\* A worker takes the head of the queue.
LEMMA TakeStep ==
    ASSUME IInv, NEW w \in Workers, Take(w)
    PROVE  IInv'
  <1>t. TypeOK /\ MaxReq \in Nat /\ w \in Goroutines
    BY WorkersAssumption DEF IInv, Goroutines
  <1> DEFINE n == jobs[1]
  <1>q. /\ Len(jobs) \in Nat /\ Len(jobs) > 0 /\ jobs' \in Seq(Reqs)
        /\ Len(jobs') = Len(jobs) - 1
        /\ \A k \in 1..(Len(jobs) - 1) : jobs'[k] = jobs[k + 1]
        /\ \A k \in 1..Len(jobs) : jobs[k] \in Reqs
        /\ 1 \in 1..Len(jobs)
    BY <1>t, Queue DEF Take, TypeOK
  <1>r. /\ cur' = [cur EXCEPT ![w] = n] /\ wpc' = [wpc EXCEPT ![w] = "run"]
        /\ wpc[w] = "idle" /\ met' = Inc(met, "requests")
        /\ UNCHANGED <<jobsOpen, closing, rpc, closer, connOpen, stranded, next, reply, freed>>
    BY <1>t, Queue DEF Take, TypeOK
  <1>n. n \in Reqs /\ n # 0 /\ n \in 0..MaxReq
    BY <1>t, <1>q DEF Reqs
  <1>c. /\ cur'[w] = n /\ cur[w] = 0
        /\ \A g \in Goroutines \ {w} : cur'[g] = cur[g] /\ cur[g] # n
        /\ wpc'[w] = "run" /\ \A v \in Workers \ {w} : wpc'[v] = wpc[v]
        /\ \A k \in 2..Len(jobs) : jobs[k] # n
    BY <1>t, <1>r, <1>q DEF IInv, TypeOK, InUse, OnePlace
  <1>1. TypeOK'
    BY <1>t, <1>r, <1>q, <1>n, CountersType DEF TypeOK
  <1>2. CloseOrder' /\ InUse'
    BY <1>t, <1>r, <1>c, <1>n, WorkersAssumption
       DEF IInv, TypeOK, CloseOrder, NoSendOnClosed, InUse, Goroutines
  <1>s. \A k \in 1..Len(jobs') : k + 1 \in 2..Len(jobs) /\ k + 1 \in 1..Len(jobs)
                                   /\ jobs'[k] = jobs[k + 1]
    BY <1>q
  <1>z. \A k \in 2..Len(jobs) : k - 1 \in 1..Len(jobs') /\ jobs'[k - 1] = jobs[k]
    BY <1>q
  <1> HIDE DEF n
  <1>3. OnePlace'
    <2>1. \A g, h \in Goroutines : cur'[g] = cur'[h] /\ cur'[g] # 0 => g = h
      BY <1>c DEF IInv, OnePlace
    <2>2. ASSUME NEW j \in 1..Len(jobs'), NEW k \in 1..Len(jobs'), jobs'[j] = jobs'[k]
          PROVE  j = k
      <3>1. j + 1 = k + 1
        BY <1>s, <2>2 DEF IInv, OnePlace
      <3> QED BY <1>q, <3>1
    <2>3. ASSUME NEW g \in Goroutines, NEW k \in 1..Len(jobs') PROVE cur'[g] # jobs'[k]
      <3>1. k + 1 \in 2..Len(jobs) /\ k + 1 \in 1..Len(jobs) /\ jobs'[k] = jobs[k + 1]
        BY <1>s
      <3>2. cur[g] # jobs[k + 1] /\ jobs[k + 1] # n
        BY <1>c, <3>1 DEF IInv, OnePlace
      <3> QED BY <1>c, <3>1, <3>2
    <2> QED BY <2>1, <2>2, <2>3 DEF OnePlace
  <1>4. \A i \in Reqs : Inside(i)' <=> Inside(i)
    <2>1. \A i \in Reqs : i # 0
      BY <1>t DEF Reqs
    <2>2. \A i \in Reqs : Held(i)' <=> Held(i) \/ i = n
      BY <1>t, <1>c, <2>1 DEF Held
    <2>3. \A i \in Reqs : Queued(i) => Queued(i)' \/ i = n
      <3> SUFFICES ASSUME NEW i \in Reqs, i # n, NEW k \in 1..Len(jobs), jobs[k] = i
                   PROVE  Queued(i)'
        BY DEF Queued
      <3>1. k \in 2..Len(jobs)
        BY <1>q DEF n
      <3> QED BY <1>z, <3>1 DEF Queued
    <2>4. \A i \in Reqs : Queued(i)' => Queued(i)
      BY <1>s DEF Queued
    <2>5. Queued(n)
      BY <1>q DEF Queued, n
    <2> QED BY <2>2, <2>3, <2>4, <2>5 DEF Inside
  <1>5. Settling'
    BY <1>r, <1>4 DEF IInv, Settling
  <1>6. Hands' = Hands /\ AtWorkers' = AtWorkers \cup {n} /\ n \notin AtWorkers
    <2>1. \A i \in Reqs : i # 0
      BY <1>t DEF Reqs
    <2> QED BY <1>n, <1>c, <1>4, <2>1 DEF Hands, AtWorkers, Goroutines
  <1>7. AtReceivers' = AtReceivers /\ Undecided' = Undecided
    BY <1>r, <1>c, WorkersAssumption DEF AtReceivers, Undecided, Goroutines
  <1>8. Answered' = Answered /\ Overloaded' = Overloaded
    BY <1>r DEF Answered, Overloaded
  <1>9. Counted'
    <2>1. Cardinality(AtWorkers') = Cardinality(AtWorkers) + 1
      BY <1>n, <1>6, Counting, CountedSets
    <2>2. met' = [met EXCEPT !.requests = @ + 1] /\ met \in NodeMetrics
      BY <1>t, <1>r, Increments DEF TypeOK
    <2>3. /\ met'.requests = met.requests + 1 /\ met'.requestRX = met.requestRX
          /\ met'.responseTX = met.responseTX /\ met'.sendError = met.sendError
          /\ met'.dropped = met.dropped
      BY <2>2 DEF NodeMetrics
    <2>4. Balance(met.requestRX, met.responseTX, met.sendError, met.requests + 1,
                  met.dropped, Len(jobs) - 1, Cardinality(Hands), Cardinality(Undecided),
                  Cardinality(Answered), Cardinality(AtWorkers) + 1, Cardinality(Overloaded),
                  Cardinality(AtReceivers))
      BY <1>t, CountedNumbers, BalanceKept DEF IInv, Counted
    <2> QED BY <1>q, <1>6, <1>7, <1>8, <2>1, <2>3, <2>4 DEF Counted
  <1> QED BY <1>1, <1>2, <1>3, <1>5, <1>9 DEF IInv

\* A goroutine sends the answer to its request, or fails to, and lets go of it.
LEMMA AnswerSettles ==
    ASSUME IInv, NEW g \in Goroutines, NEW kind \in {"answered", "overload"},
           cur[g] \in Reqs,
           Answer(cur[g], kind),
           cur' = [cur EXCEPT ![g] = 0],
           UNCHANGED <<jobs, next>>
    PROVE  /\ reply' \in [Reqs -> Replies] /\ freed' \in [Reqs -> Nat] /\ met' \in NodeMetrics
           /\ cur' \in [Goroutines -> 0..MaxReq]
           /\ cur'[g] = 0 /\ \A h \in Goroutines \ {g} : cur'[h] = cur[h] /\ cur[h] # cur[g]
           /\ OnePlace' /\ Settling'
           /\ Hands' = Hands \ {cur[g]} /\ cur[g] \in Hands
           /\ \/ /\ met' = Inc(met, "responseTX")
                 /\ reply' = [reply EXCEPT ![cur[g]] = kind]
              \/ /\ met' = Inc(met, "sendError")
                 /\ reply' = [reply EXCEPT ![cur[g]] = "unsent"]
           /\ reply[cur[g]] = "none"
  <1>t. TypeOK /\ MaxReq \in Nat /\ \A i \in Reqs : i # 0
    BY WorkersAssumption DEF IInv, Reqs
  <1> DEFINE n == cur[g]
  <1>r. PICK x \in {kind, "unsent"} :
          /\ reply' = [reply EXCEPT ![n] = x]
          /\ met' = Inc(met, IF x = "unsent" THEN "sendError" ELSE "responseTX")
          /\ freed' = [freed EXCEPT ![n] = @ + 1]
    BY DEF Answer
  <1>n. n \in Reqs /\ n = cur[g]
    OBVIOUS
  <1>i. Inside(n) /\ reply[n] = "none" /\ freed[n] = 0 /\ x # "none" /\ n <= next
    BY <1>n DEF IInv, Settling, Inside, Held
  <1> HIDE DEF n
  <1>1. /\ reply' \in [Reqs -> Replies] /\ freed' \in [Reqs -> Nat] /\ met' \in NodeMetrics
        /\ cur' \in [Goroutines -> 0..MaxReq]
    <2>1. reply' \in [Reqs -> Replies]
      BY <1>t, <1>r, <1>n DEF TypeOK, Replies
    <2>2. freed' \in [Reqs -> Nat]
      BY <1>t, <1>r, <1>n DEF TypeOK
    <2>3. met' \in NodeMetrics
      BY <1>t, <1>r, CountersType DEF TypeOK
    <2>4. cur' \in [Goroutines -> 0..MaxReq]
      BY <1>t DEF TypeOK
    <2> QED BY <2>1, <2>2, <2>3, <2>4
  <1>2. /\ cur'[g] = 0 /\ \A h \in Goroutines \ {g} : cur'[h] = cur[h] /\ cur[h] # n
    BY <1>t, <1>n DEF IInv, TypeOK, OnePlace
  <1>3. OnePlace'
    <2>1. \A k \in 1..Len(jobs) : jobs[k] # 0
      BY <1>t, Queue DEF TypeOK
    <2> QED BY <1>2, <2>1 DEF IInv, OnePlace
  <1>4. \A i \in Reqs : Inside(i)' <=> Inside(i) /\ i # n
    <2>1. \A i \in Reqs : Held(i)' <=> Held(i) /\ i # n
      BY <1>t, <1>n, <1>2 DEF Held
    <2>2. ~Queued(n)
      BY <1>n DEF IInv, OnePlace, Queued
    <2>3. \A i \in Reqs : Queued(i)' <=> Queued(i)
      BY DEF Queued
    <2> QED BY <2>1, <2>2, <2>3 DEF Inside
  <1>5. Settling'
    <2>1. reply'[n] = x /\ freed'[n] = 1
          /\ \A i \in Reqs \ {n} : reply'[i] = reply[i] /\ freed'[i] = freed[i]
      BY <1>t, <1>r, <1>n, <1>i DEF TypeOK
    <2>2. next \in Nat
      BY <1>t DEF TypeOK
    <2> QED BY <1>n, <1>i, <1>4, <2>1, <2>2 DEF IInv, Settling, Reqs
  <1>6. Hands' = Hands \ {n} /\ n \in Hands
    BY <1>n, <1>i, <1>4 DEF Hands
  <1>7. \/ met' = Inc(met, "responseTX") /\ reply' = [reply EXCEPT ![n] = kind]
        \/ met' = Inc(met, "sendError") /\ reply' = [reply EXCEPT ![n] = "unsent"]
    BY <1>r
  <1> QED BY <1>1, <1>2, <1>3, <1>5, <1>6, <1>7, <1>i DEF n

\* ERROR OVERLOAD of a refused request.
LEMMA OverloadStep ==
    ASSUME IInv, NEW r \in Receivers, Overload(r)
    PROVE  IInv'
  <1>t. TypeOK /\ MaxReq \in Nat /\ r \in Goroutines /\ \A i \in Reqs : i # 0
    BY WorkersAssumption DEF IInv, Goroutines, Reqs
  <1>r. /\ rpc[r] = "refused" /\ Answer(cur[r], "overload")
        /\ cur' = [cur EXCEPT ![r] = 0] /\ rpc' = [rpc EXCEPT ![r] = "idle"]
        /\ UNCHANGED <<jobs, jobsOpen, closing, wpc, closer, connOpen, stranded, next>>
    BY DEF Overload, poolVars
  <1> DEFINE n == cur[r]
  <1>n. n \in Reqs /\ n = cur[r]
    BY <1>t, <1>r DEF IInv, InUse, TypeOK, Reqs
  <1>a. /\ reply' \in [Reqs -> Replies] /\ freed' \in [Reqs -> Nat] /\ met' \in NodeMetrics
        /\ cur' \in [Goroutines -> 0..MaxReq]
        /\ cur'[r] = 0 /\ \A h \in Goroutines \ {r} : cur'[h] = cur[h] /\ cur[h] # n
        /\ OnePlace' /\ Settling'
        /\ Hands' = Hands \ {n} /\ n \in Hands
        /\ \/ met' = Inc(met, "responseTX") /\ reply' = [reply EXCEPT ![n] = "overload"]
           \/ met' = Inc(met, "sendError") /\ reply' = [reply EXCEPT ![n] = "unsent"]
        /\ reply[n] = "none"
    BY <1>t, <1>r, <1>n, AnswerSettles
  <1> HIDE DEF n
  <1>p. rpc'[r] = "idle" /\ \A q \in Receivers \ {r} : rpc'[q] = rpc[q]
    BY <1>t, <1>r DEF TypeOK
  <1>1. TypeOK'
    BY <1>t, <1>r, <1>a DEF TypeOK
  <1>2. CloseOrder' /\ InUse'
    BY <1>t, <1>r, <1>a, <1>p, WorkersAssumption
       DEF IInv, CloseOrder, NoSendOnClosed, InUse, Goroutines
  <1>3. AtReceivers' = AtReceivers \ {n} /\ n \in AtReceivers
    BY <1>t, <1>n, <1>a DEF AtReceivers, Goroutines
  <1>4. Undecided' = Undecided /\ AtWorkers' = AtWorkers
    <2>1. Undecided' = Undecided
      BY <1>t, <1>r, <1>a, <1>p DEF Undecided, Goroutines
    <2>2. AtWorkers' = AtWorkers
      BY <1>a, WorkersAssumption DEF AtWorkers, Goroutines
    <2> QED BY <2>1, <2>2
  <1>5. Answered' = Answered
    BY <1>t, <1>n, <1>a DEF Answered, TypeOK
  <1>6. /\ Cardinality(AtReceivers') = Cardinality(AtReceivers) - 1
        /\ Cardinality(Hands') = Cardinality(Hands) - 1
    BY <1>3, <1>a, Counting, CountedSets
  <1>7. CASE met' = Inc(met, "responseTX") /\ reply' = [reply EXCEPT ![n] = "overload"]
    <2>1. Overloaded' = Overloaded \cup {n} /\ n \notin Overloaded
      BY <1>t, <1>n, <1>a, <1>7 DEF Overloaded, TypeOK
    <2>2. Cardinality(Overloaded') = Cardinality(Overloaded) + 1
      BY <1>n, <2>1, Counting, CountedSets
    <2>3. met' = [met EXCEPT !.responseTX = @ + 1] /\ met \in NodeMetrics
      BY <1>t, <1>7, Increments DEF TypeOK
    <2>4. /\ met'.responseTX = met.responseTX + 1 /\ met'.requestRX = met.requestRX
          /\ met'.requests = met.requests /\ met'.sendError = met.sendError
          /\ met'.dropped = met.dropped
      BY <2>3 DEF NodeMetrics
    <2>5. Balance(met.requestRX, met.responseTX + 1, met.sendError, met.requests,
                  met.dropped, Len(jobs), Cardinality(Hands) - 1, Cardinality(Undecided),
                  Cardinality(Answered), Cardinality(AtWorkers), Cardinality(Overloaded) + 1,
                  Cardinality(AtReceivers) - 1)
      BY <1>t, CountedNumbers, BalanceKept DEF IInv, Counted
    <2>6. Counted'
      BY <1>r, <1>4, <1>5, <1>6, <2>2, <2>4, <2>5 DEF Counted
    <2> QED BY <1>1, <1>2, <1>a, <2>6 DEF IInv
  <1>8. CASE met' = Inc(met, "sendError") /\ reply' = [reply EXCEPT ![n] = "unsent"]
    <2>1. Overloaded' = Overloaded
      BY <1>t, <1>n, <1>a, <1>8 DEF Overloaded, TypeOK
    <2>3. met' = [met EXCEPT !.sendError = @ + 1] /\ met \in NodeMetrics
      BY <1>t, <1>8, Increments DEF TypeOK
    <2>4. /\ met'.sendError = met.sendError + 1 /\ met'.requestRX = met.requestRX
          /\ met'.requests = met.requests /\ met'.responseTX = met.responseTX
          /\ met'.dropped = met.dropped
      BY <2>3 DEF NodeMetrics
    <2>5. Balance(met.requestRX, met.responseTX, met.sendError + 1, met.requests,
                  met.dropped, Len(jobs), Cardinality(Hands) - 1, Cardinality(Undecided),
                  Cardinality(Answered), Cardinality(AtWorkers), Cardinality(Overloaded),
                  Cardinality(AtReceivers) - 1)
      BY <1>t, CountedNumbers, BalanceKept DEF IInv, Counted
    <2>6. Counted'
      BY <1>r, <1>4, <1>5, <1>6, <2>1, <2>4, <2>5 DEF Counted
    <2> QED BY <1>1, <1>2, <1>a, <2>6 DEF IInv
  <1> QED BY <1>a, <1>7, <1>8

\* handleDataRequest: the worker answers its request.
LEMMA HandleStep ==
    ASSUME IInv, NEW w \in Workers, Handle(w)
    PROVE  IInv'
  <1>t. TypeOK /\ MaxReq \in Nat /\ w \in Goroutines /\ \A i \in Reqs : i # 0
    BY WorkersAssumption DEF IInv, Goroutines, Reqs
  <1>r. /\ wpc[w] = "run" /\ Answer(cur[w], "answered")
        /\ cur' = [cur EXCEPT ![w] = 0] /\ wpc' = [wpc EXCEPT ![w] = "idle"]
        /\ UNCHANGED <<jobs, jobsOpen, closing, rpc, closer, connOpen, stranded, next>>
    BY DEF Handle, poolVars
  <1> DEFINE n == cur[w]
  <1>n. n \in Reqs /\ n = cur[w]
    BY <1>t, <1>r DEF IInv, InUse, TypeOK, Reqs
  <1>a. /\ reply' \in [Reqs -> Replies] /\ freed' \in [Reqs -> Nat] /\ met' \in NodeMetrics
        /\ cur' \in [Goroutines -> 0..MaxReq]
        /\ cur'[w] = 0 /\ \A h \in Goroutines \ {w} : cur'[h] = cur[h] /\ cur[h] # n
        /\ OnePlace' /\ Settling'
        /\ Hands' = Hands \ {n} /\ n \in Hands
        /\ \/ met' = Inc(met, "responseTX") /\ reply' = [reply EXCEPT ![n] = "answered"]
           \/ met' = Inc(met, "sendError") /\ reply' = [reply EXCEPT ![n] = "unsent"]
        /\ reply[n] = "none"
    BY <1>t, <1>r, <1>n, AnswerSettles
  <1> HIDE DEF n
  <1>p. wpc'[w] = "idle" /\ \A v \in Workers \ {w} : wpc'[v] = wpc[v]
    BY <1>t, <1>r DEF TypeOK
  <1>1. TypeOK'
    BY <1>t, <1>r, <1>a DEF TypeOK
  <1>2. CloseOrder' /\ InUse'
    BY <1>t, <1>r, <1>a, <1>p, WorkersAssumption
       DEF IInv, CloseOrder, NoSendOnClosed, InUse, Goroutines
  <1>3. AtWorkers' = AtWorkers \ {n} /\ n \in AtWorkers
    BY <1>t, <1>n, <1>a DEF AtWorkers, Goroutines
  <1>4. Undecided' = Undecided /\ AtReceivers' = AtReceivers
    BY <1>r, <1>a, WorkersAssumption DEF Undecided, AtReceivers, Goroutines
  <1>5. Overloaded' = Overloaded
    BY <1>t, <1>n, <1>a DEF Overloaded, TypeOK
  <1>6. /\ Cardinality(AtWorkers') = Cardinality(AtWorkers) - 1
        /\ Cardinality(Hands') = Cardinality(Hands) - 1
    BY <1>3, <1>a, Counting, CountedSets
  <1>7. CASE met' = Inc(met, "responseTX") /\ reply' = [reply EXCEPT ![n] = "answered"]
    <2>1. Answered' = Answered \cup {n} /\ n \notin Answered
      BY <1>t, <1>n, <1>a, <1>7 DEF Answered, TypeOK
    <2>2. Cardinality(Answered') = Cardinality(Answered) + 1
      BY <1>n, <2>1, Counting, CountedSets
    <2>3. met' = [met EXCEPT !.responseTX = @ + 1] /\ met \in NodeMetrics
      BY <1>t, <1>7, Increments DEF TypeOK
    <2>4. /\ met'.responseTX = met.responseTX + 1 /\ met'.requestRX = met.requestRX
          /\ met'.requests = met.requests /\ met'.sendError = met.sendError
          /\ met'.dropped = met.dropped
      BY <2>3 DEF NodeMetrics
    <2>5. Balance(met.requestRX, met.responseTX + 1, met.sendError, met.requests,
                  met.dropped, Len(jobs), Cardinality(Hands) - 1, Cardinality(Undecided),
                  Cardinality(Answered) + 1, Cardinality(AtWorkers) - 1,
                  Cardinality(Overloaded), Cardinality(AtReceivers))
      BY <1>t, CountedNumbers, BalanceKept DEF IInv, Counted
    <2>6. Counted'
      BY <1>r, <1>4, <1>5, <1>6, <2>2, <2>4, <2>5 DEF Counted
    <2> QED BY <1>1, <1>2, <1>a, <2>6 DEF IInv
  <1>8. CASE met' = Inc(met, "sendError") /\ reply' = [reply EXCEPT ![n] = "unsent"]
    <2>1. Answered' = Answered
      BY <1>t, <1>n, <1>a, <1>8 DEF Answered, TypeOK
    <2>3. met' = [met EXCEPT !.sendError = @ + 1] /\ met \in NodeMetrics
      BY <1>t, <1>8, Increments DEF TypeOK
    <2>4. /\ met'.sendError = met.sendError + 1 /\ met'.requestRX = met.requestRX
          /\ met'.requests = met.requests /\ met'.responseTX = met.responseTX
          /\ met'.dropped = met.dropped
      BY <2>3 DEF NodeMetrics
    <2>5. Balance(met.requestRX, met.responseTX, met.sendError + 1, met.requests,
                  met.dropped, Len(jobs), Cardinality(Hands) - 1, Cardinality(Undecided),
                  Cardinality(Answered), Cardinality(AtWorkers) - 1, Cardinality(Overloaded),
                  Cardinality(AtReceivers))
      BY <1>t, CountedNumbers, BalanceKept DEF IInv, Counted
    <2>6. Counted'
      BY <1>r, <1>4, <1>5, <1>6, <2>1, <2>4, <2>5 DEF Counted
    <2> QED BY <1>1, <1>2, <1>a, <2>6 DEF IInv
  <1> QED BY <1>a, <1>7, <1>8

-----------------------------------------------------------------------------
\* Every step keeps the invariant.
LEMMA StepIInv == IInv /\ [Next]_vars => IInv'
  <1> SUFFICES ASSUME IInv, [Next]_vars PROVE IInv'
    OBVIOUS
  <1> USE DEF poolVars, replyVars
  <1>t. TypeOK
    BY DEF IInv
  <1>1. ASSUME NEW r \in Receivers, Receive(r) PROVE IInv'
    BY <1>1, ReceiveStep
  <1>2. ASSUME NEW r \in Receivers, RLock(r) PROVE IInv'
    <2>1. TypeOK'
      BY <1>t, <1>2 DEF RLock, TypeOK
    <2>2. CloseOrder' /\ InUse'
      BY <1>t, <1>2 DEF RLock, TypeOK, IInv, CloseOrder, NoSendOnClosed, InUse
    <2>3. \A q \in Receivers : rpc'[q] \in {"enqueue", "locked", "checked"} =>
             rpc[q] \in {"enqueue", "locked", "checked"}
      BY <1>t, <1>2 DEF RLock, TypeOK
    <2> QED BY <1>2, <2>1, <2>2, <2>3, ControlStep DEF RLock
  <1>3. ASSUME NEW r \in Receivers, CheckClosing(r) PROVE IInv'
    <2>1. TypeOK'
      BY <1>t, <1>3 DEF CheckClosing, TypeOK
    <2>2. CloseOrder' /\ InUse'
      BY <1>t, <1>3 DEF CheckClosing, TypeOK, IInv, CloseOrder, NoSendOnClosed, InUse
    <2>3. \A q \in Receivers : rpc'[q] \in {"enqueue", "locked", "checked"} =>
             rpc[q] \in {"enqueue", "locked", "checked"}
      BY <1>t, <1>3 DEF CheckClosing, TypeOK
    <2> QED BY <1>3, <2>1, <2>2, <2>3, ControlStep DEF CheckClosing
  <1>4. ASSUME NEW r \in Receivers, TrySend(r) PROVE IInv'
    BY <1>4, QueuedStep, DroppedStep
  <1>5. ASSUME NEW r \in Receivers, Overload(r) PROVE IInv'
    BY <1>5, OverloadStep
  <1>6. ASSUME NEW w \in Workers, Take(w) PROVE IInv'
    BY <1>6, TakeStep
  <1>7. ASSUME NEW w \in Workers, Handle(w) PROVE IInv'
    BY <1>7, HandleStep
  <1>8. ASSUME NEW w \in Workers, Exit(w) PROVE IInv'
    <2>1. TypeOK'
      BY <1>t, <1>8 DEF Exit, TypeOK
    <2>2. CloseOrder' /\ InUse'
      BY <1>t, <1>8 DEF Exit, TypeOK, IInv, CloseOrder, NoSendOnClosed, InUse
    <2> QED BY <1>8, <2>1, <2>2, ControlStep DEF Exit
  <1>9. ASSUME ConnClose \/ SetClosing \/ CloseJobs \/ CloseDone PROVE IInv'
    <2>1. TypeOK'
      BY <1>t, <1>9 DEF ConnClose, SetClosing, CloseJobs, CloseDone, TypeOK, Sending,
                        Goroutines
    <2>2. CloseOrder' /\ InUse'
      BY <1>t, <1>9 DEF ConnClose, SetClosing, CloseJobs, CloseDone, TypeOK, IInv,
                        CloseOrder, NoSendOnClosed, InUse, Reading
    <2> QED BY <1>9, <2>1, <2>2, ControlStep
            DEF ConnClose, SetClosing, CloseJobs, CloseDone
  <1>10. ASSUME UNCHANGED vars PROVE IInv'
    <2>1. TypeOK' /\ CloseOrder' /\ InUse'
      BY <1>10 DEF vars, TypeOK, IInv, CloseOrder, NoSendOnClosed, InUse
    <2> QED BY <1>10, <2>1, ControlStep DEF vars
  <1> QED BY <1>1, <1>2, <1>3, <1>4, <1>5, <1>6, <1>7, <1>8, <1>9, <1>10
          DEF Next, ReceiverStep, WorkerStep, CloserStep

-----------------------------------------------------------------------------
(* The theorems.                                                           *)

\* The inductive invariant holds in every reachable state.
THEOREM InvariantHolds == Spec => []IInv
  <1> QED BY InitIInv, StepIInv, PTL DEF Spec

\* No goroutine is about to send on the closed channel: Enqueue checks closing
\* under the read lock, and Close closes the channel under the write lock.
THEOREM NeverSendsOnClosed == Spec => []NoSendOnClosed
  <1>1. IInv => NoSendOnClosed
    BY DEF IInv, CloseOrder
  <1> QED BY <1>1, InvariantHolds, PTL

\* A request is in one place until it is settled, is settled once, its envelope
\* released with its answer, and the counters of nodeMetrics account for it.
THEOREM SettlesOnce == Spec => []SettledOnce
  <1>1. ASSUME IInv PROVE SettledOnce
    <2>t. TypeOK
      BY <1>1 DEF IInv
    <2>1. 1..next \subseteq Reqs
      BY <2>t, WorkersAssumption DEF TypeOK, Reqs
    <2>2. \A i \in Reqs : InHand(i) <=> Inside(i)
      BY <2>t, Queue DEF TypeOK, InHand, Inside, Held, Queued, Goroutines
    <2>3. \A i \in 1..next :
            /\ freed[i] = (IF reply[i] = "none" THEN 0 ELSE 1)
            /\ reply[i] = "none" <=> InHand(i)
      BY <1>1, <2>1, <2>2 DEF IInv, Settling
    <2>4. {i \in Reqs : InHand(i)} = Hands
      BY <2>2 DEF Hands
    <2>5. /\ met.requestRX = met.responseTX + met.sendError + Cardinality(Hands)
          /\ met.requests + met.dropped + Len(jobs) <= met.requestRX
          /\ Cardinality(Answered) <= met.requests
          /\ Cardinality(Overloaded) + met.requests + Len(jobs) <= met.requestRX
      BY <1>1, <2>t, CountedNumbers, BalanceMeans DEF IInv, Counted
    <2>6. Became({"answered"}) = Cardinality(Answered)
          /\ Became({"overload"}) = Cardinality(Overloaded)
      BY DEF Became, Answered, Overloaded
    <2> QED BY <2>3, <2>4, <2>5, <2>6 DEF SettledOnce
  <1> QED BY <1>1, InvariantHolds, PTL
=============================================================================
