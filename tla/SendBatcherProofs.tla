------------------------- MODULE SendBatcherProofs --------------------------
(***************************************************************************)
(* Proofs about SendBatcher: that a job serves one Send at a time, and     *)
(* that a Send writes at most one datagram, reports what became of it and  *)
(* releases its buffer once; for any senders, jobs and size of the batch.  *)
(***************************************************************************)
EXTENDS SendBatcher, SequenceTheorems, TLAPS

-----------------------------------------------------------------------------
(* The inductive invariant, in named parts.                                *)

Waiting == {"queued", "late"}

InCh(j) == \E k \in 1..Len(ch) : ch[k] = j
InBuf(j) == \E k \in 1..Len(buf) : buf[k] = j

\* The loop waits with room in its batch, and counts what WriteBatch sent only
\* while it flushes.
LoopInv ==
    /\ loop = "idle" => Len(buf) < BatchMax
    /\ out > 0 => Flushing

\* A Send has a job of its own, and has not returned.
Owners ==
    \A s \in Senders :
        /\ pc[s] = "idle" <=> job[s] = NoJob
        /\ pc[s] # "idle" => /\ job[s] \in Jobs \ jobPool
                             /\ payload[job[s]] = s /\ ret[s] = "none"

\* A job is in the channel or in the batch, once.
Unique ==
    /\ \A k, m \in 1..Len(ch) : ch[k] = ch[m] => k = m
    /\ \A k, m \in 1..Len(buf) : buf[k] = buf[m] => k = m
    /\ \A k \in 1..Len(ch), m \in 1..Len(buf) : ch[k] # buf[m]

\* And then a Send waits for its answer, which has not come.
Flight ==
    \A j \in Jobs : InCh(j) \/ InBuf(j) =>
        /\ errCh[j] = NoAnswer
        /\ \E s \in Senders : job[s] = j /\ pc[s] \in Waiting

\* What was written and released for a Send, at each point of its job's way.
Submitted(s) == written[s] = 0 /\ released[s] = 0
Waits(s) ==
    /\ InCh(job[s]) => Submitted(s)
    /\ \A k \in 1..Len(buf) : buf[k] = job[s] =>
         released[s] = 0 /\ written[s] = IF k <= out THEN 1 ELSE 0
    /\ errCh[job[s]] = "ok" => written[s] = 1 /\ released[s] = 1
    /\ errCh[job[s]] = "fail" => written[s] = 0 /\ released[s] = 1
Reports(s) ==
    /\ ret[s] = "ok" => written[s] = 1
    /\ ret[s] \in {"fail", "closed"} => written[s] = 0
    /\ ret[s] # "none" => released[s] = 1

Counts ==
    \A s \in Senders :
        /\ written[s] <= 1 /\ released[s] <= 1
        /\ pc[s] = "submit" => Submitted(s) /\ errCh[job[s]] = NoAnswer
        /\ pc[s] \in Waiting => Waits(s)
        /\ pc[s] = "idle" => Reports(s)

IInv == TypeOK /\ LoopInv /\ Owners /\ Unique /\ Flight /\ Counts

-----------------------------------------------------------------------------
(* Lemmas.                                                                 *)

\* A sequence of jobs as a function of its positions.
LEMMA Elements ==
    ASSUME NEW q \in Seq(Jobs)
    PROVE  /\ Len(q) \in Nat /\ DOMAIN q = 1..Len(q)
           /\ \A k \in 1..Len(q) : q[k] \in Jobs
           /\ \A j \in Jobs :
                /\ Append(q, j) \in Seq(Jobs) /\ Len(Append(q, j)) = Len(q) + 1
                /\ \A k \in 1..Len(q) : Append(q, j)[k] = q[k]
                /\ Append(q, j)[Len(q) + 1] = j
           /\ q # <<>> =>
                /\ Len(q) > 0 /\ Head(q) = q[1] /\ Tail(q) \in Seq(Jobs)
                /\ Len(Tail(q)) = Len(q) - 1
                /\ \A k \in 1..(Len(q) - 1) : Tail(q)[k] = q[k + 1]
  OBVIOUS

\* The capacity of the channel.
LEMMA CapNat == Cap \in Nat /\ Cap > 0 /\ BatchMax \in Nat /\ BatchMax > 0
  BY BatchAssumption DEF Cap

\* No two Sends have one job, and the job of a Send in flight is not in the pool.
LEMMA OneOwner ==
    ASSUME Owners, NEW s \in Senders, NEW q \in Senders,
           pc[s] # "idle", job[q] = job[s]
    PROVE  q = s
  <1>1. job[q] # NoJob
    BY JobAssumption DEF Owners
  <1>2. pc[q] # "idle"
    BY <1>1 DEF Owners
  <1>3. payload[job[s]] = s /\ payload[job[q]] = q
    BY <1>2 DEF Owners
  <1> QED BY <1>3

\* The invariant holds at the start.
LEMMA InitIInv == Init => IInv
  <1> SUFFICES ASSUME Init PROVE IInv
    OBVIOUS
  <1>0. ch = <<>> /\ buf = <<>> /\ Len(ch) = 0 /\ Len(buf) = 0
        /\ ch \in Seq(Jobs) /\ buf \in Seq(Jobs)
    BY DEF Init
  <1>1. TypeOK
    <2>1. 0 \in 0..MaxSends /\ 0 <= Cap /\ 0 <= BatchMax
      BY CapNat, BatchAssumption
    <2>2. stopped \in BOOLEAN /\ closed \in BOOLEAN
      BY DEF Init
    <2> QED BY <1>0, <2>1, <2>2 DEF Init, TypeOK
  <1>2. LoopInv /\ Owners /\ Unique
    BY <1>0, CapNat DEF Init, LoopInv, Owners, Unique
  <1>3. Flight
    BY <1>0 DEF Init, Flight, InCh, InBuf
  <1>4. Counts
    BY DEF Init, Counts, Waiting, Reports
  <1> QED BY <1>1, <1>2, <1>3, <1>4 DEF IInv

-----------------------------------------------------------------------------
(* Conn.Send.                                                              *)

\* A job of the pool is nobody's and on no way.
LEMMA Pooled ==
    ASSUME IInv, NEW j \in jobPool
    PROVE  j \in Jobs /\ ~InCh(j) /\ ~InBuf(j) /\ \A s \in Senders : job[s] # j
  <1>1. j \in Jobs /\ j # NoJob
    BY JobAssumption DEF IInv, TypeOK
  <1>2. \A s \in Senders : job[s] # j
    BY <1>1 DEF IInv, Owners
  <1> QED BY <1>1, <1>2 DEF IInv, Flight

\* A Send begins with a job of the pool.
LEMMA StartStep ==
    ASSUME IInv, NEW s \in Senders, SendStart(s)
    PROVE  IInv'
  <1>t. TypeOK
    BY DEF IInv
  <1>p. PICK j \in jobPool :
          /\ jobPool' = jobPool \ {j}
          /\ errCh' = [errCh EXCEPT ![j] = NoAnswer]
          /\ payload' = [payload EXCEPT ![j] = s]
          /\ job' = [job EXCEPT ![s] = j]
    BY DEF SendStart
  <1>r. /\ pc[s] = "idle" /\ sends[s] < MaxSends
        /\ sends' = [sends EXCEPT ![s] = @ + 1] /\ ret' = [ret EXCEPT ![s] = "none"]
        /\ written' = [written EXCEPT ![s] = 0] /\ released' = [released EXCEPT ![s] = 0]
        /\ pc' = [pc EXCEPT ![s] = "submit"]
        /\ UNCHANGED <<ch, buf, out, loop, stopped, closed, closer>>
    BY DEF SendStart, loopVars, closeVars
  <1>j. j \in Jobs /\ j # NoJob /\ ~InCh(j) /\ ~InBuf(j) /\ \A q \in Senders : job[q] # j
    BY Pooled, JobAssumption
  <1>e. /\ pc'[s] = "submit" /\ job'[s] = j /\ ret'[s] = "none" /\ written'[s] = 0
        /\ released'[s] = 0 /\ payload'[j] = s /\ errCh'[j] = NoAnswer
        /\ \A q \in Senders \ {s} : pc'[q] = pc[q] /\ job'[q] = job[q] /\ ret'[q] = ret[q]
                                      /\ written'[q] = written[q] /\ released'[q] = released[q]
        /\ \A i \in Jobs \ {j} : payload'[i] = payload[i] /\ errCh'[i] = errCh[i]
    BY <1>t, <1>p, <1>r, <1>j DEF TypeOK
  <1>1. TypeOK'
    <2>1. sends' \in [Senders -> 0..MaxSends]
      BY <1>t, <1>r, BatchAssumption DEF TypeOK
    <2> QED BY <1>t, <1>p, <1>r, <1>j, <2>1 DEF TypeOK
  <1>2. LoopInv' /\ Unique'
    BY <1>r DEF IInv, LoopInv, Unique, Flushing
  <1>3. Owners'
    BY <1>p, <1>j, <1>e DEF IInv, Owners
  <1>4. \A i : (InCh(i)' <=> InCh(i)) /\ (InBuf(i)' <=> InBuf(i))
    BY <1>r DEF InCh, InBuf
  <1>5. Flight'
    BY <1>r, <1>j, <1>e, <1>4 DEF IInv, Flight, Waiting
  <1>6. Counts'
    <2>1. ASSUME NEW q \in Senders \ {s}
          PROVE  /\ written'[q] <= 1 /\ released'[q] <= 1
                 /\ pc'[q] = "submit" => Submitted(q)' /\ errCh'[job'[q]] = NoAnswer
                 /\ pc'[q] \in Waiting => Waits(q)'
                 /\ pc'[q] = "idle" => Reports(q)'
      <3>1. pc[q] # "idle" => job[q] \in Jobs \ {j}
        BY <1>j DEF IInv, Owners
      <3>2. written'[q] <= 1 /\ released'[q] <= 1 /\ (pc'[q] = "idle" => Reports(q)')
        BY <1>e DEF IInv, Counts, Reports
      <3>3. pc'[q] = "submit" => Submitted(q)' /\ errCh'[job'[q]] = NoAnswer
        BY <1>e, <3>1 DEF IInv, Counts, Submitted
      <3>4. pc'[q] \in Waiting => Waits(q)'
        BY <1>r, <1>e, <1>4, <3>1 DEF IInv, Counts, Waits, Submitted, Waiting
      <3> QED BY <3>2, <3>3, <3>4
    <2> QED BY <1>e, <2>1 DEF Counts, Submitted, Waiting
  <1> QED BY <1>1, <1>2, <1>3, <1>5, <1>6 DEF IInv

\* A Send whose job is on no way gives it back and reports r.
LEMMA ReturnStep ==
    ASSUME IInv, NEW s \in Senders, pc[s] # "idle",
           NEW r \in Answers \cup {"closed", "ctx"}, Return(s, r),
           ~InCh(job[s]), ~InBuf(job[s]),
           released' \in [Senders -> Nat], released'[s] = 1,
           \A q \in Senders \ {s} : released'[q] = released[q],
           r = "ok" => written[s] = 1, r \in {"fail", "closed"} => written[s] = 0,
           UNCHANGED <<ch, buf, out, loop, stopped, closed, closer, written, sends>>
    PROVE  IInv'
  <1>t. TypeOK
    BY DEF IInv
  <1> DEFINE j == job[s]
  <1>j. j \in Jobs /\ j # NoJob /\ ~InCh(j) /\ ~InBuf(j) /\ payload[j] = s
    BY JobAssumption DEF IInv, Owners
  <1>r. /\ jobPool' = jobPool \cup {j} /\ payload' = [payload EXCEPT ![j] = NoJob]
        /\ errCh' = [errCh EXCEPT ![j] = NoAnswer] /\ job' = [job EXCEPT ![s] = NoJob]
        /\ ret' = [ret EXCEPT ![s] = r] /\ pc' = [pc EXCEPT ![s] = "idle"]
    BY DEF Return
  <1>o. \A q \in Senders \ {s} : job[q] # j
    BY OneOwner DEF IInv
  <1> HIDE DEF j
  <1>e. /\ pc'[s] = "idle" /\ job'[s] = NoJob /\ ret'[s] = r
        /\ \A q \in Senders \ {s} : pc'[q] = pc[q] /\ job'[q] = job[q] /\ ret'[q] = ret[q]
        /\ \A i \in Jobs \ {j} : payload'[i] = payload[i] /\ errCh'[i] = errCh[i]
    BY <1>t, <1>r, <1>j DEF TypeOK
  <1>1. TypeOK'
    BY <1>t, <1>r, <1>j DEF TypeOK
  <1>2. LoopInv' /\ Unique'
    BY DEF IInv, LoopInv, Unique, Flushing
  <1>3. Owners'
    BY <1>r, <1>e, <1>o DEF IInv, Owners
  <1>4. \A i : (InCh(i)' <=> InCh(i)) /\ (InBuf(i)' <=> InBuf(i))
    BY DEF InCh, InBuf
  <1>5. Flight'
    <2> SUFFICES ASSUME NEW i \in Jobs, InCh(i) \/ InBuf(i)
                 PROVE  errCh'[i] = NoAnswer
                        /\ \E q \in Senders : job'[q] = i /\ pc'[q] \in Waiting
      BY <1>4 DEF Flight
    <2>1. i # j
      BY <1>j
    <2>2. PICK q \in Senders : job[q] = i /\ pc[q] \in Waiting
      BY DEF IInv, Flight
    <2>3. q # s
      BY <2>1, <2>2 DEF j
    <2>4. errCh'[i] = NoAnswer
      BY <1>e, <2>1 DEF IInv, Flight
    <2> QED BY <1>e, <2>2, <2>3, <2>4
  <1>6. Counts'
    <2>1. ASSUME NEW q \in Senders \ {s}
          PROVE  /\ written'[q] <= 1 /\ released'[q] <= 1
                 /\ pc'[q] = "submit" => Submitted(q)' /\ errCh'[job'[q]] = NoAnswer
                 /\ pc'[q] \in Waiting => Waits(q)'
                 /\ pc'[q] = "idle" => Reports(q)'
      <3>1. pc[q] # "idle" => job[q] \in Jobs \ {j}
        BY <1>o DEF IInv, Owners
      <3>2. written'[q] <= 1 /\ released'[q] <= 1 /\ (pc'[q] = "idle" => Reports(q)')
        BY <1>e DEF IInv, Counts, Reports
      <3>3. pc'[q] = "submit" => Submitted(q)' /\ errCh'[job'[q]] = NoAnswer
        BY <1>e, <3>1 DEF IInv, Counts, Submitted
      <3>4. pc'[q] \in Waiting => Waits(q)'
        BY <1>e, <1>4, <3>1 DEF IInv, Counts, Waits, Submitted, Waiting
      <3> QED BY <3>2, <3>3, <3>4
    <2>2. written[s] <= 1
      BY DEF IInv, Counts
    <2> QED BY <1>e, <2>1, <2>2 DEF Counts, Reports, Waiting
  <1> QED BY <1>1, <1>2, <1>3, <1>5, <1>6 DEF IInv

\* submit is refused, and releases the buffer itself.
LEMMA RefusedStep ==
    ASSUME IInv, NEW s \in Senders, SubmitRefused(s)
    PROVE  IInv'
  <1>1. PICK r \in {"closed", "ctx"} : Return(s, r)
    BY DEF SubmitRefused
  <1>2. /\ pc[s] = "submit" /\ released' = [released EXCEPT ![s] = @ + 1]
        /\ UNCHANGED <<ch, buf, out, loop, stopped, closed, closer, written, sends>>
    BY DEF SubmitRefused, loopVars, closeVars
  <1>3. written[s] = 0 /\ released[s] = 0 /\ job[s] \in Jobs
    BY <1>2 DEF IInv, Counts, Submitted, Owners
  <1>4. released' \in [Senders -> Nat] /\ released'[s] = 1
        /\ \A q \in Senders \ {s} : released'[q] = released[q]
    BY <1>2, <1>3 DEF IInv, TypeOK
  <1>5. ~InCh(job[s]) /\ ~InBuf(job[s])
    <2>1. \A q \in Senders : job[q] = job[s] => q = s
      BY <1>2, OneOwner DEF IInv
    <2> QED BY <1>2, <1>3, <2>1 DEF IInv, Flight, Waiting
  <1> QED BY <1>1, <1>2, <1>3, <1>4, <1>5, ReturnStep

\* submit takes its answer, and Send returns.
LEMMA AnsweredStep ==
    ASSUME IInv, NEW s \in Senders, TakeAnswer(s)
    PROVE  IInv'
  <1> DEFINE r == IF pc[s] = "late" /\ errCh[job[s]] = "ok" THEN "ctx" ELSE errCh[job[s]]
  <1>1. /\ pc[s] \in Waiting /\ errCh[job[s]] # NoAnswer /\ Return(s, r)
        /\ UNCHANGED <<ch, buf, out, loop, stopped, closed, closer, written, released, sends>>
    BY DEF TakeAnswer, loopVars, closeVars, Waiting
  <1>2. job[s] \in Jobs /\ errCh[job[s]] \in Answers
    BY <1>1 DEF IInv, Owners, TypeOK, Waiting
  <1>3. Waits(s)
    BY <1>1 DEF IInv, Counts
  <1>4. ~InCh(job[s]) /\ ~InBuf(job[s])
    BY <1>1, <1>2 DEF IInv, Flight
  <1>5. /\ r \in Answers \cup {"closed", "ctx"} /\ released[s] = 1
        /\ r = "ok" => written[s] = 1
        /\ r \in {"fail", "closed"} => written[s] = 0
    BY <1>2, <1>3 DEF Waits, Answers
  <1>6. released \in [Senders -> Nat] /\ pc[s] # "idle"
    BY <1>1 DEF IInv, TypeOK, Waiting
  <1> HIDE DEF r
  <1> QED BY <1>1, <1>4, <1>5, <1>6, ReturnStep

\* submit queues the job.
LEMMA QueueStep ==
    ASSUME IInv, NEW s \in Senders, SubmitQueue(s)
    PROVE  IInv'
  <1>t. TypeOK
    BY DEF IInv
  <1> DEFINE j == job[s]
  <1>r. /\ pc[s] = "submit" /\ Len(ch) < Cap /\ ch' = Append(ch, j)
        /\ pc' = [pc EXCEPT ![s] = "queued"]
        /\ UNCHANGED <<jobPool, payload, errCh, buf, out, loop, stopped, closed, closer, job,
                       ret, written, released, sends>>
    BY DEF SubmitQueue, jobVars, loopVars, closeVars
  <1>j. j \in Jobs /\ written[s] = 0 /\ released[s] = 0 /\ errCh[j] = NoAnswer
    BY <1>r DEF IInv, Owners, Counts, Submitted
  <1>o. \A q \in Senders : job[q] = j => q = s
    BY <1>r, OneOwner DEF IInv
  <1>f. ~InCh(j) /\ ~InBuf(j)
    BY <1>r, <1>j, <1>o DEF IInv, Flight, Waiting
  <1>n. j = job[s]
    OBVIOUS
  <1> HIDE DEF j
  <1>e. pc'[s] = "queued" /\ \A q \in Senders \ {s} : pc'[q] = pc[q]
    BY <1>t, <1>r DEF TypeOK
  <1>q. /\ Len(ch) \in Nat /\ ch' \in Seq(Jobs) /\ Len(ch') = Len(ch) + 1
        /\ \A k \in 1..Len(ch) : ch'[k] = ch[k]
        /\ ch'[Len(ch) + 1] = j
    BY <1>t, <1>r, <1>j, Elements DEF TypeOK
  <1>1. TypeOK'
    <2>1. Len(ch') <= Cap
      BY <1>r, <1>q, CapNat
    <2> QED BY <1>t, <1>r, <1>q, <2>1 DEF TypeOK
  <1>2. LoopInv' /\ Owners'
    BY <1>r, <1>e DEF IInv, LoopInv, Owners, Flushing
  <1>3. \A i : InCh(i)' <=> InCh(i) \/ i = j
    <2>1. \A k \in 1..Len(ch') : k \in 1..Len(ch) \/ k = Len(ch) + 1
      BY <1>q
    <2>2. \A k \in 1..Len(ch) : k \in 1..Len(ch')
      BY <1>q
    <2>3. Len(ch) + 1 \in 1..Len(ch')
      BY <1>q
    <2> QED BY <1>q, <2>1, <2>2, <2>3 DEF InCh
  <1>4. \A i : InBuf(i)' <=> InBuf(i)
    BY <1>r DEF InBuf
  <1>5. Unique'
    <2>1. \A k, m \in 1..Len(ch') : ch'[k] = ch'[m] => k = m
      <3>1. \A k \in 1..Len(ch') : k \in 1..Len(ch) \/ k = Len(ch) + 1
        BY <1>q
      <3> QED BY <1>q, <1>f, <3>1 DEF IInv, Unique, InCh
    <2>2. \A k \in 1..Len(ch'), m \in 1..Len(buf) : ch'[k] # buf[m]
      <3>1. \A k \in 1..Len(ch') : k \in 1..Len(ch) \/ k = Len(ch) + 1
        BY <1>q
      <3> QED BY <1>q, <1>f, <3>1 DEF IInv, Unique, InBuf
    <2> QED BY <1>r, <2>1, <2>2 DEF IInv, Unique
  <1>6. Flight'
    BY <1>r, <1>j, <1>n, <1>e, <1>3, <1>4 DEF IInv, Flight, Waiting
  <1>7. Counts'
    <2>1. ASSUME NEW q \in Senders \ {s}
          PROVE  /\ written'[q] <= 1 /\ released'[q] <= 1
                 /\ pc'[q] = "submit" => Submitted(q)' /\ errCh'[job'[q]] = NoAnswer
                 /\ pc'[q] \in Waiting => Waits(q)'
                 /\ pc'[q] = "idle" => Reports(q)'
      <3>1. /\ written'[q] <= 1 /\ released'[q] <= 1 /\ (pc'[q] = "idle" => Reports(q)')
            /\ pc'[q] = "submit" => Submitted(q)' /\ errCh'[job'[q]] = NoAnswer
        BY <1>r, <1>e DEF IInv, Counts, Reports, Submitted
      <3>2. pc'[q] \in Waiting => Waits(q)'
        BY <1>r, <1>e, <1>o, <1>3, <1>4 DEF IInv, Counts, Waits, Submitted, Waiting
      <3> QED BY <3>1, <3>2
    <2>2. Waits(s)'
      BY <1>r, <1>j, <1>n, <1>f DEF Waits, Submitted, InBuf, NoAnswer
    <2>3. written'[s] <= 1 /\ released'[s] <= 1
      BY <1>r, <1>j
    <2> QED BY <1>e, <2>1, <2>2, <2>3 DEF Counts, Waiting
  <1> QED BY <1>1, <1>2, <1>5, <1>6, <1>7 DEF IInv

\* A step of the loop's control, of a context or of Close moves no job.
LEMMA ControlStep ==
    ASSUME IInv, TypeOK', LoopInv',
           \A s \in Senders : pc'[s] = pc[s] \/ (pc[s] \in Waiting /\ pc'[s] \in Waiting),
           UNCHANGED <<jobPool, payload, errCh, ch, buf, out, job, ret, written, released>>
    PROVE  IInv'
  <1>1. \A i : (InCh(i)' <=> InCh(i)) /\ (InBuf(i)' <=> InBuf(i))
    BY DEF InCh, InBuf
  <1>2. Owners' /\ Unique'
    BY DEF IInv, Owners, Unique, Waiting
  <1>3. Flight'
    BY <1>1 DEF IInv, Flight, Waiting
  <1>4. \A s \in Senders :
          /\ Submitted(s)' <=> Submitted(s)
          /\ Waits(s)' <=> Waits(s)
          /\ Reports(s)' <=> Reports(s)
    BY <1>1 DEF Submitted, Waits, Reports
  <1>5. Counts'
    BY <1>4 DEF IInv, Counts, Waiting
  <1> QED BY <1>2, <1>3, <1>5 DEF IInv

-----------------------------------------------------------------------------
(* The loop.                                                               *)

\* A sequence cut in two, its first part appended to another.
LEMMA Splits ==
    ASSUME NEW b \in Seq(Jobs), NEW c \in Seq(Jobs), NEW n \in 0..Len(c)
    PROVE  /\ b \o SubSeq(c, 1, n) \in Seq(Jobs)
           /\ Len(b \o SubSeq(c, 1, n)) = Len(b) + n
           /\ \A k \in 1..Len(b) : (b \o SubSeq(c, 1, n))[k] = b[k]
           /\ \A k \in 1..n : (b \o SubSeq(c, 1, n))[Len(b) + k] = c[k]
           /\ SubSeq(c, n + 1, Len(c)) \in Seq(Jobs)
           /\ Len(SubSeq(c, n + 1, Len(c))) = Len(c) - n
           /\ \A k \in 1..(Len(c) - n) : SubSeq(c, n + 1, Len(c))[k] = c[n + k]
  <1>1. Len(b) \in Nat /\ Len(c) \in Nat /\ n \in Nat /\ n <= Len(c)
    OBVIOUS
  <1> DEFINE d == SubSeq(c, 1, n)
             e == SubSeq(c, n + 1, Len(c))
  <1>c. \A k \in 1..Len(c) : c[k] \in Jobs
    BY Elements
  <1>2. /\ d \in Seq(Jobs) /\ Len(d) = n /\ \A k \in 1..n : d[k] = c[k]
    <2>1. \A k \in 1..n : c[k] \in Jobs
      BY <1>1, <1>c
    <2>2. /\ d \in Seq(Jobs) /\ Len(d) = (IF 1 <= n THEN n - 1 + 1 ELSE 0)
          /\ \A k \in 1..(n - 1 + 1) : d[k] = c[1 + k - 1]
      BY <1>1, <2>1, SubSeqProperties
    <2>3. n - 1 + 1 = n /\ \A k \in 1..n : 1 + k - 1 = k
      BY <1>1
    <2> HIDE DEF d
    <2> QED BY <1>1, <2>2, <2>3
  <1>3. /\ e \in Seq(Jobs) /\ Len(e) = Len(c) - n
        /\ \A k \in 1..(Len(c) - n) : e[k] = c[n + k]
    <2>1. \A k \in (n + 1)..Len(c) : c[k] \in Jobs
      BY <1>1, <1>c
    <2>2. /\ e \in Seq(Jobs)
          /\ Len(e) = (IF n + 1 <= Len(c) THEN Len(c) - (n + 1) + 1 ELSE 0)
          /\ \A k \in 1..(Len(c) - (n + 1) + 1) : e[k] = c[(n + 1) + k - 1]
      BY <1>1, <2>1, SubSeqProperties
    <2> HIDE DEF e
    <2>4. Len(e) = Len(c) - n
      BY <1>1, <2>2
    <2>5. ASSUME NEW k \in 1..(Len(c) - n) PROVE e[k] = c[n + k]
      <3>1. k \in 1..(Len(c) - (n + 1) + 1) /\ (n + 1) + k - 1 = n + k
        BY <1>1
      <3>2. e[k] = c[(n + 1) + k - 1]
        BY <2>2, <3>1
      <3> QED BY <3>1, <3>2
    <2> QED BY <2>2, <2>4, <2>5
  <1> HIDE DEF d, e
  <1>4. /\ b \o d \in Seq(Jobs) /\ Len(b \o d) = Len(b) + n
        /\ \A k \in 1..Len(b) : (b \o d)[k] = b[k]
        /\ \A k \in 1..n : (b \o d)[Len(b) + k] = d[k]
    <2>1. /\ b \o d \in Seq(Jobs) /\ Len(b \o d) = Len(b) + Len(d)
          /\ \A i \in 1..(Len(b) + Len(d)) :
               (b \o d)[i] = IF i <= Len(b) THEN b[i] ELSE d[i - Len(b)]
      BY <1>2, ConcatProperties
    <2>2. ASSUME NEW k \in 1..Len(b) PROVE (b \o d)[k] = b[k]
      <3>1. k \in 1..(Len(b) + Len(d)) /\ k <= Len(b)
        BY <1>1, <1>2
      <3> QED BY <2>1, <3>1
    <2>3. ASSUME NEW k \in 1..n PROVE (b \o d)[Len(b) + k] = d[k]
      <3>1. /\ Len(b) + k \in 1..(Len(b) + Len(d)) /\ ~(Len(b) + k <= Len(b))
            /\ (Len(b) + k) - Len(b) = k
        BY <1>1, <1>2
      <3>2. (b \o d)[Len(b) + k] = d[(Len(b) + k) - Len(b)]
        BY <2>1, <3>1
      <3> QED BY <3>1, <3>2
    <2> QED BY <1>2, <2>1, <2>2, <2>3
  <1> QED BY <1>2, <1>3, <1>4 DEF d, e

\* What a receive of the loop does: some jobs move from the head of ch to the
\* end of buf, which keeps to its bound.
LEMMA TakeEffect ==
    ASSUME IInv, LoopTake
    PROVE  \E n \in 1..Len(ch) :
             /\ buf' \in Seq(Jobs) /\ Len(buf') = Len(buf) + n /\ Len(buf') <= BatchMax
             /\ \A k \in 1..Len(buf) : buf'[k] = buf[k]
             /\ \A k \in 1..n : buf'[Len(buf) + k] = ch[k]
             /\ ch' \in Seq(Jobs) /\ Len(ch') = Len(ch) - n
             /\ \A k \in 1..(Len(ch) - n) : ch'[k] = ch[n + k]
             /\ loop' = IF Len(buf') >= BatchMax THEN "flush" ELSE "idle"
  <1>t. TypeOK /\ ch # <<>> /\ Len(buf) < BatchMax
    BY DEF IInv, LoopTake, LoopInv
  <1> DEFINE b == Append(buf, Head(ch))
             c == Tail(ch)
             n == IF Len(b) + Len(c) <= BatchMax THEN Len(c) ELSE BatchMax - Len(b)
  <1>1. /\ Len(ch) \in Nat /\ Len(ch) > 0 /\ Len(buf) \in Nat /\ ch[1] \in Jobs
        /\ c \in Seq(Jobs) /\ Len(c) = Len(ch) - 1
        /\ \A k \in 1..(Len(ch) - 1) : c[k] = ch[k + 1]
        /\ b \in Seq(Jobs) /\ Len(b) = Len(buf) + 1
        /\ \A k \in 1..Len(buf) : b[k] = buf[k]
        /\ b[Len(buf) + 1] = ch[1]
    BY <1>t, Elements DEF TypeOK
  <1>2. /\ buf' = b \o SubSeq(c, 1, n) /\ ch' = SubSeq(c, n + 1, Len(c))
        /\ loop' = IF Len(buf') >= BatchMax THEN "flush" ELSE "idle"
    BY DEF LoopTake, Drained
  <1> HIDE DEF b, c
  <1>3. n \in 0..Len(c) /\ Len(b) + n <= BatchMax
    <2>1. Len(b) \in Nat /\ Len(c) \in Nat /\ Len(b) <= BatchMax
      BY <1>t, <1>1, CapNat
    <2>2. CASE Len(b) + Len(c) <= BatchMax
      BY <2>1, <2>2
    <2>3. CASE ~(Len(b) + Len(c) <= BatchMax)
      BY <2>1, <2>3, CapNat
    <2> QED BY <2>2, <2>3
  <1> HIDE DEF n
  <1>4. /\ buf' \in Seq(Jobs) /\ Len(buf') = Len(b) + n
        /\ \A k \in 1..Len(b) : buf'[k] = b[k]
        /\ \A k \in 1..n : buf'[Len(b) + k] = c[k]
        /\ ch' \in Seq(Jobs) /\ Len(ch') = Len(c) - n
        /\ \A k \in 1..(Len(c) - n) : ch'[k] = c[n + k]
    <2>1. b \in Seq(Jobs) /\ c \in Seq(Jobs) /\ n \in 0..Len(c)
      BY <1>1, <1>3
    <2> QED BY <1>2, <2>1, Splits
  <1>5. n + 1 \in 1..Len(ch) /\ Len(buf') = Len(buf) + (n + 1) /\ Len(ch') = Len(ch) - (n + 1)
        /\ n \in Nat
    BY <1>1, <1>3, <1>4
  <1>6. \A k \in 1..Len(buf) : buf'[k] = buf[k]
    <2>1. \A k \in 1..Len(buf) : k \in 1..Len(b)
      BY <1>1
    <2> QED BY <1>1, <1>4, <2>1
  <1>7. ASSUME NEW k \in 1..(n + 1) PROVE buf'[Len(buf) + k] = ch[k]
    <2>1. CASE k = 1
      <3>1. Len(buf) + 1 \in 1..Len(b)
        BY <1>1
      <3> QED BY <1>1, <1>4, <2>1, <3>1
    <2>2. CASE k > 1
      <3>1. k - 1 \in 1..n /\ k - 1 \in 1..(Len(ch) - 1) /\ Len(b) + (k - 1) = Len(buf) + k
            /\ (k - 1) + 1 = k
        BY <1>1, <1>5, <2>2
      <3>2. buf'[Len(b) + (k - 1)] = c[k - 1] /\ c[k - 1] = ch[(k - 1) + 1]
        BY <1>1, <1>4, <3>1
      <3> QED BY <3>1, <3>2
    <2> QED BY <1>5, <2>1, <2>2
  <1>8. ASSUME NEW k \in 1..(Len(ch) - (n + 1)) PROVE ch'[k] = ch[(n + 1) + k]
    <2>1. k \in 1..(Len(c) - n) /\ n + k \in 1..(Len(ch) - 1) /\ (n + k) + 1 = (n + 1) + k
      BY <1>1, <1>5
    <2> QED BY <1>1, <1>4, <2>1
  <1>9. Len(buf') <= BatchMax
    BY <1>3, <1>4
  <1> QED BY <1>2, <1>4, <1>5, <1>6, <1>7, <1>8, <1>9

\* case job := <-b.ch and drain.
LEMMA TakeStep ==
    ASSUME IInv, LoopTake
    PROVE  IInv'
  <1>t. TypeOK /\ Len(ch) \in Nat /\ Len(buf) \in Nat
    BY Elements DEF IInv, TypeOK
  <1>r. /\ loop = "idle"
        /\ UNCHANGED <<jobPool, payload, errCh, out, stopped, closed, closer, pc, job, ret,
                       sends, written, released>>
    BY DEF LoopTake, jobVars, closeVars, sendVars
  <1>q. PICK n \in 1..Len(ch) :
             /\ buf' \in Seq(Jobs) /\ Len(buf') = Len(buf) + n /\ Len(buf') <= BatchMax
             /\ \A k \in 1..Len(buf) : buf'[k] = buf[k]
             /\ \A k \in 1..n : buf'[Len(buf) + k] = ch[k]
             /\ ch' \in Seq(Jobs) /\ Len(ch') = Len(ch) - n
             /\ \A k \in 1..(Len(ch) - n) : ch'[k] = ch[n + k]
             /\ loop' = IF Len(buf') >= BatchMax THEN "flush" ELSE "idle"
    BY TakeEffect
  <1>o. out = 0
    BY <1>t, <1>r DEF IInv, LoopInv, Flushing, TypeOK
  <1>1. TypeOK'
    <2>1. Len(ch') <= Cap
      BY <1>t, <1>q, CapNat DEF TypeOK
    <2>2. out' \in 0..Len(buf')
      BY <1>t, <1>r, <1>o, <1>q
    <2> QED BY <1>t, <1>r, <1>q, <2>1, <2>2 DEF TypeOK
  <1>2. LoopInv' /\ Owners'
    BY <1>t, <1>r, <1>q, <1>o, CapNat DEF IInv, LoopInv, Owners, Flushing
  \* Where a job of the new batch and of the new channel was.
  <1>b. \A k \in 1..Len(buf') :
          \/ k \in 1..Len(buf) /\ buf'[k] = buf[k]
          \/ k - Len(buf) \in 1..n /\ k - Len(buf) \in 1..Len(ch) /\ buf'[k] = ch[k - Len(buf)]
    <2> SUFFICES ASSUME NEW k \in 1..Len(buf'), k > Len(buf)
                 PROVE  k - Len(buf) \in 1..n /\ k - Len(buf) \in 1..Len(ch)
                        /\ buf'[k] = ch[k - Len(buf)]
      BY <1>t, <1>q
    <2>1. k - Len(buf) \in 1..n /\ k - Len(buf) \in 1..Len(ch) /\ Len(buf) + (k - Len(buf)) = k
      BY <1>t, <1>q
    <2> QED BY <1>q, <2>1
  <1>c. \A k \in 1..Len(ch') : n + k \in 1..Len(ch) /\ n + k > n /\ ch'[k] = ch[n + k]
    BY <1>t, <1>q
  <1>3. Unique'
    <2>1. ASSUME NEW k \in 1..Len(ch'), NEW m \in 1..Len(ch'), ch'[k] = ch'[m] PROVE k = m
      <3>1. n + k = n + m
        BY <1>c, <2>1 DEF IInv, Unique
      <3> QED BY <1>t, <1>q, <3>1
    <2>2. ASSUME NEW k \in 1..Len(buf'), NEW m \in 1..Len(buf'), buf'[k] = buf'[m] PROVE k = m
      <3>1. CASE k \in 1..Len(buf) /\ m \in 1..Len(buf)
        BY <1>q, <2>2, <3>1 DEF IInv, Unique
      <3>2. CASE k \in 1..Len(buf) /\ m \notin 1..Len(buf)
        BY <1>b, <2>2, <3>2 DEF IInv, Unique
      <3>3. CASE k \notin 1..Len(buf) /\ m \in 1..Len(buf)
        BY <1>b, <2>2, <3>3 DEF IInv, Unique
      <3>4. CASE k \notin 1..Len(buf) /\ m \notin 1..Len(buf)
        <4>1. k - Len(buf) = m - Len(buf)
          BY <1>b, <2>2, <3>4 DEF IInv, Unique
        <4> QED BY <1>t, <4>1
      <3> QED BY <3>1, <3>2, <3>3, <3>4
    <2>3. ASSUME NEW k \in 1..Len(ch'), NEW m \in 1..Len(buf') PROVE ch'[k] # buf'[m]
      <3>1. CASE m \in 1..Len(buf)
        <4>1. n + k \in 1..Len(ch) /\ ch'[k] = ch[n + k] /\ buf'[m] = buf[m]
          BY <1>q, <1>c, <3>1
        <4> QED BY <3>1, <4>1 DEF IInv, Unique
      <3>2. CASE m \notin 1..Len(buf)
        <4>1. m - Len(buf) \in 1..Len(ch) /\ buf'[m] = ch[m - Len(buf)] /\ m - Len(buf) # n + k
          BY <1>t, <1>b, <1>c, <3>2
        <4> QED BY <1>c, <4>1 DEF IInv, Unique
      <3> QED BY <3>1, <3>2
    <2> QED BY <2>1, <2>2, <2>3 DEF Unique
  <1>4. \A i : InCh(i)' => InCh(i)
    BY <1>c DEF InCh
  <1>5. \A i : InBuf(i)' => InBuf(i) \/ InCh(i)
    BY <1>b DEF InCh, InBuf
  <1>6. Flight'
    BY <1>r, <1>4, <1>5 DEF IInv, Flight
  <1>7. ASSUME NEW s \in Senders, pc[s] \in Waiting PROVE Waits(s)'
    <2>1. Waits(s)
      BY <1>7 DEF IInv, Counts
    <2>2. ASSUME NEW k \in 1..Len(buf'), buf'[k] = job[s]
          PROVE  released[s] = 0 /\ written[s] = 0
      <3>1. CASE k \in 1..Len(buf)
        <4>1. ~(k <= out) /\ buf[k] = job[s]
          BY <1>t, <1>o, <1>q, <2>2, <3>1
        <4> QED BY <2>1, <3>1, <4>1 DEF Waits
      <3>2. CASE k \notin 1..Len(buf)
        <4>1. InCh(job[s])
          BY <1>b, <2>2, <3>2 DEF InCh
        <4> QED BY <2>1, <4>1 DEF Waits, Submitted
      <3> QED BY <3>1, <3>2
    <2>3. \A k \in 1..Len(buf') : ~(k <= out)
      BY <1>t, <1>o, <1>q
    <2> QED BY <1>r, <1>4, <2>1, <2>2, <2>3 DEF Waits, Submitted
  <1>8. Counts'
    BY <1>r, <1>7 DEF IInv, Counts, Submitted, Reports
  <1> QED BY <1>1, <1>2, <1>3, <1>6, <1>8 DEF IInv

\* The sender whose datagram a job of the batch carries waits for its answer.
LEMMA Carrier ==
    ASSUME IInv, NEW k \in 1..Len(buf)
    PROVE  /\ buf[k] \in Jobs /\ payload[buf[k]] \in Senders
           /\ job[payload[buf[k]]] = buf[k] /\ pc[payload[buf[k]]] \in Waiting
  <1>1. buf[k] \in Jobs /\ InBuf(buf[k])
    BY Elements DEF IInv, TypeOK, InBuf
  <1>2. PICK q \in Senders : job[q] = buf[k] /\ pc[q] \in Waiting
    BY <1>1 DEF IInv, Flight
  <1>3. payload[buf[k]] = q
    BY <1>2 DEF IInv, Owners, Waiting
  <1> QED BY <1>1, <1>2, <1>3

\* writePayloadsBatch writes the datagrams at the head of the batch.
LEMMA BatchStep ==
    ASSUME IInv, WriteBatch
    PROVE  IInv'
  <1>t. TypeOK /\ Len(buf) \in Nat
    BY Elements DEF IInv, TypeOK
  <1>r. /\ Flushing /\ out = 0
        /\ UNCHANGED <<jobPool, payload, errCh, ch, buf, loop, stopped, closed, closer, pc, job,
                       ret, sends, released>>
    BY DEF WriteBatch, jobVars, closeVars, sendVars
  <1>n. PICK n \in 0..Len(buf) :
          /\ out' = n
          /\ written' = [s \in Senders |-> written[s] + (IF s \in Sent(n) THEN 1 ELSE 0)]
    BY DEF WriteBatch
  <1>w. \A s \in Senders : written[s] \in Nat
    BY <1>t DEF TypeOK
  <1>s. ASSUME NEW s \in Senders, s \in Sent(n)
        PROVE  \E k \in 1..n : k \in 1..Len(buf) /\ job[s] = buf[k] /\ pc[s] \in Waiting
    <2>1. PICK k \in 1..n : s = payload[buf[k]]
      BY <1>s DEF Sent
    <2>2. k \in 1..Len(buf)
      BY <1>t
    <2> QED BY <2>1, <2>2, Carrier
  <1>a. ASSUME NEW s \in Senders, s \in Sent(n) PROVE written[s] = 0 /\ written'[s] = 1
    <2>1. PICK k \in 1..n : k \in 1..Len(buf) /\ job[s] = buf[k] /\ pc[s] \in Waiting
      BY <1>a, <1>s
    <2>2. ~(k <= out)
      BY <1>r
    <2>3. written[s] = 0
      BY <2>1, <2>2 DEF IInv, Counts, Waits
    <2> QED BY <1>a, <1>n, <2>3
  <1>b. ASSUME NEW s \in Senders, s \notin Sent(n) PROVE written'[s] = written[s]
    BY <1>b, <1>n, <1>w
  <1>1. TypeOK'
    <2>1. written' \in [Senders -> Nat]
      BY <1>n, <1>w
    <2> QED BY <1>t, <1>r, <1>n, <2>1 DEF TypeOK
  <1>2. LoopInv' /\ Owners' /\ Unique'
    BY <1>r DEF IInv, LoopInv, Owners, Unique, Flushing
  <1>3. \A i : (InCh(i)' <=> InCh(i)) /\ (InBuf(i)' <=> InBuf(i))
    BY <1>r DEF InCh, InBuf
  <1>4. Flight'
    BY <1>r, <1>3 DEF IInv, Flight
  <1>5. ASSUME NEW s \in Senders, pc[s] \in Waiting PROVE Waits(s)'
    <2>w. Waits(s) /\ job[s] \in Jobs /\ payload[job[s]] = s
      BY <1>5 DEF IInv, Counts, Owners, Waiting
    <2>1. CASE s \in Sent(n)
      <3>1. PICK m \in 1..n : m \in 1..Len(buf) /\ job[s] = buf[m]
        BY <2>1, <1>s
      <3>2. InBuf(job[s]) /\ ~InCh(job[s])
        BY <3>1 DEF IInv, Unique, InBuf, InCh
      <3>3. errCh[job[s]] = NoAnswer
        BY <2>w, <3>2 DEF IInv, Flight
      <3>4. \A k \in 1..Len(buf) : buf[k] = job[s] => released[s] = 0 /\ k <= n
        BY <2>w, <3>1 DEF IInv, Unique, Waits
      <3> QED BY <1>r, <1>n, <1>a, <1>3, <2>1, <3>2, <3>3, <3>4 DEF Waits, NoAnswer
    <2>2. CASE s \notin Sent(n)
      <3>1. \A k \in 1..Len(buf) : buf[k] = job[s] => ~(k <= n)
        BY <1>t, <2>w, <2>2 DEF Sent
      <3>2. \A k \in 1..Len(buf) : ~(k <= out)
        BY <1>r, <1>t
      <3> QED BY <1>r, <1>n, <1>b, <1>3, <2>w, <2>2, <3>1, <3>2 DEF Waits, Submitted
    <2> QED BY <2>1, <2>2
  <1>6. ASSUME NEW s \in Senders, pc[s] \notin Waiting PROVE written'[s] = written[s]
    BY <1>6, <1>s, <1>b
  <1>7. \A s \in Senders : written'[s] <= 1
    BY <1>a, <1>b DEF IInv, Counts
  <1>8. Counts'
    <2> SUFFICES ASSUME NEW s \in Senders
                 PROVE  /\ pc[s] = "submit" => Submitted(s)' /\ errCh[job[s]] = NoAnswer
                        /\ pc[s] = "idle" => Reports(s)'
                        /\ released[s] <= 1
      BY <1>r, <1>5, <1>7 DEF Counts
    <2>1. pc[s] \in {"submit", "idle"} => written'[s] = written[s]
      BY <1>6 DEF Waiting
    <2> QED BY <1>r, <2>1 DEF IInv, Counts, Submitted, Reports
  <1> QED BY <1>1, <1>2, <1>4, <1>8 DEF IInv

\* The head of the batch is answered with r, its datagram written if r is ok.
LEMMA AnswerStep ==
    ASSUME IInv, Flushing, buf # <<>>, NEW r \in Answers, AnswerHead(r),
           out' \in 0..(Len(buf) - 1),
           \A k \in 1..(Len(buf) - 1) : k <= out' <=> k + 1 <= out,
           written' \in [Senders -> Nat],
           written'[payload[Head(buf)]] = IF r = "ok" THEN 1 ELSE 0,
           \A s \in Senders \ {payload[Head(buf)]} : written'[s] = written[s],
           UNCHANGED <<jobPool, payload, ch, loop, stopped, closed, closer, pc, job, ret, sends>>
    PROVE  IInv'
  <1>t. TypeOK /\ Len(buf) \in Nat /\ Len(buf) > 0
    BY Elements DEF IInv, TypeOK
  <1>g. PICK h : h = Head(buf)
    OBVIOUS
  <1>p. PICK o : o = payload[h]
    OBVIOUS
  <1>h. h = buf[1] /\ 1 \in 1..Len(buf)
    BY <1>t, <1>g, Elements DEF TypeOK
  <1>o. h \in Jobs /\ o \in Senders /\ job[o] = h /\ pc[o] \in Waiting
    BY <1>h, <1>p, Carrier
  <1>r. /\ errCh' = [errCh EXCEPT ![h] = r] /\ buf' = Tail(buf)
        /\ released' = [s \in Senders |-> released[s] + (IF s = o THEN 1 ELSE 0)]
    BY <1>g, <1>p DEF AnswerHead
  <1>w. /\ written'[o] = IF r = "ok" THEN 1 ELSE 0
        /\ \A s \in Senders \ {o} : written'[s] = written[s]
    BY <1>g, <1>p
  <1>b. /\ buf' \in Seq(Jobs) /\ Len(buf') = Len(buf) - 1
        /\ \A k \in 1..Len(buf') : k + 1 \in 1..Len(buf) /\ buf'[k] = buf[k + 1]
    <2>1. /\ buf' \in Seq(Jobs) /\ Len(buf') = Len(buf) - 1
          /\ \A k \in 1..(Len(buf) - 1) : buf'[k] = buf[k + 1]
      BY <1>t, <1>r, Elements DEF TypeOK
    <2>2. \A k \in 1..Len(buf') : k + 1 \in 1..Len(buf)
      BY <1>t, <2>1
    <2> QED BY <2>1, <2>2
  <1>e. errCh'[h] = r /\ \A i \in Jobs \ {h} : errCh'[i] = errCh[i]
    BY <1>t, <1>r, <1>o DEF TypeOK
  <1>l. released'[o] = 1 /\ \A s \in Senders \ {o} : released'[s] = released[s]
    <2>1. released[o] = 0
      BY <1>h, <1>o DEF IInv, Counts, Waits
    <2>2. \A s \in Senders : released[s] \in Nat
      BY <1>t DEF TypeOK
    <2> QED BY <1>r, <1>o, <2>1, <2>2
  <1>f. ~InCh(h) /\ ~InBuf(h)'
    <2>1. ~InCh(h)
      BY <1>h DEF IInv, Unique, InCh
    <2>2. ASSUME NEW k \in 1..Len(buf'), buf'[k] = h PROVE FALSE
      <3>1. k + 1 \in 1..Len(buf) /\ buf[k + 1] = buf[1]
        BY <1>b, <1>h, <2>2
      <3>2. k + 1 = 1
        BY <1>h, <3>1 DEF IInv, Unique
      <3> QED BY <1>b, <1>t, <3>2
    <2> QED BY <2>1, <2>2 DEF InBuf
  <1>1. TypeOK'
    <2>1. released' \in [Senders -> Nat]
      BY <1>t, <1>r DEF TypeOK
    <2>2. errCh' \in [Jobs -> Answers \cup {NoAnswer}]
      BY <1>t, <1>r, <1>o DEF TypeOK
    <2>3. Len(buf') <= BatchMax /\ out' \in 0..Len(buf')
      BY <1>t, <1>b, CapNat DEF TypeOK
    <2> QED BY <1>t, <1>b, <2>1, <2>2, <2>3 DEF TypeOK
  <1>2. LoopInv' /\ Owners'
    BY DEF IInv, LoopInv, Owners, Flushing
  <1>3. Unique'
    <2>1. ASSUME NEW k \in 1..Len(buf'), NEW m \in 1..Len(buf'), buf'[k] = buf'[m] PROVE k = m
      <3>1. k + 1 = m + 1
        <4>1. k + 1 \in 1..Len(buf) /\ m + 1 \in 1..Len(buf) /\ buf[k + 1] = buf[m + 1]
          BY <1>b, <2>1
        <4> QED BY <4>1 DEF IInv, Unique
      <3> QED BY <1>t, <1>b, <3>1
    <2>2. \A k \in 1..Len(ch), m \in 1..Len(buf') : ch[k] # buf'[m]
      BY <1>b DEF IInv, Unique
    <2> QED BY <2>1, <2>2 DEF IInv, Unique
  <1>4. \A i : (InCh(i)' <=> InCh(i)) /\ (InBuf(i)' => InBuf(i))
    BY <1>b DEF InCh, InBuf
  <1>5. Flight'
    BY <1>e, <1>f, <1>4 DEF IInv, Flight
  <1>6. Waits(o)'
    BY <1>o, <1>e, <1>f, <1>l, <1>w, <1>4 DEF Waits, InBuf, Answers
  <1>7. ASSUME NEW s \in Senders \ {o}, pc[s] # "idle"
        PROVE  job[s] \in Jobs \ {h}
    BY <1>7, <1>o, OneOwner DEF IInv, Owners
  <1>8. ASSUME NEW s \in Senders \ {o}, pc[s] \in Waiting PROVE Waits(s)'
    <2>1. Waits(s) /\ errCh'[job[s]] = errCh[job[s]]
      BY <1>8, <1>7, <1>e DEF IInv, Counts, Waiting
    <2>2. ASSUME NEW k \in 1..Len(buf'), buf'[k] = job[s]
          PROVE  released[s] = 0 /\ written[s] = IF k <= out' THEN 1 ELSE 0
      <3>1. k + 1 \in 1..Len(buf) /\ buf[k + 1] = job[s] /\ (k <= out' <=> k + 1 <= out)
        BY <1>b, <2>2
      <3> QED BY <2>1, <3>1 DEF Waits
    <2> QED BY <1>l, <1>w, <1>4, <2>1, <2>2 DEF Waits, Submitted
  <1>9. Counts'
    <2>1. written'[o] <= 1 /\ released'[o] <= 1
      BY <1>w, <1>l
    <2>2. ASSUME NEW s \in Senders \ {o}
          PROVE  /\ written'[s] <= 1 /\ released'[s] <= 1
                 /\ pc[s] = "submit" => Submitted(s)' /\ errCh'[job[s]] = NoAnswer
                 /\ pc[s] = "idle" => Reports(s)'
      BY <1>w, <1>l, <1>e, <1>7 DEF IInv, Counts, Submitted, Reports
    <2> QED BY <1>o, <1>6, <1>8, <2>1, <2>2 DEF Counts, Waiting
  <1> QED BY <1>1, <1>2, <1>3, <1>5, <1>9 DEF IInv

\* A job that WriteBatch sent is answered nil.
LEMMA AnswerSentStep ==
    ASSUME IInv, AnswerSent
    PROVE  IInv'
  <1>t. TypeOK /\ Len(buf) \in Nat /\ out \in Nat /\ out <= Len(buf)
    BY Elements DEF IInv, TypeOK
  <1>r. /\ Flushing /\ out > 0 /\ AnswerHead("ok") /\ out' = out - 1
        /\ UNCHANGED <<jobPool, payload, ch, loop, stopped, closed, closer, pc, job, ret, sends,
                       written>>
    BY DEF AnswerSent, closeVars, sendVars
  <1>1. buf # <<>> /\ 1 \in 1..Len(buf) /\ 1 <= out
    BY <1>t, <1>r
  <1>2. Head(buf) = buf[1]
    BY <1>t, <1>1, Elements DEF TypeOK
  <1>3. written[payload[Head(buf)]] = 1
    BY <1>1, <1>2, Carrier DEF IInv, Counts, Waits
  <1>4. /\ out' \in 0..(Len(buf) - 1)
        /\ \A k \in 1..(Len(buf) - 1) : k <= out' <=> k + 1 <= out
    BY <1>t, <1>r
  <1>5. written' \in [Senders -> Nat] /\ "ok" \in Answers
        /\ \A s \in Senders : written'[s] = written[s]
    BY <1>t, <1>r DEF TypeOK, Answers
  <1>6. written'[payload[Head(buf)]] = IF "ok" = "ok" THEN 1 ELSE 0
    BY <1>r, <1>3
  <1> QED BY <1>r, <1>1, <1>4, <1>5, <1>6, AnswerStep

\* writeOneJob: written unless the socket fails.
LEMMA WriteOneStep ==
    ASSUME IInv, WriteOneJob
    PROVE  IInv'
  <1>t. TypeOK /\ Len(buf) \in Nat
    BY Elements DEF IInv, TypeOK
  <1>r. /\ Flushing /\ buf # <<>> /\ out = 0
        /\ UNCHANGED <<jobPool, payload, ch, out, loop, stopped, closed, closer, pc, job, ret,
                       sends>>
    BY DEF WriteOneJob, closeVars, sendVars
  <1>p. PICK r \in Answers :
          /\ AnswerHead(r)
          /\ written' = [s \in Senders |->
               written[s] + (IF r = "ok" /\ s = payload[Head(buf)] THEN 1 ELSE 0)]
    BY DEF WriteOneJob
  <1>1. Head(buf) = buf[1] /\ 1 \in 1..Len(buf) /\ ~(1 <= out)
    BY <1>t, <1>r, Elements DEF TypeOK
  <1>2. payload[Head(buf)] \in Senders /\ written[payload[Head(buf)]] = 0
    BY <1>1, Carrier DEF IInv, Counts, Waits
  <1>3. \A s \in Senders : written[s] \in Nat
    BY <1>t DEF TypeOK
  <1>4. written' \in [Senders -> Nat]
    BY <1>p, <1>3
  <1>5. written'[payload[Head(buf)]] = IF r = "ok" THEN 1 ELSE 0
    BY <1>p, <1>2
  <1>6. \A s \in Senders \ {payload[Head(buf)]} : written'[s] = written[s]
    BY <1>p, <1>3
  <1>7. out' \in 0..(Len(buf) - 1) /\ \A k \in 1..(Len(buf) - 1) : k <= out' <=> k + 1 <= out
    BY <1>t, <1>r, <1>1
  <1> QED BY <1>r, <1>p, <1>4, <1>5, <1>6, <1>7, AnswerStep

\* A context ends, the timer fires, the loop sees stopped or ends a flush, Close
\* goes on.
LEMMA ControlSteps ==
    ASSUME IInv,
           (\E s \in Senders : CtxDone(s)) \/ LoopTimer \/ LoopStop \/ FlushDone
             \/ CloseStop \/ CloseConn
    PROVE  IInv'
  <1>t. TypeOK /\ Len(buf) \in Nat /\ out \in 0..Len(buf) /\ LoopInv
    BY Elements DEF IInv, TypeOK
  <1>1. ASSUME NEW s \in Senders, CtxDone(s) PROVE IInv'
    <2>1. /\ pc[s] = "queued" /\ pc' = [pc EXCEPT ![s] = "late"]
          /\ UNCHANGED <<jobPool, payload, errCh, ch, buf, out, loop, stopped, closed, closer,
                         job, ret, written, released, sends>>
      BY <1>1 DEF CtxDone, jobVars, loopVars, closeVars
    <2>2. TypeOK' /\ LoopInv'
      BY <1>t, <2>1 DEF TypeOK, LoopInv, Flushing
    <2>3. \A q \in Senders : pc'[q] = pc[q] \/ (pc[q] \in Waiting /\ pc'[q] \in Waiting)
      BY <1>t, <2>1 DEF TypeOK, Waiting
    <2> QED BY <2>1, <2>2, <2>3, ControlStep
  <1>2. ASSUME LoopTimer \/ LoopStop \/ FlushDone PROVE IInv'
    <2>1. /\ UNCHANGED <<jobPool, payload, errCh, ch, buf, out, stopped, closed, closer,
                         pc, job, ret, written, released, sends>>
          /\ loop' \in {"idle", "flush", "lastflush", "exited"}
      BY <1>2 DEF LoopTimer, LoopStop, FlushDone, jobVars, closeVars, sendVars
    <2>2. TypeOK'
      <3>1. stopped' \in BOOLEAN /\ closed' \in BOOLEAN
        BY <1>t, <2>1 DEF TypeOK
      <3> QED BY <1>t, <2>1, <3>1 DEF TypeOK
    <2>3. LoopInv'
      <3>1. CASE LoopTimer \/ LoopStop
        BY <2>1, <3>1 DEF LoopTimer, LoopStop, LoopInv, Flushing
      <3>2. CASE FlushDone
        <4>1. buf = <<>> /\ Len(buf) = 0 /\ out = 0
          BY <1>t, <3>2 DEF FlushDone
        <4> QED BY <2>1, <4>1, CapNat DEF LoopInv
      <3> QED BY <1>2, <3>1, <3>2
    <2> QED BY <2>1, <2>2, <2>3, ControlStep
  <1>3. ASSUME CloseStop \/ CloseConn PROVE IInv'
    <2>1. /\ UNCHANGED <<jobPool, payload, errCh, ch, buf, out, loop, pc, job, ret, written,
                         released, sends>>
          /\ closer' \in {"wait", "done"}
      BY <1>3 DEF CloseStop, CloseConn, jobVars, loopVars, sendVars
    <2>2. stopped' \in BOOLEAN /\ closed' \in BOOLEAN
      BY <1>t, <1>3 DEF CloseStop, CloseConn, TypeOK
    <2>3. TypeOK'
      BY <1>t, <2>1, <2>2 DEF TypeOK
    <2>4. LoopInv'
      BY <1>t, <2>1 DEF LoopInv, Flushing
    <2> QED BY <2>1, <2>3, <2>4, ControlStep
  <1> QED BY <1>1, <1>2, <1>3

-----------------------------------------------------------------------------
(* The theorems.                                                           *)

\* Every step keeps the invariant.
LEMMA StepIInv == IInv /\ [Next]_vars => IInv'
  <1> SUFFICES ASSUME IInv, [Next]_vars PROVE IInv'
    OBVIOUS
  <1>1. ASSUME NEW s \in Senders, SendStart(s) \/ SenderStep(s) PROVE IInv'
    BY <1>1, StartStep, RefusedStep, QueueStep, AnsweredStep DEF SenderStep
  <1>2. CASE LoopTake \/ WriteBatch \/ AnswerSent \/ WriteOneJob
    BY <1>2, TakeStep, BatchStep, AnswerSentStep, WriteOneStep
  <1>3. CASE (\E s \in Senders : CtxDone(s)) \/ LoopTimer \/ LoopStop \/ FlushDone
             \/ CloseStop \/ CloseConn
    BY <1>3, ControlSteps
  <1>4. CASE UNCHANGED vars
    <2>1. UNCHANGED <<jobPool, payload, errCh, ch, buf, out, loop, stopped, closed, closer, pc,
                      job, ret, written, released, sends>>
      BY <1>4 DEF vars, jobVars, loopVars, closeVars, sendVars
    <2>2. stopped' \in BOOLEAN /\ closed' \in BOOLEAN
      BY <2>1 DEF IInv, TypeOK
    <2>3. TypeOK' /\ LoopInv'
      BY <2>1, <2>2 DEF IInv, TypeOK, LoopInv, Flushing
    <2> QED BY <2>1, <2>3, ControlStep
  <1> QED BY <1>1, <1>2, <1>3, <1>4 DEF Next, LoopStep

\* The invariant holds in every state of every execution.
THEOREM InvariantHolds == Spec => []IInv
  BY InitIInv, StepIInv, PTL DEF Spec

\* Every variable keeps its type, the channel its capacity and the batch its
\* size, whatever the senders, the jobs and b.max are.
THEOREM TypeCorrect == Spec => []TypeOK
  <1>1. IInv => TypeOK
    BY DEF IInv
  <1> QED BY <1>1, InvariantHolds, PTL

\* The invariant says of the channel and the batch together what JobExclusive
\* asks of them.
LEMMA InFlightOnce == IInv => JobExclusive
  <1> SUFFICES ASSUME IInv PROVE JobExclusive
    OBVIOUS
  <1>t. TypeOK /\ Len(ch) \in Nat /\ Len(buf) \in Nat
    BY Elements DEF IInv, TypeOK
  <1>0. /\ InFlight \in Seq(Jobs) /\ Len(InFlight) = Len(ch) + Len(buf)
        /\ DOMAIN InFlight = 1..(Len(ch) + Len(buf))
        /\ \A i \in 1..(Len(ch) + Len(buf)) :
             InFlight[i] = IF i <= Len(ch) THEN ch[i] ELSE buf[i - Len(ch)]
    BY <1>t, ConcatProperties, Elements DEF TypeOK, InFlight
  <1>1. \A k \in DOMAIN InFlight :
          \/ k \in 1..Len(ch) /\ InFlight[k] = ch[k]
          \/ k - Len(ch) \in 1..Len(buf) /\ InFlight[k] = buf[k - Len(ch)]
    BY <1>t, <1>0
  <1>2. ASSUME NEW k \in DOMAIN InFlight, NEW m \in DOMAIN InFlight, InFlight[k] = InFlight[m]
        PROVE  k = m
    <2>1. \/ k \in 1..Len(ch) /\ m \in 1..Len(ch) /\ ch[k] = ch[m]
          \/ k - Len(ch) \in 1..Len(buf) /\ m - Len(ch) \in 1..Len(buf)
             /\ buf[k - Len(ch)] = buf[m - Len(ch)]
      BY <1>1, <1>2 DEF IInv, Unique
    <2>2. k = m \/ k - Len(ch) = m - Len(ch)
      BY <2>1 DEF IInv, Unique
    <2>3. k \in Nat /\ m \in Nat
      BY <1>t, <1>0
    <2> QED BY <1>t, <2>2, <2>3
  <1>3. ASSUME NEW j \in Jobs, Queued(j)
        PROVE  /\ errCh[j] = NoAnswer
               /\ \E s \in Senders : job[s] = j /\ pc[s] \in {"queued", "late"}
    <2>1. InCh(j) \/ InBuf(j)
      BY <1>1, <1>3 DEF Queued, InCh, InBuf
    <2> QED BY <2>1 DEF IInv, Flight, Waiting
  <1>4. \A s \in Senders : pc[s] # "idle" => job[s] \notin jobPool /\ payload[job[s]] = s
    BY DEF IInv, Owners
  <1> QED BY <1>2, <1>3, <1>4 DEF JobExclusive

\* A job of sendJobPool is with one Send at a time, in the channel or in the
\* batch at most once, and while it is there its Send waits and its errCh is
\* empty: recycling hands no datagram and no answer to another Send.
THEOREM JobsExclusive == Spec => []JobExclusive
  BY InFlightOnce, InvariantHolds, PTL

\* Send writes at most one datagram, one if it returns nil, none if it reports
\* the socket's error or ErrTransportClosed, and its payload buffer goes back
\* to its pool exactly once, on every path of submit and of the loop.
THEOREM WritesOneDatagram == Spec => []OneDatagram
  <1>1. ASSUME IInv PROVE OneDatagram
    <2> SUFFICES ASSUME NEW s \in Senders
                 PROVE  /\ written[s] <= 1
                        /\ ret[s] = "ok" => written[s] = 1
                        /\ ret[s] \in {"fail", "closed"} => written[s] = 0
                        /\ released[s] <= 1
                        /\ pc[s] = "idle" /\ ret[s] # "none" => released[s] = 1
      BY DEF OneDatagram
    <2>1. written[s] <= 1 /\ released[s] <= 1
      BY <1>1 DEF IInv, Counts
    <2>2. CASE pc[s] = "idle"
      BY <1>1, <2>1, <2>2 DEF IInv, Counts, Reports
    <2>3. CASE pc[s] # "idle"
      BY <1>1, <2>1, <2>3 DEF IInv, Owners
    <2> QED BY <2>2, <2>3
  <1> QED BY <1>1, InvariantHolds, PTL
=============================================================================
