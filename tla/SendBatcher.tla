---------------------------- MODULE SendBatcher ----------------------------
(***************************************************************************)
(* The batched send path of the UDP transport: Conn.Send, sendBatcher and  *)
(* Conn.Close (internal/transport/udp).  Senders hand datagrams to one     *)
(* loop goroutine through a bounded channel of recycled jobs; the loop     *)
(* writes them in batches and answers each sender on its job's errCh.      *)
(*                                                                         *)
(* Contexts end at any time: a step that needs ctx.Done() is always        *)
(* possible.  The loop's timer fires at any time.  A Go select with        *)
(* several ready cases takes any of them.                                  *)
(***************************************************************************)
EXTENDS Naturals, Sequences, FiniteSets

CONSTANTS Senders,  \* goroutines that call Conn.Send
          Jobs,     \* *sendJob objects that sendJobPool can hand out
          NoJob,    \* the nil *sendJob
          BatchMax, \* b.max; the channel holds 4 * BatchMax jobs
          MaxSends  \* bound: calls of Send per sender

ASSUME JobAssumption == NoJob \notin Jobs
ASSUME BatchAssumption == BatchMax \in Nat \ {0} /\ MaxSends \in Nat

Cap == BatchMax * 4
NoAnswer == "none"
Answers == {"ok", "fail"}

VARIABLES
    jobPool,   \* jobs no Send is using: what sendJobPool can Get
    payload,   \* payload[j]: the sender whose datagram job j carries, or NoJob
    errCh,     \* errCh[j]: the answer in j's channel of capacity 1
    ch,        \* b.ch
    buf,       \* the loop's batch
    out,       \* how many jobs at the head of buf WriteBatch has sent
    loop,      \* where the loop goroutine is
    stopped,   \* b.stopped is closed
    closed,    \* c.closed is closed
    closer,    \* where Conn.Close is
    pc,        \* where each sender is
    job,       \* its local job
    ret,       \* what its last Send returned
    written,   \* datagrams the socket took for its current Send
    released,  \* times its payload buffer went back to its pool
    sends      \* Sends begun so far

jobVars == <<jobPool, payload, errCh>>
loopVars == <<buf, out, loop>>
sendVars == <<pc, job, ret, sends>>
closeVars == <<stopped, closed, closer>>
vars == <<jobVars, ch, loopVars, closeVars, sendVars, written, released>>

Init ==
    /\ jobPool = Jobs
    /\ payload = [j \in Jobs |-> NoJob]
    /\ errCh = [j \in Jobs |-> NoAnswer]
    /\ ch = <<>>
    /\ buf = <<>>
    /\ out = 0
    /\ loop = "idle"
    /\ stopped = FALSE
    /\ closed = FALSE
    /\ closer = "idle"
    /\ pc = [s \in Senders |-> "idle"]
    /\ job = [s \in Senders |-> NoJob]
    /\ ret = [s \in Senders |-> "none"]
    /\ written = [s \in Senders |-> 0]
    /\ released = [s \in Senders |-> 0]
    /\ sends = [s \in Senders |-> 0]

-----------------------------------------------------------------------------
(* Conn.Send and sendBatcher.submit.                                       *)

\* checkOpen passes, the envelope is encoded, a job is acquired and filled.
\* (A Send refused by checkOpen, a nil argument or an oversized packet changes
\* nothing.)
SendStart(s) ==
    /\ pc[s] = "idle"
    /\ sends[s] < MaxSends
    /\ ~closed
    /\ \E j \in jobPool :
         /\ jobPool' = jobPool \ {j}
         /\ errCh' = [errCh EXCEPT ![j] = NoAnswer]
         /\ payload' = [payload EXCEPT ![j] = s]
         /\ job' = [job EXCEPT ![s] = j]
    /\ sends' = [sends EXCEPT ![s] = @ + 1]
    /\ ret' = [ret EXCEPT ![s] = "none"]
    /\ written' = [written EXCEPT ![s] = 0]
    /\ released' = [released EXCEPT ![s] = 0]
    /\ pc' = [pc EXCEPT ![s] = "submit"]
    /\ UNCHANGED <<ch, loopVars, closeVars>>

\* releaseSendJob, and Send returns r.
Return(s, r) ==
    /\ jobPool' = jobPool \cup {job[s]}
    /\ payload' = [payload EXCEPT ![job[s]] = NoJob]
    /\ errCh' = [errCh EXCEPT ![job[s]] = NoAnswer]
    /\ job' = [job EXCEPT ![s] = NoJob]
    /\ ret' = [ret EXCEPT ![s] = r]
    /\ pc' = [pc EXCEPT ![s] = "idle"]

\* submit's first select: stopped, or ctx done.
SubmitRefused(s) ==
    /\ pc[s] = "submit"
    /\ \E r \in {"closed", "ctx"} : (r = "closed" => stopped) /\ Return(s, r)
    /\ released' = [released EXCEPT ![s] = @ + 1]
    /\ UNCHANGED <<ch, loopVars, closeVars, written, sends>>

\* submit's first select: case b.ch <- job.
SubmitQueue(s) ==
    /\ pc[s] = "submit"
    /\ Len(ch) < Cap
    /\ ch' = Append(ch, job[s])
    /\ pc' = [pc EXCEPT ![s] = "queued"]
    /\ UNCHANGED <<jobVars, loopVars, closeVars, job, ret, written, released, sends>>

\* A slip: a Send whose context ends returns at once and recycles its job while
\* the loop still has it.
AbandonQueued(s) ==
    /\ pc[s] = "queued"
    /\ Return(s, "ctx")
    /\ UNCHANGED <<ch, loopVars, closeVars, written, released, sends>>

\* submit's second select: ctx done; the answer is still waited for.
CtxDone(s) ==
    /\ pc[s] = "queued"
    /\ pc' = [pc EXCEPT ![s] = "late"]
    /\ UNCHANGED <<jobVars, ch, loopVars, closeVars, job, ret, written, released,
                   sends>>

\* The answer arrives; after ctx done a success is reported as the ctx error.
TakeAnswer(s) ==
    /\ pc[s] \in {"queued", "late"}
    /\ errCh[job[s]] # NoAnswer
    /\ Return(s, IF pc[s] = "late" /\ errCh[job[s]] = "ok"
                 THEN "ctx" ELSE errCh[job[s]])
    /\ UNCHANGED <<ch, loopVars, closeVars, written, released, sends>>

-----------------------------------------------------------------------------
(* sendBatcher.loop.                                                       *)

\* drain after a receive: jobs move from ch to buf while buf has room.  Other
\* goroutines see it as one step: a job added meanwhile is taken as well or
\* stays, as if it had come before or after.
Drained(b, c) ==
    LET n == IF Len(b) + Len(c) <= BatchMax THEN Len(c) ELSE BatchMax - Len(b)
    IN  <<b \o SubSeq(c, 1, n), SubSeq(c, n + 1, Len(c))>>

\* case job := <-b.ch, in either select.
LoopTake ==
    /\ loop = "idle"
    /\ ch # <<>>
    /\ LET d == Drained(Append(buf, Head(ch)), Tail(ch)) IN
         /\ buf' = d[1]
         /\ ch' = d[2]
         /\ loop' = IF Len(d[1]) >= BatchMax THEN "flush" ELSE "idle"
    /\ UNCHANGED <<jobVars, out, closeVars, sendVars, written, released>>

\* case <-timer.C, armed while the batch is not empty.
LoopTimer ==
    /\ loop = "idle"
    /\ buf # <<>>
    /\ loop' = "flush"
    /\ UNCHANGED <<jobVars, ch, buf, out, closeVars, sendVars, written, released>>

\* A slip: the loop flushes on stop and goes on.
LoopStopGoesOn ==
    /\ loop = "idle"
    /\ stopped
    /\ loop' = "flush"
    /\ UNCHANGED <<jobVars, ch, buf, out, closeVars, sendVars, written, released>>

\* A slip: the loop returns on stop without the last flush.
LoopStopUnflushed ==
    /\ loop = "idle"
    /\ stopped
    /\ loop' = "exited"
    /\ UNCHANGED <<jobVars, ch, buf, out, closeVars, sendVars, written, released>>

\* case <-b.stopped: flush what the batch holds and return; ch is not drained.
LoopStop ==
    /\ loop = "idle"
    /\ stopped
    /\ loop' = "lastflush"
    /\ UNCHANGED <<jobVars, ch, buf, out, closeVars, sendVars, written, released>>

Flushing == loop \in {"flush", "lastflush"}
Sent(n) == {payload[buf[k]] : k \in 1..n}

\* A slip: the fallback after a short WriteBatch starts again at the first job.
WriteBatchForgets ==
    /\ Flushing
    /\ Len(buf) > 1 /\ out = 0
    /\ \E n \in 0..Len(buf) :
         /\ out' = IF n = Len(buf) THEN n ELSE 0
         /\ written' = [s \in Senders |-> written[s] + (IF s \in Sent(n) THEN 1 ELSE 0)]
    /\ UNCHANGED <<jobVars, ch, buf, loop, closeVars, sendVars, released>>

\* writePayloadsBatch with two jobs or more: sendmmsg takes the first n, all of
\* them if it can; an error means it took none.
WriteBatch ==
    /\ Flushing
    /\ Len(buf) > 1 /\ out = 0
    /\ \E n \in 0..Len(buf) :
         /\ out' = n
         /\ written' = [s \in Senders |-> written[s] + (IF s \in Sent(n) THEN 1 ELSE 0)]
    /\ UNCHANGED <<jobVars, ch, buf, loop, closeVars, sendVars, released>>

\* Release the head job's buffer and answer it; the rest of the batch remains.
AnswerHead(r) ==
    /\ errCh[Head(buf)] = NoAnswer
    /\ errCh' = [errCh EXCEPT ![Head(buf)] = r]
    /\ released' = [s \in Senders |->
                      released[s] + (IF s = payload[Head(buf)] THEN 1 ELSE 0)]
    /\ buf' = Tail(buf)

\* A job that WriteBatch sent is answered nil.
AnswerSent ==
    /\ Flushing
    /\ out > 0
    /\ AnswerHead("ok")
    /\ out' = out - 1
    /\ UNCHANGED <<jobPool, payload, ch, loop, closeVars, sendVars, written>>

\* writeOneJob: a single job, or one WriteBatch left over.  The socket is open:
\* Close waits for the loop before it closes it.
WriteOneJob ==
    /\ Flushing
    /\ buf # <<>> /\ out = 0
    /\ \E r \in Answers :
         /\ AnswerHead(r)
         /\ written' = [s \in Senders |->
              written[s] + (IF r = "ok" /\ s = payload[Head(buf)] THEN 1 ELSE 0)]
    /\ UNCHANGED <<jobPool, payload, ch, out, loop, closeVars, sendVars>>

FlushDone ==
    /\ Flushing
    /\ buf = <<>>
    /\ loop' = IF loop = "flush" THEN "idle" ELSE "exited"
    /\ UNCHANGED <<jobVars, ch, buf, out, closeVars, sendVars, written, released>>

-----------------------------------------------------------------------------
(* Conn.Close.                                                             *)

CloseStop ==
    /\ closer = "idle"
    /\ stopped' = TRUE
    /\ closer' = "wait"
    /\ UNCHANGED <<jobVars, ch, loopVars, closed, sendVars, written, released>>

\* b.wg.Wait() returns, then close(c.closed) and the socket.
CloseConn ==
    /\ closer = "wait"
    /\ loop = "exited"
    /\ closed' = TRUE
    /\ closer' = "done"
    /\ UNCHANGED <<jobVars, ch, loopVars, stopped, sendVars, written, released>>

-----------------------------------------------------------------------------
SenderStep(s) == SubmitRefused(s) \/ SubmitQueue(s) \/ TakeAnswer(s)

LoopStep == LoopTake \/ LoopTimer \/ LoopStop \/ WriteBatch \/ AnswerSent
            \/ WriteOneJob \/ FlushDone

Next ==
    \/ \E s \in Senders : SendStart(s) \/ SenderStep(s) \/ CtxDone(s)
    \/ LoopStep
    \/ CloseStop
    \/ CloseConn

Spec == Init /\ [][Next]_vars

\* Goroutines keep being scheduled; nothing forces a Send, an early end of a
\* context or a Close.
FairSpec ==
    /\ Spec
    /\ \A s \in Senders : WF_vars(SenderStep(s))
    /\ WF_vars(LoopStep)
    /\ WF_vars(CloseConn)

-----------------------------------------------------------------------------
(* Properties.                                                             *)

\* Every variable has its type, and the channel and the batch their bounds.
TypeOK ==
    /\ jobPool \subseteq Jobs
    /\ payload \in [Jobs -> Senders \cup {NoJob}]
    /\ errCh \in [Jobs -> Answers \cup {NoAnswer}]
    /\ ch \in Seq(Jobs) /\ Len(ch) <= Cap
    /\ buf \in Seq(Jobs) /\ Len(buf) <= BatchMax
    /\ out \in 0..Len(buf)
    /\ loop \in {"idle", "flush", "lastflush", "exited"}
    /\ stopped \in BOOLEAN /\ closed \in BOOLEAN
    /\ closer \in {"idle", "wait", "done"}
    /\ pc \in [Senders -> {"idle", "submit", "queued", "late"}]
    /\ job \in [Senders -> Jobs \cup {NoJob}]
    /\ ret \in [Senders -> Answers \cup {"none", "closed", "ctx"}]
    /\ written \in [Senders -> Nat]
    /\ released \in [Senders -> Nat]
    /\ sends \in [Senders -> 0..MaxSends]

InFlight == ch \o buf
Queued(j) == \E k \in DOMAIN InFlight : InFlight[k] = j

\* A job is in one place: the pool, or with one Send, and then in the channel
\* or the batch at most once, until its answer is in errCh.  So a recycled job
\* never carries another Send's datagram or answer.
JobExclusive ==
    /\ \A s \in Senders : pc[s] # "idle" =>
         job[s] \notin jobPool /\ payload[job[s]] = s
    /\ \A k, m \in DOMAIN InFlight : InFlight[k] = InFlight[m] => k = m
    /\ \A j \in Jobs : Queued(j) =>
         /\ errCh[j] = NoAnswer
         /\ \E s \in Senders : job[s] = j /\ pc[s] \in {"queued", "late"}

\* "Send ... ghi dung mot datagram UDP toi addr. Khong tu retry": never two
\* datagrams for one Send, one if Send returns nil, none if it reports the
\* socket's error or ErrTransportClosed; and on every path its payload buffer
\* goes back to the pool exactly once.
OneDatagram ==
    \A s \in Senders :
        /\ written[s] <= 1
        /\ ret[s] = "ok" => written[s] = 1
        /\ ret[s] \in {"fail", "closed"} => written[s] = 0
        /\ released[s] <= 1
        /\ pc[s] = "idle" /\ ret[s] # "none" => released[s] = 1

\* Send returns, whatever its context does, with one exception: a job still in
\* the channel when the loop has seen stopped and left is answered by nobody,
\* and its submit waits on errCh for ever.  No other Send is lost, not one that
\* was in the loop's last batch nor one that was refused.
SendReturnsUnlessStranded ==
    \A s \in Senders : pc[s] # "idle" ~>
        \/ pc[s] = "idle"
        \/ loop = "exited" /\ \E k \in DOMAIN ch : ch[k] = job[s]

\* Close returns.
CloseReturns == closer = "wait" ~> closer = "done"
=============================================================================
