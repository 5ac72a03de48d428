----------------------------- MODULE LoadClient -----------------------------
(***************************************************************************)
(* The load generator (cmd/client): runLoad's workers, which draw request  *)
(* numbers from one counter and stop one another by a flag, the statistics *)
(* and the log of failures, a goroutine behind a bounded channel.          *)
(*                                                                         *)
(* A worker's checks at the top of its loop and its draw are one step:     *)
(* a flag set between the two changes nothing that the draw itself does    *)
(* not notice.  The answer is recorded in the step in which the call ends. *)
(***************************************************************************)
EXTENDS Config, FiniteSets

CONSTANTS Commands,   \* command lines to run with
          MaxWorkers, \* the most workers any of them asks for
          MaxSeq,     \* bound: numbers drawn where -n sets no limit
          Codes,      \* HTTP statuses
          FailCap,    \* capacity of failLogger.ch
          FailMax     \* -fail-log-max

ASSUME ClientAssumption ==
    /\ \A c \in Commands : CommandLine(c) /\ Merged(c).concurrency <= MaxWorkers
    /\ MaxWorkers \in Nat \ {0} /\ MaxSeq \in Nat
    /\ FailCap \in Nat \ {0} /\ FailMax \in Nat \ {0}

Workers == 1..MaxWorkers

VARIABLES
    opt,       \* the options
    wpc, cur,  \* where each worker is, and the number it drew
    seq,       \* the counter
    stopped,   \* the flag
    ctxDone,   \* ctx is cancelled: a signal
    late,      \* the deadline has passed
    st,        \* stats: ok, fail, byStatus, -1 for a call without a status
    failLog,   \* the log: lines in ch, written, dropped; history: those lost
    runLoad,   \* where runLoad itself is
    issued     \* history: requests sent

clientVars == <<opt, wpc, cur, seq, stopped, ctxDone, late, st, failLog, runLoad,
                issued>>

ClientInit ==
    /\ \E c \in Commands :
         /\ c.config => LoadClientValid(LoadClientDefaults(c.file))
         /\ opt = Merged(c)
    /\ OptionsValid(opt) /\ ~Single(opt)
    /\ wpc = [w \in Workers |-> IF w <= opt.concurrency THEN "top" ELSE "done"]
    /\ cur = [w \in Workers |-> 0]
    /\ seq = 0
    /\ stopped = FALSE /\ ctxDone = FALSE /\ late = FALSE
    /\ st = [ok |-> 0, fail |-> 0, byStatus |-> [s \in Codes \cup {-1} |-> 0]]
    /\ failLog = [ch |-> 0, written |-> 0, dropped |-> 0, lost |-> 0]
    /\ runLoad = "wait"
    /\ issued = 0

-----------------------------------------------------------------------------
(* A worker.                                                               *)

Ends(w) == wpc' = [wpc EXCEPT ![w] = "done"]

\* The head of the loop: the checks, the next number, the limit of -n.
Draw(w) ==
    /\ wpc[w] = "top"
    /\ \/ /\ ctxDone \/ stopped
          /\ Ends(w) /\ UNCHANGED <<seq, cur, stopped>>
       \/ /\ ~ctxDone /\ ~stopped /\ late
          /\ stopped' = TRUE
          /\ Ends(w) /\ UNCHANGED <<seq, cur>>
       \/ /\ ~ctxDone /\ ~stopped /\ ~late
          /\ opt.n = 0 => seq < MaxSeq
          /\ seq' = seq + 1
          /\ IF opt.n > 0 /\ seq + 1 > opt.n
             THEN stopped' = TRUE /\ Ends(w) /\ UNCHANGED cur
             ELSE /\ cur' = [cur EXCEPT ![w] = seq + 1]
                  /\ wpc' = [wpc EXCEPT ![w] = IF opt.qps > 0 THEN "limit" ELSE "send"]
                  /\ UNCHANGED stopped
    /\ UNCHANGED <<opt, ctxDone, late, st, failLog, runLoad, issued>>

\* limiter.Wait, which takes time, and the checks again: a number that was drawn
\* may be given up here.
Limit(w) ==
    /\ wpc[w] = "limit"
    /\ \/ (ctxDone \/ stopped) /\ Ends(w) /\ UNCHANGED stopped
       \/ ~ctxDone /\ ~stopped /\ late /\ stopped' = TRUE /\ Ends(w)
       \/ /\ ~ctxDone /\ ~stopped /\ ~late
          /\ wpc' = [wpc EXCEPT ![w] = "send"]
          /\ UNCHANGED stopped
    /\ UNCHANGED <<opt, cur, seq, ctxDone, late, st, failLog, runLoad, issued>>

\* A slip: the flag is looked at again before the call, limiter or not.
SendUnlessStopped(w) ==
    /\ wpc[w] = "send"
    /\ IF stopped THEN Ends(w) /\ UNCHANGED issued
       ELSE wpc' = [wpc EXCEPT ![w] = "call"] /\ issued' = issued + 1
    /\ UNCHANGED <<opt, cur, seq, stopped, ctxDone, late, st, failLog, runLoad>>

\* doRequest begins.
Send(w) ==
    /\ wpc[w] = "send"
    /\ wpc' = [wpc EXCEPT ![w] = "call"]
    /\ issued' = issued + 1
    /\ UNCHANGED <<opt, cur, seq, stopped, ctxDone, late, st, failLog, runLoad>>

\* stats.add.
Add(s, err) ==
    LET code == IF s = 0 THEN -1 ELSE s
        failed == err \/ s >= 400 \/ s = 0
    IN st' = [st EXCEPT !.byStatus[code] = @ + 1,
                        !.ok = IF failed THEN @ ELSE @ + 1,
                        !.fail = IF failed THEN @ + 1 ELSE @]

\* failLogger.log, if there is a log: what the channel does not take is dropped.
Log(s, err) ==
    failLog' = IF ~opt.failLog \/ ~(err \/ s >= 400 \/ s = 0) THEN failLog
               ELSE IF failLog.ch < FailCap THEN [failLog EXCEPT !.ch = @ + 1]
               ELSE [failLog EXCEPT !.dropped = @ + 1]

\* doRequest ends: with a status, with none (the client's timeout, no
\* connection, ctx), or with a status and a body that cannot be read.
CallEnds(w, s, err) ==
    /\ wpc[w] = "call"
    /\ Add(s, err)
    /\ Log(s, err)
    /\ wpc' = [wpc EXCEPT ![w] = "top"]
    /\ cur' = [cur EXCEPT ![w] = 0]
    /\ UNCHANGED <<opt, seq, stopped, ctxDone, late, runLoad, issued>>

-----------------------------------------------------------------------------
(* Around the workers.                                                     *)

Interrupt ==
    /\ ~ctxDone /\ ctxDone' = TRUE
    /\ UNCHANGED <<opt, wpc, cur, seq, stopped, late, st, failLog, runLoad, issued>>

DeadlinePasses ==
    /\ opt.duration > 0 /\ ~late
    /\ late' = TRUE
    /\ UNCHANGED <<opt, wpc, cur, seq, stopped, ctxDone, st, failLog, runLoad, issued>>

\* failLogger.loop: a line is written, or counted as too many, or lost when
\* Encode fails, which nothing counts; the writer keeps its error, and all
\* lines after that are lost.
WriteLine ==
    /\ failLog.ch > 0
    /\ \/ /\ failLog.written >= FailMax
          /\ failLog' = [failLog EXCEPT !.ch = @ - 1, !.dropped = @ + 1]
       \/ /\ failLog.written < FailMax /\ failLog.lost = 0
          /\ failLog' = [failLog EXCEPT !.ch = @ - 1, !.written = @ + 1]
       \/ /\ failLog.written < FailMax
          /\ failLog' = [failLog EXCEPT !.ch = @ - 1, !.lost = @ + 1]
    /\ UNCHANGED <<opt, wpc, cur, seq, stopped, ctxDone, late, st, runLoad, issued>>

\* wg.Wait, then close of the log, which drains its channel.
WaitWorkers ==
    /\ runLoad = "wait" /\ \A w \in Workers : wpc[w] = "done"
    /\ runLoad' = "close"
    /\ UNCHANGED <<opt, wpc, cur, seq, stopped, ctxDone, late, st, failLog, issued>>

CloseLog ==
    /\ runLoad = "close" /\ failLog.ch = 0
    /\ runLoad' = "returned"
    /\ UNCHANGED <<opt, wpc, cur, seq, stopped, ctxDone, late, st, failLog, issued>>

-----------------------------------------------------------------------------
(* Properties.                                                             *)

\* What the client reports when it is done is what it did: every request sent
\* is in the statistics once; every failure is a line of the log or counted as
\* dropped, unless the file refused the line, and a log that lost none is
\* complete up to FailMax; and with -n alone, not cut short by a signal, a
\* deadline or a rate, exactly n requests were sent, although the first worker
\* that draws a number too high tells the others to stop.
ClientAccounts ==
    runLoad = "returned" =>
        /\ st.ok + st.fail = issued
        /\ opt.failLog => st.fail = failLog.written + failLog.dropped + failLog.lost
        /\ failLog.written <= FailMax
        /\ (opt.n > 0 /\ opt.qps = 0 /\ ~late /\ ~ctxDone) => issued = opt.n
=============================================================================
