--------------------------- MODULE GatewayProofs ---------------------------
(***************************************************************************)
(* Proofs about the gateway around its transactions: the HTTP server under *)
(* the load client (LoadTest), the dispatcher (Dispatch), and the process  *)
(* that starts and stops them (GatewayRun).  Their specifications (Spec,   *)
(* DispatchSpec, GatewaySpec) share no variable: each has its own          *)
(* invariant and its own theorems, for any number of requests, workers and *)
(* envelopes.                                                              *)
(***************************************************************************)
EXTENDS LoadTest, Dispatch, GatewayRun, FiniteSetTheorems, FunctionTheorems,
        SequenceTheorems, TLAPS

-----------------------------------------------------------------------------
(* LoadTest: the inductive invariant, in named parts.                      *)

HandlerStates == {"none", "gate", "create", "created", "waiting", "removed", "observe", "done"}
WorkerStates == {"top", "limit", "send", "call", "done"}
Drawn == {"limit", "send", "call"}

GatewayMetrics ==
    [received : Nat, rateLimited : Nat, http504 : Nat, inFlight : Nat, total : Nat,
     ok : Nat, fail : Nat, byStatus : [Statuses -> Nat],
     failByReason : [Reasons -> Nat], managerPending : Nat]
Stats == [ok : Nat, fail : Nat, byStatus : [Codes \cup {-1} -> Nat]]
Options == [timeout : Int, concurrency : 1..MaxWorkers, qps : Nat, duration : Int,
            n : 0..MaxReq, failLog : BOOLEAN]
FailureLog == [ch : Nat, written : Nat, dropped : Nat, lost : Nat]

\* Every variable has its type.
TypeOK ==
    /\ hpc \in [Requests -> HandlerStates]
    /\ status \in [Requests -> Statuses \cup {0}]
    /\ reason \in [Requests -> Reasons \cup {"ok"}]
    /\ gone \subseteq Requests /\ waiters \subseteq Requests
    /\ seen \in [Requests -> Nat]
    /\ met \in GatewayMetrics
    /\ rejected \in BOOLEAN /\ exceeded \in BOOLEAN
    /\ opt \in Options
    /\ wpc \in [Workers -> WorkerStates]
    /\ cur \in [Workers -> 0..MaxReq]
    /\ seq \in Nat /\ issued \in Nat
    /\ stopped \in BOOLEAN /\ ctxDone \in BOOLEAN /\ late \in BOOLEAN
    /\ st \in Stats
    /\ failLog \in FailureLog
    /\ runLoad \in {"wait", "close", "returned"}

\* A number is drawn by one worker, and its request arrives when it is sent.
Numbers ==
    /\ \A w \in Workers : wpc[w] \in Drawn => cur[w] \in 1..seq
    /\ \A v, w \in Workers :
         wpc[v] \in Drawn /\ wpc[w] \in Drawn /\ cur[v] = cur[w] => v = w
    /\ \A h \in Requests : h > seq => hpc[h] = "none"
    /\ \A w \in Workers : wpc[w] \in {"limit", "send"} => hpc[cur[w]] = "none"

\* The client has left those it no longer waits for, as long as they have a
\* handler; a handler that is about to return has written a status, and has a
\* reason if it is that of a failure.
Wrote(h) ==
    hpc[h] = "observe" => /\ status[h] \in Statuses
                          /\ status[h] >= 400 <=> reason[h] # "ok"
Streams ==
    /\ gone \subseteq Inside
    /\ \A w \in Workers : wpc[w] = "call" => cur[w] \notin gone
    /\ \A h \in Requests : Wrote(h)

\* As long as there were never too many, nobody computed or stored a number
\* that is too high.
Limits ==
    /\ NeverOverNeverRefused
    /\ ~exceeded => /\ met.managerPending <= MaxPending
                    /\ Cardinality(waiters) <= MaxPending
                    /\ \A h \in Requests : seen[h] <= MaxPending

\* Written and not yet counted, as the client sees it or for a reason; written
\* and not yet read by the client.
Writing(s) == {h \in Requests : hpc[h] = "observe" /\ Wire(status[h]) = s}
Because(r) == {h \in Requests : hpc[h] = "observe" /\ reason[h] = r}
Due(s) == {h \in Requests : hpc[h] \in {"observe", "done"} /\ Wire(status[h]) = s} \ gone

\* What the gateway counts.
Refusals == met.rateLimited = met.failByReason["rate_limited"] + Cardinality(Because("rate_limited"))
Timeouts == met.http504 <= met.failByReason["timeout"] + Cardinality(Because("timeout"))
Counted ==
    /\ met.received = met.total + Cardinality(Inside)
    /\ met.inFlight = Cardinality(Serving)
    /\ met.total = met.ok + met.fail
    /\ Refusals /\ Timeouts

\* What the gateway gave: a 200 may be a 1xx, a failure of unknown reason.
Given(s) == met.byStatus[s] + (IF s = 200 THEN met.failByReason["unknown"] ELSE 0)

\* What the client has read of it.
Read ==
    \A s \in Statuses :
        st.byStatus[s] + Cardinality(Due(s)) <= Given(s) + Cardinality(Writing(s))

\* Workers in a call; those whose request did not arrive.
InCall == {w \in Workers : wpc[w] = "call"}
Unheard == {w \in InCall : hpc[cur[w]] = "none"}
Sending == {w \in Workers : wpc[w] = "send"}

\* What the client sent.
Sent ==
    /\ met.received <= issued
    /\ issued <= met.received + st.byStatus[-1] + Cardinality(Unheard)
    /\ issued = st.ok + st.fail + Cardinality(InCall)

\* The log of failures.
Logged ==
    /\ opt.failLog => st.fail = failLog.ch + failLog.written + failLog.dropped + failLog.lost
    /\ failLog.written <= FailMax

\* With -n alone, nobody stops before all numbers are drawn, and each that is
\* drawn is sent.
Uncut == opt.n > 0 /\ opt.qps = 0 /\ ~late /\ ~ctxDone
AllSent ==
    /\ opt.qps = 0 => \A w \in Workers : wpc[w] # "limit"
    /\ Uncut =>
         /\ issued + Cardinality(Sending) = IF seq <= opt.n THEN seq ELSE opt.n
         /\ stopped => seq > opt.n
         /\ \A w \in Workers : w <= opt.concurrency /\ wpc[w] = "done" => stopped

\* The end of runLoad.
Returning ==
    /\ runLoad # "wait" => \A w \in Workers : wpc[w] = "done"
    /\ runLoad = "returned" => failLog.ch = 0

IInv == TypeOK /\ Numbers /\ Streams /\ Limits /\ Counted /\ Read /\ Sent /\ Logged
        /\ AllSent /\ Returning

-----------------------------------------------------------------------------
(* LoadTest: lemmas.                                                       *)

\* Sets of requests and of workers are finite.
LEMMA Finite ==
    /\ \A S \in SUBSET Requests : IsFiniteSet(S) /\ Cardinality(S) \in Nat
    /\ \A S \in SUBSET Workers : IsFiniteSet(S) /\ Cardinality(S) \in Nat
  <1>1. MaxReq \in Int /\ MaxWorkers \in Int
    BY ServerAssumption, ClientAssumption
  <1>2. IsFiniteSet(Requests) /\ IsFiniteSet(Workers)
    BY <1>1, FS_Interval DEF Requests, Workers
  <1> QED BY <1>2, FS_Subset, FS_CardinalityType

\* One element more.
LEMMA OneMore ==
    ASSUME NEW S, IsFiniteSet(S), NEW x, x \notin S
    PROVE  Cardinality(S \cup {x}) = Cardinality(S) + 1
  BY FS_AddElement

\* One element less.
LEMMA OneLess ==
    ASSUME NEW S, IsFiniteSet(S), NEW x \in S
    PROVE  Cardinality(S) \in Nat /\ Cardinality(S) > 0
           /\ Cardinality(S \ {x}) = Cardinality(S) - 1
  <1>1. Cardinality(S \ {x}) = Cardinality(S) - 1 /\ IsFiniteSet(S \ {x})
    BY FS_RemoveElement
  <1>2. Cardinality(S) \in Nat /\ Cardinality(S \ {x}) \in Nat
    BY <1>1, FS_CardinalityType
  <1> QED BY <1>1, <1>2

\* Nothing.
LEMMA NoneAtAll == Cardinality({}) = 0
  BY FS_EmptySet

\* The statuses, and the client's counters for them.
LEMMA StatusFacts ==
    /\ 200 \in Statuses /\ 429 \in Statuses
    /\ Statuses \subseteq Nat /\ 0 \notin Statuses /\ -1 \notin Statuses
    /\ \A s \in Statuses \cup {-1} : s \in Codes \cup {-1}
    /\ \A s \in Statuses : Wire(s) \in Statuses /\ Wire(s) # 0
    /\ Wire(0) = 0
  BY LoadAssumption, StatusAssumption, ServerAssumption DEF Wire

\* The reasons the invariant counts.
LEMMA ReasonFacts ==
    /\ "rate_limited" \in Reasons /\ "timeout" \in Reasons /\ "unknown" \in Reasons
    /\ "ok" \notin Reasons
  BY DEF Reasons

\* The metrics at each of their methods.
LEMMA MetricsSteps ==
    ASSUME NEW m \in GatewayMetrics
    PROVE  /\ AddHTTPReceived(m) \in GatewayMetrics
           /\ AddHTTPRateLimited(m) \in GatewayMetrics
           /\ AddHTTP504(m) \in GatewayMetrics
           /\ \A n \in Nat : SetManagerPending(m, n) \in GatewayMetrics
           /\ AddInFlight(m, 1) \in GatewayMetrics
           /\ AddInFlight(m, -1) \in GatewayMetrics
           /\ AddInFlight(m, 1).inFlight = m.inFlight + 1
           /\ m.inFlight > 0 => AddInFlight(m, -1).inFlight = m.inFlight - 1
  BY DEF GatewayMetrics, AddHTTPReceived, AddHTTPRateLimited, AddHTTP504,
         SetManagerPending, AddInFlight

\* Observe counts one status, and one reason if it is that of a failure; a 1xx
\* has none and counts as unknown.
LEMMA ObserveStep ==
    ASSUME NEW m \in GatewayMetrics, NEW s \in Statuses, NEW q \in Reasons \cup {"ok"},
           s >= 400 <=> q # "ok"
    PROVE  /\ Observe(m, s, q) \in GatewayMetrics
           /\ Observe(m, s, q).total = m.total + 1
           /\ m.total = m.ok + m.fail =>
                Observe(m, s, q).total = Observe(m, s, q).ok + Observe(m, s, q).fail
           /\ Observe(m, s, q).byStatus[s] = m.byStatus[s] + 1
           /\ \A t \in Statuses \ {s} : Observe(m, s, q).byStatus[t] = m.byStatus[t]
           /\ \A t \in Reasons \ {"unknown"} :
                Observe(m, s, q).failByReason[t] =
                    IF t = q THEN m.failByReason[t] + 1 ELSE m.failByReason[t]
           /\ Observe(m, s, q).failByReason["unknown"] \in Nat
           /\ Observe(m, s, q).failByReason["unknown"] >= m.failByReason["unknown"]
           /\ Wire(s) # s =>
                Observe(m, s, q).failByReason["unknown"] = m.failByReason["unknown"] + 1
           /\ Observe(m, s, q).received = m.received
           /\ Observe(m, s, q).rateLimited = m.rateLimited
           /\ Observe(m, s, q).http504 = m.http504
           /\ Observe(m, s, q).inFlight = m.inFlight
           /\ Observe(m, s, q).managerPending = m.managerPending
  <1> DEFINE good == s \in 200..399
             why == IF q = "ok" THEN "unknown" ELSE q
             o == Observe(m, s, q)
  <1>0. why \in Reasons /\ good \in BOOLEAN /\ s \in Nat
    BY ReasonFacts, StatusFacts
  <1>1. /\ o.total = m.total + 1
        /\ o.byStatus = [m.byStatus EXCEPT ![s] = @ + 1]
        /\ o.ok = IF good THEN m.ok + 1 ELSE m.ok
        /\ o.fail = IF good THEN m.fail ELSE m.fail + 1
        /\ o.failByReason = [m.failByReason EXCEPT ![why] = IF good THEN @ ELSE @ + 1]
        /\ o.received = m.received
        /\ o.rateLimited = m.rateLimited
        /\ o.http504 = m.http504
        /\ o.inFlight = m.inFlight
        /\ o.managerPending = m.managerPending
    BY DEF GatewayMetrics, Observe
  <1>2. /\ m.total \in Nat /\ m.ok \in Nat /\ m.fail \in Nat /\ m.byStatus \in [Statuses -> Nat]
        /\ m.failByReason \in [Reasons -> Nat]
        /\ m.received \in Nat /\ m.rateLimited \in Nat /\ m.http504 \in Nat
        /\ m.inFlight \in Nat /\ m.managerPending \in Nat
    BY DEF GatewayMetrics
  <1>3. /\ o.byStatus \in [Statuses -> Nat] /\ o.byStatus[s] = m.byStatus[s] + 1
        /\ \A t \in Statuses \ {s} : o.byStatus[t] = m.byStatus[t]
    BY <1>1, <1>2
  <1>4. /\ o.failByReason \in [Reasons -> Nat]
        /\ \A t \in Reasons : t # why => o.failByReason[t] = m.failByReason[t]
        /\ o.failByReason[why] = IF good THEN m.failByReason[why] ELSE m.failByReason[why] + 1
    <2> HIDE DEF why, good, o
    <2> QED BY <1>0, <1>1, <1>2
  <1>5. o \in GatewayMetrics
    <2>1. o.ok \in Nat /\ o.fail \in Nat /\ o.total \in Nat
      BY <1>1, <1>2
    <2> DEFINE m1 == [m EXCEPT !.total = m.total + 1]
               m2 == [m1 EXCEPT !.byStatus[s] = m.byStatus[s] + 1]
               m3 == [m2 EXCEPT !.ok = IF good THEN m.ok + 1 ELSE m.ok]
               m4 == [m3 EXCEPT !.fail = IF good THEN m.fail ELSE m.fail + 1]
               m5 == [m4 EXCEPT !.failByReason[why] =
                                  IF good THEN m.failByReason[why] ELSE m.failByReason[why] + 1]
    <2>2. o = m5
      BY DEF Observe
    <2> HIDE DEF good, why, o
    <2>3. m1 \in GatewayMetrics /\ m1.byStatus = m.byStatus /\ m1.failByReason = m.failByReason
      BY <1>2 DEF GatewayMetrics
    <2> HIDE DEF m1
    <2>4. m2 \in GatewayMetrics /\ m2.failByReason = m.failByReason
      BY <1>2, <2>3 DEF GatewayMetrics
    <2> HIDE DEF m2
    <2>5. m3 \in GatewayMetrics /\ m3.failByReason = m.failByReason
      BY <1>0, <1>2, <2>4 DEF GatewayMetrics
    <2> HIDE DEF m3
    <2>6. m4 \in GatewayMetrics /\ m4.failByReason = m.failByReason
      BY <1>0, <1>2, <2>5 DEF GatewayMetrics
    <2> HIDE DEF m4
    <2>7. m5 \in GatewayMetrics
      BY <1>0, <1>2, <2>6 DEF GatewayMetrics
    <2> QED BY <2>2, <2>7
  <1>6. m.total = m.ok + m.fail => o.total = o.ok + o.fail
    <2> HIDE DEF o
    <2> QED BY <1>1, <1>2
  <1>7. q # "ok" => ~good /\ why = q
    BY <1>0
  <1>8. q = "ok" => why = "unknown"
    OBVIOUS
  <1>9. Wire(s) # s => ~good /\ q = "ok"
    BY <1>0 DEF Wire
  <1> HIDE DEF o, good, why
  <1>10. \A t \in Reasons \ {"unknown"} :
            o.failByReason[t] = IF t = q THEN m.failByReason[t] + 1 ELSE m.failByReason[t]
    BY <1>4, <1>7, <1>8, ReasonFacts
  <1>11. PICK u \in Reasons : u = "unknown"
    BY ReasonFacts
  <1>12. o.failByReason[u] \in Nat /\ m.failByReason[u] \in Nat
    BY <1>2, <1>4
  <1>13. o.failByReason[u] >= m.failByReason[u]
    BY <1>4, <1>12
  <1>14. Wire(s) # s => o.failByReason[u] = m.failByReason[u] + 1
    BY <1>4, <1>8, <1>9, <1>11
  <1> QED BY <1>1, <1>3, <1>5, <1>6, <1>10, <1>11, <1>12, <1>13, <1>14 DEF o

\* The options are integers, whether a flag, the file or a default gives them.
LEMMA MergedFacts ==
    ASSUME NEW c, CommandLine(c)
    PROVE  /\ Merged(c).timeout \in Int /\ Merged(c).concurrency \in Int
           /\ Merged(c).qps \in Int /\ Merged(c).duration \in Int /\ Merged(c).n \in Int
           /\ Merged(c).failLog \in BOOLEAN
           /\ Merged(c) = [timeout |-> Merged(c).timeout,
                           concurrency |-> Merged(c).concurrency, qps |-> Merged(c).qps,
                           duration |-> Merged(c).duration, n |-> Merged(c).n,
                           failLog |-> Merged(c).failLog]
  <1> DEFINE base == IF c.config THEN LoadClientDefaults(c.file) ELSE FlagDefaults
             Option(o) == IF o \in DOMAIN c.flags THEN c.flags[o] ELSE base[o]
  <1>1. ASSUME NEW f \in LoadClient, NEW o \in OptionNames
        PROVE  LoadClientDefaults(f)[o] \in Int
    <2> DEFINE t == IF f.timeout <= 0 THEN 10 ELSE f.timeout
               k == IF f.concurrency < 1 THEN 1 ELSE f.concurrency
    <2>1. t \in Int /\ k \in Int /\ f.qps \in Int /\ f.duration \in Int /\ f.n \in Int
      BY DEF LoadClient
    <2>2. LoadClientDefaults(f) = [f EXCEPT !.timeout = t, !.concurrency = k]
      BY DEF LoadClientDefaults
    <2> HIDE DEF t, k
    <2> QED BY <2>1, <2>2 DEF LoadClient, OptionNames
  <1>2. ASSUME NEW o \in OptionNames PROVE FlagDefaults[o] \in Int
    BY DEF FlagDefaults, OptionNames
  <1>3. /\ c.config \in BOOLEAN /\ c.file \in LoadClient /\ c.failLog \in BOOLEAN
        /\ \A o \in DOMAIN c.flags : c.flags[o] \in Int
    BY DEF CommandLine
  <1>4. ASSUME NEW o \in OptionNames PROVE Option(o) \in Int
    <2>1. base[o] \in Int
      BY <1>1, <1>2, <1>3
    <2> QED BY <1>3, <2>1
  <1>5. Merged(c) = [timeout |-> Option("timeout"), concurrency |-> Option("concurrency"),
                     qps |-> Option("qps"), duration |-> Option("duration"),
                     n |-> Option("n"), failLog |-> c.failLog]
    BY DEF Merged
  <1>6. /\ "timeout" \in OptionNames /\ "concurrency" \in OptionNames
        /\ "qps" \in OptionNames /\ "duration" \in OptionNames /\ "n" \in OptionNames
    BY DEF OptionNames
  <1> HIDE DEF Option
  <1>7. /\ Option("timeout") \in Int /\ Option("concurrency") \in Int /\ Option("qps") \in Int
        /\ Option("duration") \in Int /\ Option("n") \in Int
    BY <1>4, <1>6
  <1> QED BY <1>3, <1>5, <1>7

\* The invariant holds at the start.
LEMMA InitIInv == Init => IInv
  <1> SUFFICES ASSUME Init PROVE IInv
    OBVIOUS
  <1> USE DEF Init, ServerInit, ClientInit
  <1>1. opt \in Options
    <2>1. PICK c \in Commands : opt = Merged(c)
      OBVIOUS
    <2>2. /\ CommandLine(c) /\ Merged(c).concurrency <= MaxWorkers /\ Merged(c).n <= MaxReq
          /\ MaxWorkers \in Nat /\ MaxReq \in Nat
      BY ClientAssumption, LoadAssumption, ServerAssumption
    <2>3. /\ opt.timeout \in Int /\ opt.concurrency \in Int
          /\ opt.qps \in Int /\ opt.duration \in Int /\ opt.n \in Int
          /\ opt.failLog \in BOOLEAN
          /\ opt = [timeout |-> opt.timeout, concurrency |-> opt.concurrency,
                    qps |-> opt.qps, duration |-> opt.duration, n |-> opt.n,
                    failLog |-> opt.failLog]
      BY <2>1, <2>2, MergedFacts
    <2>4. opt.concurrency >= 1 /\ opt.n >= 0 /\ opt.qps >= 0
      BY DEF OptionsValid
    <2>5. opt.concurrency \in 1..MaxWorkers /\ opt.n \in 0..MaxReq /\ opt.qps \in Nat
      BY <2>1, <2>2, <2>3, <2>4
    <2> HIDE DEF Init, ServerInit, ClientInit
    <2> QED BY <2>3, <2>5 DEF Options
  <1>2. met \in GatewayMetrics
    BY StatusFacts DEF GatewayMetrics, New
  <1>3. TypeOK
    <2>1. MaxReq \in Nat
      BY ServerAssumption
    <2>2. stopped \in BOOLEAN /\ ctxDone \in BOOLEAN /\ late \in BOOLEAN
          /\ rejected \in BOOLEAN /\ exceeded \in BOOLEAN
      OBVIOUS
    <2>3. st \in Stats /\ failLog \in FailureLog
      BY DEF Stats, FailureLog
    <2> QED BY <1>1, <1>2, <2>1, <2>2, <2>3 DEF TypeOK, HandlerStates, WorkerStates
  <1>4. /\ Inside = {} /\ Serving = {} /\ InCall = {} /\ Unheard = {} /\ Sending = {}
        /\ waiters = {} /\ (\A s : Writing(s) = {} /\ Due(s) = {}) /\ \A r : Because(r) = {}
    <2>1. \A h \in Requests : hpc[h] = "none"
      OBVIOUS
    <2>2. Inside = {}
      BY <2>1 DEF Inside
    <2>3. \A s : Writing(s) = {}
      BY <2>1 DEF Writing
    <2>4. \A s : Due(s) = {}
      BY <2>1 DEF Due
    <2>5. InCall = {} /\ Sending = {}
      BY DEF InCall, Sending
    <2>6. \A r : Because(r) = {}
      BY <2>1 DEF Because
    <2> QED BY <2>2, <2>3, <2>4, <2>5, <2>6 DEF Serving, Unheard
  <1>5. Numbers /\ Streams
    BY <1>4 DEF Numbers, Streams, Wrote, Drawn
  <1>6. Limits
    <2>1. MaxPending \in Nat
      BY ServerAssumption
    <2> QED BY <1>4, <2>1, NoneAtAll DEF Limits, NeverOverNeverRefused, New
  <1>7. Counted /\ Read
    <2>1. met = New /\ \A s \in Statuses : met.byStatus[s] = 0 /\ st.byStatus[s] = 0
      BY StatusFacts DEF New
    <2>2. /\ met.received = 0 /\ met.total = 0 /\ met.inFlight = 0 /\ met.ok = 0 /\ met.fail = 0
          /\ met.rateLimited = 0 /\ met.http504 = 0
      BY <2>1 DEF New
    <2>3. \A s : Cardinality(Writing(s)) = 0 /\ Cardinality(Due(s)) = 0
      <3> TAKE s
      <3>1. Writing(s) = {} /\ Due(s) = {}
        BY <1>4
      <3> QED BY <3>1, NoneAtAll
    <2>4. /\ met.failByReason["rate_limited"] = 0 /\ met.failByReason["timeout"] = 0
          /\ met.failByReason["unknown"] = 0
      BY <2>1 DEF New, Reasons
    <2> HIDE DEF Init, ServerInit, ClientInit
    <2>5. /\ Cardinality(Inside) = 0 /\ Cardinality(Serving) = 0
          /\ Cardinality(Because("rate_limited")) = 0 /\ Cardinality(Because("timeout")) = 0
      BY <1>4, NoneAtAll
    <2>6. Counted
      BY <2>2, <2>4, <2>5 DEF Counted, Refusals, Timeouts
    <2>7. Read
      BY <2>1, <2>3, <2>4 DEF Read, Given
    <2> QED BY <2>6, <2>7
  <1>8. Sent /\ Logged
    BY <1>4, NoneAtAll, ClientAssumption DEF Sent, Logged, New
  <1>9. AllSent
    <2>1. opt.n \in Int
      BY <1>1 DEF Options
    <2>2. \A w \in Workers : wpc[w] # "limit" /\ ~(w <= opt.concurrency /\ wpc[w] = "done")
      OBVIOUS
    <2>3. issued + Cardinality(Sending) = 0
      BY <1>4, NoneAtAll
    <2> QED BY <2>1, <2>2, <2>3 DEF AllSent, Uncut
  <1>10. Returning
    BY DEF Returning
  <1> QED BY <1>3, <1>5, <1>6, <1>7, <1>8, <1>9, <1>10 DEF IInv

-----------------------------------------------------------------------------
(* LoadTest: the handlers.                                                 *)

\* A step of a handler leaves the client's part of the invariant as it is.
LEMMA HandlerFrame ==
    ASSUME IInv, UNCHANGED clientVars,
           NEW h \in Requests, hpc[h] # "none",
           NEW b \in HandlerStates, b # "none", hpc' = [hpc EXCEPT ![h] = b]
    PROVE  /\ hpc' \in [Requests -> HandlerStates]
           /\ \A g \in Requests : g # h => hpc'[g] = hpc[g]
           /\ hpc'[h] = b
           /\ Numbers' /\ Logged' /\ AllSent' /\ Returning'
           /\ InCall' = InCall /\ Unheard' = Unheard
  <1> USE DEF clientVars
  <1>1. /\ hpc \in [Requests -> HandlerStates]
        /\ \A w \in Workers : wpc[w] \in Drawn => cur[w] \in 1..seq /\ cur[w] \in Requests
    <2>1. hpc \in [Requests -> HandlerStates] /\ cur \in [Workers -> 0..MaxReq] /\ seq \in Nat
          /\ MaxReq \in Nat
      BY ServerAssumption DEF IInv, TypeOK
    <2>2. \A w \in Workers : wpc[w] \in Drawn => cur[w] \in 1..seq
      BY DEF IInv, Numbers
    <2>3. \A w \in Workers : wpc[w] \in Drawn => cur[w] \in Requests
      BY <2>1, <2>2 DEF Requests
    <2> QED BY <2>1, <2>2, <2>3
  <1>2. /\ hpc' \in [Requests -> HandlerStates] /\ hpc'[h] = b
        /\ \A g \in Requests : g # h => hpc'[g] = hpc[g]
    BY <1>1
  <1>3. \A g \in Requests : hpc'[g] = "none" <=> hpc[g] = "none"
    BY <1>2
  <1>4. Numbers'
    <2> USE DEF Numbers, Drawn
    <2>1. Numbers
      BY DEF IInv
    <2>2. \A g \in Requests : g > seq => hpc'[g] = "none"
      BY <2>1, <1>3
    <2>3. \A w \in Workers : wpc[w] \in {"limit", "send"} => hpc'[cur[w]] = "none"
      BY <2>1, <1>1, <1>3
    <2> QED BY <2>1, <2>2, <2>3
  <1>5. InCall' = InCall
    BY DEF InCall
  <1>6. Unheard' = Unheard
    BY <1>1, <1>3, <1>5 DEF Unheard, InCall, Drawn
  <1>7. Logged' /\ AllSent' /\ Returning'
    BY DEF IInv, Logged, AllSent, Returning, Uncut, Sending
  <1> QED BY <1>2, <1>4, <1>5, <1>6, <1>7

\* What a handler that has not written leaves as it is.
LEMMA UnwrittenStep ==
    ASSUME IInv, UNCHANGED clientVars, UNCHANGED <<status, reason, gone>>,
           NEW h \in Requests, NEW b \in HandlerStates,
           hpc[h] \in {"gate", "create", "created", "waiting", "removed"},
           b \in {"gate", "create", "created", "waiting", "removed"},
           hpc' = [hpc EXCEPT ![h] = b]
    PROVE  /\ Inside' = Inside
           /\ \A s \in Statuses : Writing(s)' = Writing(s) /\ Due(s)' = Due(s)
           /\ \A q : Because(q)' = Because(q)
           /\ Streams'
  <1>1. /\ \A g \in Requests : g # h => hpc'[g] = hpc[g]
        /\ hpc'[h] = b
    BY HandlerFrame
  <1>2. Inside' = Inside
    BY <1>1 DEF Inside
  <1>3. \A s \in Statuses : Writing(s)' = Writing(s) /\ Due(s)' = Due(s)
    BY <1>1 DEF Writing, Due
  <1>4. Streams'
    <2>1. \A g \in Requests : Wrote(g)'
      BY <1>1 DEF IInv, Streams, Wrote
    <2> QED BY <1>2, <2>1 DEF IInv, Streams, clientVars
  <1>5. \A q : Because(q)' = Because(q)
    BY <1>1 DEF Because
  <1> QED BY <1>2, <1>3, <1>4, <1>5

\* Every response written has a status and a reason that go together.
LEMMA WrittenStep ==
    ASSUME IInv,
           NEW h \in Requests, NEW s \in Statuses, NEW q \in Reasons \cup {"ok"},
           s >= 400 <=> q # "ok",
           hpc' = [hpc EXCEPT ![h] = "observe"],
           status' = [status EXCEPT ![h] = s], reason' = [reason EXCEPT ![h] = q],
           gone' = gone
    PROVE  /\ \A g \in Requests : Wrote(g)'
           /\ status' \in [Requests -> Statuses \cup {0}]
           /\ reason' \in [Requests -> Reasons \cup {"ok"}]
  <1>1. /\ \A g \in Requests : g # h => /\ hpc'[g] = hpc[g] /\ status'[g] = status[g]
                                       /\ reason'[g] = reason[g]
        /\ hpc'[h] = "observe" /\ status'[h] = s /\ reason'[h] = q
        /\ status' \in [Requests -> Statuses \cup {0}]
        /\ reason' \in [Requests -> Reasons \cup {"ok"}]
    BY DEF IInv, TypeOK
  <1>2. \A g \in Requests : Wrote(g)'
    BY <1>1 DEF IInv, Streams, Wrote
  <1> QED BY <1>1, <1>2

\* The sets of requests the invariant counts are finite.
LEMMA Sizes ==
    /\ IsFiniteSet(Inside) /\ Cardinality(Inside) \in Nat
    /\ IsFiniteSet(Serving) /\ Cardinality(Serving) \in Nat
    /\ \A s : IsFiniteSet(Writing(s)) /\ Cardinality(Writing(s)) \in Nat
    /\ \A s : IsFiniteSet(Due(s)) /\ Cardinality(Due(s)) \in Nat
    /\ \A r : IsFiniteSet(Because(r)) /\ Cardinality(Because(r)) \in Nat
    /\ IsFiniteSet(InCall) /\ Cardinality(InCall) \in Nat
    /\ IsFiniteSet(Unheard) /\ Cardinality(Unheard) \in Nat
    /\ IsFiniteSet(Sending) /\ Cardinality(Sending) \in Nat
  <1>1. Inside \subseteq Requests /\ Serving \subseteq Requests
    BY DEF Inside, Serving
  <1>2. \A s : Writing(s) \subseteq Requests /\ Due(s) \subseteq Requests
    BY DEF Writing, Due
  <1>3. InCall \subseteq Workers /\ Unheard \subseteq Workers /\ Sending \subseteq Workers
    BY DEF InCall, Unheard, Sending
  <1>4. \A r : Because(r) \subseteq Requests
    BY DEF Because
  <1> QED BY <1>1, <1>2, <1>3, <1>4, Finite

\* The types of the numbers.
LEMMA NumberTypes ==
    ASSUME IInv
    PROVE  /\ met \in GatewayMetrics
           /\ met.received \in Nat /\ met.rateLimited \in Nat /\ met.http504 \in Nat
           /\ met.inFlight \in Nat /\ met.total \in Nat /\ met.ok \in Nat /\ met.fail \in Nat
           /\ met.managerPending \in Nat
           /\ \A s \in Statuses : met.byStatus[s] \in Nat /\ Given(s) \in Nat
           /\ \A q \in Reasons : met.failByReason[q] \in Nat
           /\ st.ok \in Nat /\ st.fail \in Nat /\ st.byStatus \in [Codes \cup {-1} -> Nat]
           /\ \A s \in Statuses \cup {-1} : st.byStatus[s] \in Nat
           /\ issued \in Nat /\ seq \in Nat
  <1>1. met \in GatewayMetrics /\ st \in Stats /\ issued \in Nat /\ seq \in Nat
    BY DEF IInv, TypeOK
  <1>2. st.ok \in Nat /\ st.fail \in Nat /\ st.byStatus \in [Codes \cup {-1} -> Nat]
    BY <1>1 DEF Stats
  <1>3. ASSUME NEW s \in Statuses \cup {-1} PROVE st.byStatus[s] \in Nat
    <2>1. s \in Codes \cup {-1}
      BY LoadAssumption
    <2> QED BY <1>2, <2>1
  <1>4. met.byStatus \in [Statuses -> Nat] /\ met.failByReason \in [Reasons -> Nat]
    BY <1>1 DEF GatewayMetrics
  <1>6. \A q \in Reasons : met.failByReason[q] \in Nat
    BY <1>4
  <1>7. \A s \in Statuses : Given(s) \in Nat
    BY <1>4, <1>6, ReasonFacts DEF Given
  <1>5. /\ met.received \in Nat /\ met.rateLimited \in Nat /\ met.http504 \in Nat
        /\ met.inFlight \in Nat /\ met.total \in Nat /\ met.ok \in Nat /\ met.fail \in Nat
        /\ met.managerPending \in Nat
    BY <1>1 DEF GatewayMetrics
  <1> QED BY <1>1, <1>2, <1>3, <1>4, <1>5, <1>6, <1>7

\* A response written is one more that will be counted, and one more at most
\* that the client may read.
LEMMA WrittenCounts ==
    ASSUME IInv,
           NEW h \in Requests, NEW s \in Statuses, NEW q \in Reasons \cup {"ok"},
           s >= 400 <=> q # "ok",
           hpc[h] \notin {"observe", "done"},
           hpc' = [hpc EXCEPT ![h] = "observe"],
           status' = [status EXCEPT ![h] = s], reason' = [reason EXCEPT ![h] = q],
           gone' = gone,
           met'.byStatus = met.byStatus, met'.failByReason = met.failByReason, st' = st
    PROVE  /\ Cardinality(Because(q))' = Cardinality(Because(q)) + 1
           /\ \A p : p # q => Cardinality(Because(p))' = Cardinality(Because(p))
           /\ Read'
  <1>0. PICK t \in Statuses : t = Wire(s)
    BY StatusFacts
  <1>v. /\ \A g \in Requests : g # h => /\ hpc'[g] = hpc[g] /\ status'[g] = status[g]
                                       /\ reason'[g] = reason[g]
        /\ hpc'[h] = "observe" /\ status'[h] = s /\ reason'[h] = q
    BY DEF IInv, TypeOK
  <1>w. h \notin Writing(t) /\ Writing(t)' = Writing(t) \cup {h}
    BY <1>0, <1>v DEF Writing
  <1>o. \A r \in Statuses : r # t => Writing(r)' = Writing(r) /\ Due(r)' = Due(r)
    BY <1>0, <1>v DEF Writing, Due
  <1>d. /\ h \notin Due(t)
        /\ Due(t)' = Due(t) \/ Due(t)' = Due(t) \cup {h}
    <2>1. CASE h \in gone
      BY <1>0, <1>v, <2>1 DEF Due
    <2>2. CASE h \notin gone
      BY <1>0, <1>v, <2>2 DEF Due
    <2> QED BY <2>1, <2>2
  <1>b. h \notin Because(q) /\ Because(q)' = Because(q) \cup {h}
    BY <1>v DEF Because
  <1>c. \A p : p # q => Because(p)' = Because(p)
    BY <1>v DEF Because
  <1>1. Cardinality(Writing(t))' = Cardinality(Writing(t)) + 1
    BY <1>w, Sizes, OneMore
  <1>2. Cardinality(Due(t))' <= Cardinality(Due(t)) + 1
    <2>1. CASE Due(t)' = Due(t)
      BY <2>1, Sizes
    <2>2. CASE Due(t)' = Due(t) \cup {h}
      <3>2. Cardinality(Due(t) \cup {h}) = Cardinality(Due(t)) + 1
        BY <1>d, Sizes, OneMore
      <3> QED BY <2>2, <3>2, Sizes
    <2> QED BY <2>1, <2>2, <1>d
  <1>3. \A r \in Statuses : r # t => /\ Cardinality(Writing(r))' = Cardinality(Writing(r))
                                     /\ Cardinality(Due(r))' = Cardinality(Due(r))
    BY <1>o
  <1>4. ASSUME NEW r \in Statuses
        PROVE  (st.byStatus[r] + Cardinality(Due(r)) <= Given(r) + Cardinality(Writing(r)))'
    <2>1. st.byStatus[r] + Cardinality(Due(r)) <= Given(r) + Cardinality(Writing(r))
      BY DEF IInv, Read
    <2>2. /\ st.byStatus[r] \in Nat /\ Given(r) \in Nat
          /\ Cardinality(Due(r)) \in Nat /\ Cardinality(Writing(r)) \in Nat
      BY NumberTypes, Sizes
    <2>3. Cardinality(Due(r))' \in Nat
      <3>1. Due(r)' \subseteq Requests
        BY DEF Due
      <3> QED BY <3>1, Finite
    <2>6. Given(r)' = Given(r)
      BY DEF Given
    <2>4. CASE r = t
      BY <1>1, <1>2, <2>1, <2>2, <2>3, <2>4, <2>6
    <2>5. CASE r # t
      BY <1>3, <2>1, <2>5, <2>6
    <2> QED BY <2>4, <2>5
  <1>5. Read'
    BY <1>4 DEF Read
  <1>6. Cardinality(Because(q))' = Cardinality(Because(q)) + 1
    BY <1>b, Sizes, OneMore
  <1>7. \A p : p # q => Cardinality(Because(p))' = Cardinality(Because(p))
    BY <1>c
  <1> QED BY <1>5, <1>6, <1>7

\* What is left to show of a handler's step.
LEMMA HandlerStep ==
    ASSUME IInv, UNCHANGED clientVars,
           NEW h \in Requests, hpc[h] # "none",
           NEW b \in HandlerStates, b # "none", hpc' = [hpc EXCEPT ![h] = b],
           status' \in [Requests -> Statuses \cup {0}],
           reason' \in [Requests -> Reasons \cup {"ok"}],
           gone' \subseteq Requests, waiters' \subseteq Requests,
           seen' \in [Requests -> Nat], met' \in GatewayMetrics,
           rejected' \in BOOLEAN, exceeded' \in BOOLEAN,
           met'.received = met.received,
           Streams', Limits', Counted', Read'
    PROVE  IInv'
  <1>1. TypeOK'
    BY HandlerFrame DEF IInv, TypeOK, clientVars
  <1>2. Sent'
    <2>1. InCall' = InCall /\ Unheard' = Unheard
      BY HandlerFrame
    <2> QED BY <2>1 DEF IInv, Sent, clientVars
  <1>3. Numbers' /\ Logged' /\ AllSent' /\ Returning'
    BY HandlerFrame
  <1> QED BY <1>1, <1>2, <1>3 DEF IInv

\* The max_pending gate.
LEMMA GateStep ==
    ASSUME IInv, UNCHANGED clientVars, NEW h \in Requests, Gate(h)
    PROVE  IInv'
  <1> USE DEF Move, Write
  <1>0. /\ hpc[h] = "gate" /\ UNCHANGED <<gone, waiters, seen, exceeded>>
        /\ hpc[h] # "none" /\ hpc[h] \notin {"observe", "done"}
        /\ h \in Inside /\ h \notin Serving
    BY DEF Gate, Inside, Serving
  <1>1. CASE /\ OverLimit(met.managerPending)
             /\ hpc' = [hpc EXCEPT ![h] = "observe"]
             /\ met' = AddHTTPRateLimited(met)
             /\ status' = [status EXCEPT ![h] = 429]
             /\ reason' = [reason EXCEPT ![h] = "rate_limited"]
             /\ rejected' = TRUE
    <2>1. /\ met' \in GatewayMetrics /\ met'.rateLimited = met.rateLimited + 1
          /\ met'.byStatus = met.byStatus /\ met'.failByReason = met.failByReason
          /\ met'.received = met.received
          /\ met'.total = met.total /\ met'.ok = met.ok /\ met'.fail = met.fail
          /\ met'.inFlight = met.inFlight /\ met'.http504 = met.http504
          /\ met'.managerPending = met.managerPending
      BY <1>1, NumberTypes DEF GatewayMetrics, AddHTTPRateLimited
    <2>2. 429 \in Statuses /\ "rate_limited" \in Reasons
      BY StatusFacts, ReasonFacts
    <2>3. /\ hpc'[h] = "observe" /\ \A g \in Requests : g # h => hpc'[g] = hpc[g]
          /\ "observe" \in HandlerStates
      BY <1>0, <1>1, HandlerFrame DEF HandlerStates
    <2>10. PICK s \in Statuses : s = 429
      BY <2>2
    <2>13. PICK q \in Reasons \cup {"ok"} : q = "rate_limited"
      BY <2>2
    <2>12. /\ hpc' = [hpc EXCEPT ![h] = "observe"] /\ status' = [status EXCEPT ![h] = s]
           /\ reason' = [reason EXCEPT ![h] = q]
           /\ s >= 400 <=> q # "ok"
      BY <1>1, <2>10, <2>13
    <2>11. /\ \A g \in Requests : Wrote(g)'
           /\ status' \in [Requests -> Statuses \cup {0}]
           /\ reason' \in [Requests -> Reasons \cup {"ok"}]
      BY <1>0, <2>12, WrittenStep
    <2>4. Inside' = Inside /\ Serving' = Serving
      BY <1>0, <2>3 DEF Inside, Serving
    <2>5. Streams'
      BY <1>0, <2>4, <2>11 DEF IInv, Streams, clientVars
    <2>6. Limits'
      <3>1. exceeded
        <4> SUFFICES ASSUME ~exceeded PROVE FALSE
          OBVIOUS
        <4>1. met.managerPending <= MaxPending
          BY DEF IInv, Limits
        <4> QED BY <1>1, <4>1, NumberTypes, ServerAssumption DEF OverLimit
      <3> QED BY <3>1, <1>0 DEF Limits, NeverOverNeverRefused
    <2>7. /\ Cardinality(Because("rate_limited"))' = Cardinality(Because("rate_limited")) + 1
          /\ Cardinality(Because("timeout"))' = Cardinality(Because("timeout"))
          /\ Read'
      <3>1. /\ Cardinality(Because(q))' = Cardinality(Because(q)) + 1
            /\ \A p : p # q => Cardinality(Because(p))' = Cardinality(Because(p))
            /\ Read'
        BY <1>0, <2>1, <2>12, WrittenCounts DEF clientVars
      <3> QED BY <3>1, <2>13
    <2>8. Counted'
      <3>1. Counted
        BY DEF IInv
      <3>2. met.failByReason["rate_limited"] \in Nat /\ Cardinality(Because("rate_limited")) \in Nat
        BY NumberTypes, Sizes, <2>2
      <3>3. Refusals'
        BY <3>1, <3>2, <2>1, <2>7 DEF Counted, Refusals
      <3>4. Timeouts'
        BY <3>1, <2>1, <2>7 DEF Counted, Timeouts
      <3> QED BY <3>1, <3>3, <3>4, <2>1, <2>4 DEF Counted
    <2>9. /\ gone' \subseteq Requests /\ waiters' \subseteq Requests
           /\ seen' \in [Requests -> Nat]
           /\ rejected' \in BOOLEAN /\ exceeded' \in BOOLEAN
      BY <1>0, <1>1 DEF IInv, TypeOK
    <2> QED BY <1>0, <2>1, <2>3, <2>12, <2>11, <2>5, <2>6, <2>7, <2>8, <2>9, HandlerStep
  <1>2. CASE /\ ~OverLimit(met.managerPending)
             /\ hpc' = [hpc EXCEPT ![h] = "create"]
             /\ met' = AddInFlight(met, 1)
             /\ UNCHANGED <<status, reason, rejected>>
    <2>1. /\ met' \in GatewayMetrics /\ met'.rateLimited = met.rateLimited
          /\ met'.byStatus = met.byStatus /\ met'.failByReason = met.failByReason
          /\ met'.received = met.received
          /\ met'.total = met.total /\ met'.ok = met.ok /\ met'.fail = met.fail
          /\ met'.http504 = met.http504 /\ met'.managerPending = met.managerPending
      BY <1>2, NumberTypes DEF GatewayMetrics, AddInFlight
    <2>2. met'.inFlight = met.inFlight + 1
      BY <1>2, NumberTypes, MetricsSteps
    <2>3. /\ hpc'[h] = "create" /\ \A g \in Requests : g # h => hpc'[g] = hpc[g]
          /\ "create" \in HandlerStates
      BY <1>0, <1>2, HandlerFrame DEF HandlerStates
    <2>4. Inside' = Inside /\ (\A s \in Statuses : Writing(s)' = Writing(s) /\ Due(s)' = Due(s))
          /\ (\A q : Because(q)' = Because(q))
          /\ Streams'
      BY <1>0, <1>2, <2>3, UnwrittenStep
    <2>5. Serving' = Serving \cup {h}
      BY <1>0, <2>3, <2>4 DEF Serving, Inside
    <2>6. Cardinality(Serving)' = Cardinality(Serving) + 1
      BY <1>0, <2>5, Sizes, OneMore
    <2>7. Limits'
      BY <1>0, <1>2, <2>1 DEF IInv, Limits, NeverOverNeverRefused
    <2>8. Counted'
      <3>1. Counted
        BY DEF IInv
      <3>2. Refusals' /\ Timeouts'
        BY <3>1, <2>1, <2>4 DEF Counted, Refusals, Timeouts
      <3> QED BY <3>1, <3>2, <2>1, <2>2, <2>4, <2>6 DEF Counted
    <2>9. Read'
      BY <2>1, <2>4 DEF IInv, Read, Given, clientVars
    <2>10. /\ status' \in [Requests -> Statuses \cup {0}]
           /\ reason' \in [Requests -> Reasons \cup {"ok"}]
           /\ gone' \subseteq Requests /\ waiters' \subseteq Requests
           /\ seen' \in [Requests -> Nat]
           /\ rejected' \in BOOLEAN /\ exceeded' \in BOOLEAN
      BY <1>0, <1>2 DEF IInv, TypeOK
    <2> QED BY <1>0, <1>2, <2>1, <2>3, <2>4, <2>7, <2>8, <2>9, <2>10, HandlerStep
  <1> QED BY <1>1, <1>2 DEF Gate

\* A step between the gate and the response, of which only the gauge, the map
\* and what was computed of it are left to show.
LEMMA ServingStep ==
    ASSUME IInv, UNCHANGED clientVars, UNCHANGED <<status, reason, gone>>,
           NEW h \in Requests, NEW b \in {"created", "waiting", "removed"},
           hpc[h] \in {"create", "created", "waiting"},
           hpc' = [hpc EXCEPT ![h] = b],
           NEW n \in Nat, met' = SetManagerPending(met, n),
           waiters' \subseteq Requests, seen' \in [Requests -> Nat],
           rejected' \in BOOLEAN, exceeded' \in BOOLEAN,
           Limits'
    PROVE  IInv'
  <1>1. /\ met' \in GatewayMetrics /\ met'.rateLimited = met.rateLimited
        /\ met'.byStatus = met.byStatus /\ met'.failByReason = met.failByReason
        /\ met'.received = met.received
        /\ met'.total = met.total /\ met'.ok = met.ok /\ met'.fail = met.fail
        /\ met'.http504 = met.http504 /\ met'.inFlight = met.inFlight
    BY NumberTypes DEF GatewayMetrics, SetManagerPending
  <1>2. /\ hpc[h] # "none" /\ b # "none" /\ b \in HandlerStates
        /\ hpc[h] \in {"gate", "create", "created", "waiting", "removed"}
        /\ b \in {"gate", "create", "created", "waiting", "removed"}
    BY DEF HandlerStates
  <1>3. hpc'[h] = b /\ \A g \in Requests : g # h => hpc'[g] = hpc[g]
    BY <1>2, HandlerFrame
  <1>4. /\ Inside' = Inside
        /\ \A s \in Statuses : Writing(s)' = Writing(s) /\ Due(s)' = Due(s)
        /\ \A q : Because(q)' = Because(q)
        /\ Streams'
    BY <1>2, UnwrittenStep
  <1>5. Serving' = Serving
    BY <1>3, <1>4 DEF Serving, Inside
  <1>6. Counted'
    <2>1. Counted
      BY DEF IInv
    <2>2. Refusals' /\ Timeouts'
      BY <2>1, <1>1, <1>4 DEF Counted, Refusals, Timeouts
    <2> QED BY <2>1, <2>2, <1>1, <1>4, <1>5 DEF Counted
  <1>7. Read'
    BY <1>1, <1>4 DEF IInv, Read, Given, clientVars
  <1>8. /\ status' \in [Requests -> Statuses \cup {0}] /\ gone' \subseteq Requests
        /\ reason' \in [Requests -> Reasons \cup {"ok"}]
    BY DEF IInv, TypeOK
  <1> QED BY <1>1, <1>2, <1>4, <1>6, <1>7, <1>8, HandlerStep

\* The map and its size.
LEMMA SizedFacts ==
    ASSUME IInv, NEW h \in Requests, NEW W \in SUBSET Requests, Sized(h, W)
    PROVE  /\ waiters' = W /\ waiters' \subseteq Requests
           /\ Cardinality(W) \in Nat
           /\ seen' \in [Requests -> Nat]
           /\ seen'[h] = Cardinality(W)
           /\ \A g \in Requests : g # h => seen'[g] = seen[g]
  <1>1. waiters' = W /\ seen' = [seen EXCEPT ![h] = Cardinality(W)]
    BY DEF Sized
  <1>2. Cardinality(W) \in Nat
    BY Finite
  <1>3. seen \in [Requests -> Nat]
    BY DEF IInv, TypeOK
  <1> QED BY <1>1, <1>2, <1>3

\* Manager.Create, under the lock.
LEMMA CreateStep ==
    ASSUME IInv, UNCHANGED clientVars, NEW h \in Requests, Create(h)
    PROVE  IInv'
  <1> DEFINE W == waiters \cup {h}
  <1>1. /\ hpc[h] = "create" /\ hpc' = [hpc EXCEPT ![h] = "created"]
        /\ Sized(h, W) /\ UNCHANGED <<status, reason, gone, met, rejected>>
    BY DEF Create, Move
  <1>2. W \in SUBSET Requests
    BY DEF IInv, TypeOK
  <1>3. /\ waiters' = W /\ waiters' \subseteq Requests
        /\ Cardinality(W) \in Nat
        /\ seen' \in [Requests -> Nat]
        /\ seen'[h] = Cardinality(W)
        /\ \A g \in Requests : g # h => seen'[g] = seen[g]
    BY <1>1, <1>2, SizedFacts
  <1>4. exceeded' = (exceeded \/ Cardinality(W) > MaxPending)
    BY <1>3 DEF Create
  <1> HIDE DEF W
  <1>5. rejected' \in BOOLEAN /\ exceeded' \in BOOLEAN
    BY <1>1, <1>4 DEF IInv, TypeOK
  <1>6. Limits'
    <2>1. NeverOverNeverRefused'
      BY <1>1, <1>4 DEF IInv, Limits, NeverOverNeverRefused
    <2>2. ASSUME ~exceeded'
          PROVE  /\ met'.managerPending <= MaxPending
                 /\ Cardinality(waiters') <= MaxPending
                 /\ \A g \in Requests : seen'[g] <= MaxPending
      <3>1. ~exceeded /\ ~(Cardinality(W) > MaxPending)
        BY <1>4, <2>2
      <3>2. Cardinality(W) <= MaxPending
        BY <3>1, <1>3, ServerAssumption
      <3>3. met.managerPending <= MaxPending /\ \A g \in Requests : seen[g] <= MaxPending
        BY <3>1 DEF IInv, Limits
      <3>4. \A g \in Requests : seen'[g] <= MaxPending
        BY <3>2, <3>3, <1>3
      <3> QED BY <1>1, <1>3, <3>2, <3>3, <3>4
    <2> QED BY <2>1, <2>2 DEF Limits
  <1>7. PICK n \in Nat : met' = SetManagerPending(met, n)
    <2>1. met.managerPending \in Nat /\ met \in GatewayMetrics
      BY NumberTypes
    <2>2. met' = SetManagerPending(met, met.managerPending)
      BY <1>1, <2>1 DEF SetManagerPending, GatewayMetrics
    <2> QED BY <2>1, <2>2
  <1>8. PICK b \in {"created", "waiting", "removed"} : hpc' = [hpc EXCEPT ![h] = b]
    BY <1>1
  <1>9. hpc[h] \in {"create", "created", "waiting"}
    BY <1>1
  <1>10. UNCHANGED <<status, reason, gone>>
    BY <1>1
  <1> QED BY <1>3, <1>5, <1>6, <1>7, <1>8, <1>9, <1>10, ServingStep

\* The gauge stored after Create.
LEMMA CreatePublishStep ==
    ASSUME IInv, UNCHANGED clientVars, NEW h \in Requests, CreatePublish(h)
    PROVE  IInv'
  <1>1. /\ hpc[h] = "created" /\ hpc' = [hpc EXCEPT ![h] = "waiting"]
        /\ met' = SetManagerPending(met, seen[h])
        /\ UNCHANGED <<status, reason, gone, waiters, seen, rejected, exceeded>>
    BY DEF CreatePublish, Move
  <1>2. seen \in [Requests -> Nat] /\ seen[h] \in Nat /\ waiters \subseteq Requests
        /\ rejected \in BOOLEAN /\ exceeded \in BOOLEAN
    BY DEF IInv, TypeOK
  <1>3. met'.managerPending = seen[h]
    BY <1>1, NumberTypes DEF SetManagerPending, GatewayMetrics
  <1>4. Limits'
    BY <1>1, <1>3 DEF IInv, Limits, NeverOverNeverRefused
  <1>5. PICK b \in {"created", "waiting", "removed"} : hpc' = [hpc EXCEPT ![h] = b]
    BY <1>1
  <1>6. PICK n \in Nat : met' = SetManagerPending(met, n)
    BY <1>1, <1>2
  <1>7. hpc[h] \in {"create", "created", "waiting"}
    BY <1>1
  <1>8. /\ UNCHANGED <<status, reason, gone>> /\ waiters' \subseteq Requests
        /\ seen' \in [Requests -> Nat] /\ rejected' \in BOOLEAN /\ exceeded' \in BOOLEAN
    BY <1>1, <1>2
  <1> QED BY <1>4, <1>5, <1>6, <1>7, <1>8, ServingStep

\* Manager.remove, under the lock.
LEMMA RemoveStep ==
    ASSUME IInv, UNCHANGED clientVars, NEW h \in Requests, Remove(h)
    PROVE  IInv'
  <1> DEFINE W == waiters \ {h}
  <1>1. /\ hpc[h] = "waiting" /\ hpc' = [hpc EXCEPT ![h] = "removed"]
        /\ Sized(h, W) /\ UNCHANGED <<status, reason, gone, met, rejected, exceeded>>
    BY DEF Remove, Move
  <1>2. W \in SUBSET Requests /\ waiters \in SUBSET Requests
    BY DEF IInv, TypeOK
  <1>3. /\ waiters' = W /\ waiters' \subseteq Requests
        /\ Cardinality(W) \in Nat
        /\ seen' \in [Requests -> Nat]
        /\ seen'[h] = Cardinality(W)
        /\ \A g \in Requests : g # h => seen'[g] = seen[g]
    BY <1>1, <1>2, SizedFacts
  <1>4. Cardinality(W) <= Cardinality(waiters) /\ Cardinality(waiters) \in Nat
    <2>1. IsFiniteSet(waiters) /\ W \subseteq waiters
      BY <1>2, Finite
    <2> QED BY <1>2, <2>1, FS_Subset, Finite
  <1> HIDE DEF W
  <1>5. rejected' \in BOOLEAN /\ exceeded' \in BOOLEAN
    BY <1>1 DEF IInv, TypeOK
  <1>6. Limits'
    <2>1. NeverOverNeverRefused'
      BY <1>1 DEF IInv, Limits, NeverOverNeverRefused
    <2>2. ASSUME ~exceeded'
          PROVE  /\ met'.managerPending <= MaxPending
                 /\ Cardinality(waiters') <= MaxPending
                 /\ \A g \in Requests : seen'[g] <= MaxPending
      <3>1. /\ met.managerPending <= MaxPending /\ Cardinality(waiters) <= MaxPending
            /\ \A g \in Requests : seen[g] <= MaxPending
        BY <1>1, <2>2 DEF IInv, Limits
      <3>2. Cardinality(W) <= MaxPending
        BY <3>1, <1>3, <1>4, ServerAssumption
      <3>3. \A g \in Requests : seen'[g] <= MaxPending
        BY <3>1, <3>2, <1>3
      <3> QED BY <1>1, <1>3, <3>1, <3>2, <3>3
    <2> QED BY <2>1, <2>2 DEF Limits
  <1>7. PICK n \in Nat : met' = SetManagerPending(met, n)
    <2>1. met.managerPending \in Nat /\ met \in GatewayMetrics
      BY NumberTypes
    <2>2. met' = SetManagerPending(met, met.managerPending)
      BY <1>1, <2>1 DEF SetManagerPending, GatewayMetrics
    <2> QED BY <2>1, <2>2
  <1>8. PICK b \in {"created", "waiting", "removed"} : hpc' = [hpc EXCEPT ![h] = b]
    BY <1>1
  <1>9. hpc[h] \in {"create", "created", "waiting"}
    BY <1>1
  <1>10. UNCHANGED <<status, reason, gone>>
    BY <1>1
  <1> QED BY <1>3, <1>5, <1>6, <1>7, <1>8, <1>9, <1>10, ServingStep

\* The errors: a status that is one, with its reason, and only a timeout is
\* counted as the gateway's own.
LEMMA FailFacts ==
    ASSUME NEW h \in Requests, NEW m \in GatewayMetrics, NEW e \in Errors[h], Fail(h, e, m)
    PROVE  \E s \in Statuses, q \in Reasons \cup {"ok"} :
              /\ status' = [status EXCEPT ![h] = s] /\ reason' = [reason EXCEPT ![h] = q]
              /\ s >= 400 <=> q # "ok"
              /\ q # "rate_limited"
              /\ met' = m \/ (q = "timeout" /\ met' = AddHTTP504(m))
  <1>1. e \in TxErrors /\ e.status \in Statuses
    BY ServerAssumption
  <1>2. /\ e.status >= 400 /\ e.reason \in Reasons
        /\ e.reason # "ok" /\ e.reason # "rate_limited"
    BY <1>1 DEF TxErrors, Error, Reasons
  <1>3. PICK s \in Statuses : s = e.status
    BY <1>1
  <1>4. PICK q \in Reasons \cup {"ok"} : q = e.reason
    BY <1>2
  <1>5. /\ status' = [status EXCEPT ![h] = s] /\ reason' = [reason EXCEPT ![h] = q]
        /\ met' = m \/ (q = "timeout" /\ met' = AddHTTP504(m))
    BY <1>3, <1>4 DEF Fail, Write
  <1>6. (s >= 400 <=> q # "ok") /\ q # "rate_limited"
    BY <1>2, <1>3, <1>4
  <1> QED BY <1>5, <1>6, Zenon

\* The outcomes: Logic's status, or an error.
LEMMA OutcomeFacts ==
    ASSUME NEW h \in Requests, NEW m \in GatewayMetrics, Outcome(h, m)
    PROVE  \E s \in Statuses, q \in Reasons \cup {"ok"} :
              /\ status' = [status EXCEPT ![h] = s] /\ reason' = [reason EXCEPT ![h] = q]
              /\ s >= 400 <=> q # "ok"
              /\ q # "rate_limited"
              /\ met' = m \/ (q = "timeout" /\ met' = AddHTTP504(m))
  <1>1. CASE \E s \in LogicStatuses[h] : Write(h, Passed(s), ReasonOf(Passed(s))) /\ met' = m
    <2>1. PICK t \in LogicStatuses[h] : Write(h, Passed(t), ReasonOf(Passed(t))) /\ met' = m
      BY <1>1
    <2>2. PICK s \in Statuses : s = Passed(t)
      BY ServerAssumption
    <2>3. PICK q \in Reasons \cup {"ok"} : q = ReasonOf(s)
      BY DEF ReasonOf, Reasons
    <2>4. status' = [status EXCEPT ![h] = s] /\ reason' = [reason EXCEPT ![h] = q] /\ met' = m
      BY <2>1, <2>2, <2>3 DEF Write
    <2>5. s >= 400 <=> q # "ok"
      BY <2>3 DEF ReasonOf
    <2>6. q # "rate_limited"
      BY <2>3 DEF ReasonOf
    <2> QED BY <2>4, <2>5, <2>6, Zenon
  <1>2. CASE \E e \in Errors[h] : Fail(h, e, m)
    BY <1>2, FailFacts
  <1> QED BY <1>1, <1>2 DEF Outcome

\* The response, the end of the service; n is the gauge.
LEMMA ServedStep ==
    ASSUME IInv, UNCHANGED clientVars, NEW h \in Requests,
           hpc[h] \in {"create", "removed"}, hpc' = [hpc EXCEPT ![h] = "observe"],
           NEW n \in Nat, ~exceeded => n <= MaxPending,
           NEW m, m = AddInFlight(SetManagerPending(met, n), -1),
           NEW s \in Statuses, NEW q \in Reasons \cup {"ok"},
           status' = [status EXCEPT ![h] = s], reason' = [reason EXCEPT ![h] = q],
           s >= 400 <=> q # "ok", q # "rate_limited",
           met' = m \/ (q = "timeout" /\ met' = AddHTTP504(m)),
           UNCHANGED <<gone, waiters, seen, rejected, exceeded>>
    PROVE  IInv'
  <1>2. hpc[h] # "none" /\ hpc[h] \notin {"observe", "done"} /\ h \in Inside /\ h \in Serving
    BY DEF Inside, Serving
  <1>4. met.inFlight > 0
    BY <1>2, OneLess, Sizes DEF IInv, Counted
  <1>5. /\ m \in GatewayMetrics /\ m.rateLimited = met.rateLimited
        /\ m.byStatus = met.byStatus /\ m.failByReason = met.failByReason
        /\ m.received = met.received
        /\ m.total = met.total /\ m.ok = met.ok /\ m.fail = met.fail
        /\ m.http504 = met.http504 /\ m.managerPending = n
        /\ m.inFlight = met.inFlight - 1
    <2> DEFINE k == SetManagerPending(met, n)
    <2>1. /\ k \in GatewayMetrics /\ k.rateLimited = met.rateLimited
          /\ k.byStatus = met.byStatus /\ k.failByReason = met.failByReason
          /\ k.received = met.received
          /\ k.total = met.total /\ k.ok = met.ok /\ k.fail = met.fail
          /\ k.http504 = met.http504 /\ k.managerPending = n
          /\ k.inFlight = met.inFlight
      BY NumberTypes DEF SetManagerPending, GatewayMetrics
    <2>4. m = AddInFlight(k, -1)
      OBVIOUS
    <2> HIDE DEF k
    <2>2. m \in GatewayMetrics /\ m.inFlight = k.inFlight - 1
      BY <2>1, <2>4, <1>4, MetricsSteps
    <2>3. /\ m.rateLimited = k.rateLimited /\ m.byStatus = k.byStatus
          /\ m.failByReason = k.failByReason /\ m.received = k.received
          /\ m.total = k.total /\ m.ok = k.ok /\ m.fail = k.fail
          /\ m.http504 = k.http504 /\ m.managerPending = k.managerPending
      BY <2>1, <2>4 DEF AddInFlight, GatewayMetrics
    <2> QED BY <2>1, <2>2, <2>3
  <1>7. /\ met' \in GatewayMetrics /\ met'.rateLimited = met.rateLimited
        /\ met'.byStatus = met.byStatus /\ met'.failByReason = met.failByReason
        /\ met'.received = met.received
        /\ met'.total = met.total /\ met'.ok = met.ok /\ met'.fail = met.fail
        /\ met'.managerPending = n /\ met'.inFlight = met.inFlight - 1
        /\ met'.http504 = met.http504 \/ (q = "timeout" /\ met'.http504 = met.http504 + 1)
    <2>1. CASE met' = m
      <3>1. met'.http504 = met.http504
        BY <2>1, <1>5
      <3>2. /\ met' \in GatewayMetrics /\ met'.rateLimited = met.rateLimited
            /\ met'.byStatus = met.byStatus /\ met'.failByReason = met.failByReason
            /\ met'.received = met.received
            /\ met'.total = met.total /\ met'.ok = met.ok /\ met'.fail = met.fail
            /\ met'.managerPending = n /\ met'.inFlight = met.inFlight - 1
        BY <2>1, <1>5
      <3> QED BY <3>1, <3>2
    <2>2. CASE q = "timeout" /\ met' = AddHTTP504(m)
      <3>1. /\ AddHTTP504(m) \in GatewayMetrics
            /\ AddHTTP504(m).rateLimited = m.rateLimited
            /\ AddHTTP504(m).byStatus = m.byStatus
            /\ AddHTTP504(m).failByReason = m.failByReason
            /\ AddHTTP504(m).received = m.received
            /\ AddHTTP504(m).total = m.total
            /\ AddHTTP504(m).ok = m.ok
            /\ AddHTTP504(m).fail = m.fail
            /\ AddHTTP504(m).managerPending = m.managerPending
            /\ AddHTTP504(m).inFlight = m.inFlight
            /\ AddHTTP504(m).http504 = m.http504 + 1
        BY <1>5 DEF AddHTTP504, GatewayMetrics
      <3> QED BY <2>2, <3>1, <1>5
    <2> QED BY <2>1, <2>2
  <1>8. /\ hpc'[h] = "observe" /\ \A g \in Requests : g # h => hpc'[g] = hpc[g]
        /\ "observe" \in HandlerStates
    BY <1>2, HandlerFrame DEF HandlerStates
  <1>9. Inside' = Inside /\ Serving' = Serving \ {h}
    BY <1>2, <1>8 DEF Inside, Serving
  <1>10. Cardinality(Serving)' = Cardinality(Serving) - 1
    BY <1>2, <1>9, OneLess, Sizes
  <1>11. /\ \A g \in Requests : Wrote(g)'
         /\ status' \in [Requests -> Statuses \cup {0}]
         /\ reason' \in [Requests -> Reasons \cup {"ok"}]
    BY <1>2, WrittenStep
  <1>12. Streams'
    BY <1>9, <1>11 DEF IInv, Streams, clientVars
  <1>13. Limits'
    BY <1>7 DEF IInv, Limits, NeverOverNeverRefused
  <1>14. /\ Cardinality(Because(q))' = Cardinality(Because(q)) + 1
         /\ \A p : p # q => Cardinality(Because(p))' = Cardinality(Because(p))
         /\ Read'
    BY <1>2, <1>7, WrittenCounts DEF clientVars
  <1>15. Counted'
    <2>1. Counted /\ "timeout" \in Reasons
      BY ReasonFacts DEF IInv
    <2>2. /\ met.failByReason["timeout"] \in Nat /\ Cardinality(Because("timeout")) \in Nat
          /\ met.http504 \in Nat
      BY NumberTypes, Sizes, <2>1
    <2>3. Timeouts'
      <3>1. met.http504 <= met.failByReason["timeout"] + Cardinality(Because("timeout"))
        BY <2>1 DEF Counted, Timeouts
      <3>2. CASE q = "timeout"
        BY <3>1, <3>2, <2>2, <1>7, <1>14 DEF Timeouts
      <3>3. CASE q # "timeout"
        <4>1. Cardinality(Because("timeout"))' = Cardinality(Because("timeout"))
          BY <3>3, <1>14
        <4> QED BY <3>1, <3>3, <4>1, <2>2, <1>7 DEF Timeouts
      <3> QED BY <3>2, <3>3
    <2>4. Refusals'
      BY <2>1, <1>7, <1>14 DEF Counted, Refusals
    <2> QED BY <2>1, <2>3, <2>4, <1>7, <1>9, <1>10 DEF Counted
  <1>16. /\ gone' \subseteq Requests /\ waiters' \subseteq Requests
         /\ seen' \in [Requests -> Nat] /\ rejected' \in BOOLEAN /\ exceeded' \in BOOLEAN
    BY DEF IInv, TypeOK
  <1> QED BY <1>2, <1>7, <1>8, <1>11, <1>12, <1>13, <1>14, <1>15, <1>16, HandlerStep

\* The gauge stored after remove, and the response.
LEMMA RemovePublishStep ==
    ASSUME IInv, UNCHANGED clientVars, NEW h \in Requests, RemovePublish(h)
    PROVE  IInv'
  <1> DEFINE m == AddInFlight(SetManagerPending(met, seen[h]), -1)
  <1>1. /\ hpc[h] \in {"create", "removed"} /\ hpc' = [hpc EXCEPT ![h] = "observe"]
        /\ Outcome(h, m) /\ UNCHANGED <<gone, waiters, seen, rejected, exceeded>>
    BY DEF RemovePublish, Move
  <1>2. seen[h] \in Nat /\ (~exceeded => seen[h] <= MaxPending)
    BY DEF IInv, TypeOK, Limits
  <1>3. m \in GatewayMetrics
    <2>1. SetManagerPending(met, seen[h]) \in GatewayMetrics
      BY <1>2, NumberTypes, MetricsSteps
    <2> QED BY <2>1, MetricsSteps
  <1> HIDE DEF m
  <1>4. PICK s \in Statuses, q \in Reasons \cup {"ok"} :
              /\ status' = [status EXCEPT ![h] = s] /\ reason' = [reason EXCEPT ![h] = q]
              /\ s >= 400 <=> q # "ok"
              /\ q # "rate_limited"
              /\ met' = m \/ (q = "timeout" /\ met' = AddHTTP504(m))
    BY <1>1, <1>3, OutcomeFacts
  <1>5. PICK n \in Nat : n = seen[h]
    BY <1>2
  <1>6. (~exceeded => n <= MaxPending) /\ m = AddInFlight(SetManagerPending(met, n), -1)
    BY <1>2, <1>5 DEF m
  <1> QED BY <1>1, <1>4, <1>6, ServedStep

\* An error without a transaction, which leaves the gauge alone.
LEMMA RefuseStep ==
    ASSUME IInv, UNCHANGED clientVars, NEW h \in Requests, Refuse(h)
    PROVE  IInv'
  <1> DEFINE m == AddInFlight(met, -1)
  <1>1. /\ hpc[h] \in {"create", "removed"} /\ hpc' = [hpc EXCEPT ![h] = "observe"]
        /\ UNCHANGED <<gone, waiters, seen, rejected, exceeded>>
    BY DEF Refuse, Move
  <1>2. PICK e \in Errors[h] : Fail(h, e, m)
    BY DEF Refuse
  <1>3. m \in GatewayMetrics
    BY NumberTypes, MetricsSteps
  <1>5. PICK n \in Nat : n = met.managerPending
    BY NumberTypes
  <1>6. met = SetManagerPending(met, n)
    BY <1>5, NumberTypes DEF SetManagerPending, GatewayMetrics
  <1>7. (~exceeded => n <= MaxPending) /\ m = AddInFlight(SetManagerPending(met, n), -1)
    BY <1>5, <1>6 DEF IInv, Limits
  <1> HIDE DEF m
  <1>4. PICK s \in Statuses, q \in Reasons \cup {"ok"} :
              /\ status' = [status EXCEPT ![h] = s] /\ reason' = [reason EXCEPT ![h] = q]
              /\ s >= 400 <=> q # "ok"
              /\ q # "rate_limited"
              /\ met' = m \/ (q = "timeout" /\ met' = AddHTTP504(m))
    BY <1>2, <1>3, FailFacts
  <1> QED BY <1>1, <1>4, <1>7, ServedStep

\* Observe, and the end of the handler.
LEMMA FinishStep ==
    ASSUME IInv, UNCHANGED clientVars, NEW h \in Requests, Finish(h)
    PROVE  IInv'
  <1>1. /\ hpc[h] = "observe" /\ hpc' = [hpc EXCEPT ![h] = "done"]
        /\ seen' = [seen EXCEPT ![h] = 0] /\ gone' = gone \ {h}
        /\ UNCHANGED <<waiters, rejected, exceeded>>
    BY DEF Finish, Move
  <1>2. hpc[h] # "none" /\ h \in Inside
    BY <1>1 DEF Inside
  <1>3. PICK s \in Statuses : s = status[h]
    BY <1>1 DEF IInv, Streams, Wrote
  <1>q. PICK q \in Reasons \cup {"ok"} : q = reason[h]
    BY DEF IInv, TypeOK
  <1>a. s >= 400 <=> q # "ok"
    BY <1>1, <1>3, <1>q DEF IInv, Streams, Wrote
  <1>4. /\ met' = Observe(met, s, q)
        /\ status' = [status EXCEPT ![h] = IF h \in gone THEN 0 ELSE s]
        /\ reason' = [reason EXCEPT ![h] = "ok"]
    BY <1>3, <1>q DEF Finish, Write
  <1>5. /\ met' \in GatewayMetrics
        /\ met'.total = met.total + 1
        /\ met'.total = met'.ok + met'.fail
        /\ met'.byStatus[s] = met.byStatus[s] + 1
        /\ \A r \in Statuses \ {s} : met'.byStatus[r] = met.byStatus[r]
        /\ \A r \in Reasons \ {"unknown"} :
             met'.failByReason[r] = IF r = q THEN met.failByReason[r] + 1 ELSE met.failByReason[r]
        /\ met'.failByReason["unknown"] \in Nat
        /\ met'.failByReason["unknown"] >= met.failByReason["unknown"]
        /\ Wire(s) # s => met'.failByReason["unknown"] = met.failByReason["unknown"] + 1
        /\ met'.received = met.received /\ met'.rateLimited = met.rateLimited
        /\ met'.http504 = met.http504 /\ met'.inFlight = met.inFlight
        /\ met'.managerPending = met.managerPending
    <2>1. met.total = met.ok + met.fail
      BY DEF IInv, Counted
    <2> QED BY <1>4, <1>a, <2>1, NumberTypes, ObserveStep
  <1>6. /\ hpc'[h] = "done" /\ \A g \in Requests : g # h => hpc'[g] = hpc[g]
        /\ "done" \in HandlerStates
    BY <1>1, <1>2, HandlerFrame DEF HandlerStates
  <1>7. /\ status' \in [Requests -> Statuses \cup {0}]
        /\ status'[h] = IF h \in gone THEN 0 ELSE s
        /\ \A g \in Requests : g # h => status'[g] = status[g]
        /\ reason' \in [Requests -> Reasons \cup {"ok"}]
        /\ \A g \in Requests : g # h => reason'[g] = reason[g]
    BY <1>4 DEF IInv, TypeOK
  <1>8. /\ gone' \subseteq Requests /\ waiters' \subseteq Requests
        /\ rejected' \in BOOLEAN /\ exceeded' \in BOOLEAN
        /\ seen' \in [Requests -> Nat] /\ seen'[h] = 0
        /\ \A g \in Requests : g # h => seen'[g] = seen[g]
    BY <1>1 DEF IInv, TypeOK
  <1>9. Inside' = Inside \ {h} /\ Serving' = Serving
    BY <1>1, <1>6 DEF Inside, Serving
  <1>10. Streams'
    <2>1. gone' \subseteq Inside'
      BY <1>1, <1>9 DEF IInv, Streams
    <2>2. \A w \in Workers : wpc'[w] = "call" => cur'[w] \notin gone'
      BY <1>1 DEF IInv, Streams, clientVars
    <2>3. \A g \in Requests : Wrote(g)'
      BY <1>6, <1>7 DEF IInv, Streams, Wrote
    <2> QED BY <2>1, <2>2, <2>3 DEF Streams
  <1>11. Limits'
    <2>1. \A g \in Requests : seen[g] <= MaxPending => seen'[g] <= MaxPending
      BY <1>8, ServerAssumption
    <2>2. Limits
      BY DEF IInv
    <2> QED BY <2>1, <2>2, <1>1, <1>5 DEF Limits, NeverOverNeverRefused
  <1>t. PICK t \in Statuses : t = Wire(s)
    BY StatusFacts
  <1>12. h \in Writing(t) /\ Writing(t)' = Writing(t) \ {h}
    BY <1>1, <1>3, <1>t, <1>6, <1>7 DEF Writing
  <1>13. \A r \in Statuses : r # t => Writing(r)' = Writing(r)
    BY <1>1, <1>3, <1>t, <1>6, <1>7 DEF Writing
  <1>b. h \in Because(q) /\ Because(q)' = Because(q) \ {h}
        /\ \A p : p # q => Because(p)' = Because(p)
    BY <1>1, <1>q, <1>6, <1>7 DEF Because
  <1>14. \A r \in Statuses : Due(r)' = Due(r)
    <2> SUFFICES ASSUME NEW r \in Statuses PROVE Due(r)' = Due(r)
      OBVIOUS
    <2>1. r # 0 /\ Wire(0) = 0
      BY StatusFacts
    <2>2. \A g \in Requests : g # h => (g \in Due(r)' <=> g \in Due(r))
      BY <1>1, <1>6, <1>7 DEF Due
    <2>3. h \in Due(r)' <=> h \in Due(r)
      <3>1. CASE h \in gone
        BY <1>7, <2>1, <3>1 DEF Due
      <3>2. CASE h \notin gone
        BY <1>1, <1>3, <1>6, <1>7, <3>2 DEF Due
      <3> QED BY <3>1, <3>2
    <2>4. Due(r) \subseteq Requests /\ Due(r)' \subseteq Requests
      BY DEF Due
    <2> QED BY <2>2, <2>3, <2>4
  <1>15. Cardinality(Writing(t))' = Cardinality(Writing(t)) - 1 /\ Cardinality(Writing(t)) > 0
    BY <1>12, OneLess, Sizes
  <1>16. \A r \in Statuses :
            /\ (Given(r) + Cardinality(Writing(r)))' \in Nat
            /\ (Given(r) + Cardinality(Writing(r)))' >= Given(r) + Cardinality(Writing(r))
    <2> SUFFICES ASSUME NEW r \in Statuses
                 PROVE  /\ (Given(r) + Cardinality(Writing(r)))' \in Nat
                        /\ (Given(r) + Cardinality(Writing(r)))'
                              >= Given(r) + Cardinality(Writing(r))
      OBVIOUS
    <2>1. met.byStatus[r] \in Nat /\ Cardinality(Writing(r)) \in Nat /\ Given(r) \in Nat
      BY NumberTypes, Sizes
    <2>u. met.failByReason["unknown"] \in Nat
      BY NumberTypes, ReasonFacts
    <2>2. /\ Given(r)' \in Nat /\ Given(r)' >= Given(r)
          /\ r = t => Given(r)' >= Given(r) + 1
      <3>1. met'.byStatus[r] = IF r = s THEN met.byStatus[r] + 1 ELSE met.byStatus[r]
        BY <1>5
      <3>2. CASE r # 200
        <4>1. r = t => r = s
          BY <3>2, <1>t DEF Wire
        <4>2. Given(r) = met.byStatus[r] /\ Given(r)' = met'.byStatus[r]
          BY <3>2, <2>1, <3>1 DEF Given
        <4> QED BY <4>1, <4>2, <3>1, <2>1
      <3>3. CASE r = 200
        <4>1. /\ Given(r) = met.byStatus[r] + met.failByReason["unknown"]
              /\ Given(r)' = met'.byStatus[r] + met'.failByReason["unknown"]
          BY <3>3 DEF Given
        <4>2. Given(r)' \in Nat /\ Given(r)' >= Given(r)
          BY <4>1, <3>1, <2>1, <2>u, <1>5
        <4>3. ASSUME r = t PROVE Given(r)' >= Given(r) + 1
          <5>1. CASE r = s
            BY <5>1, <4>1, <3>1, <2>1, <2>u, <1>5
          <5>2. CASE r # s
            <6>1. Wire(s) # s
              BY <4>3, <5>2, <1>t
            <6>2. met'.failByReason["unknown"] = met.failByReason["unknown"] + 1
              BY <6>1, <1>5
            <6> QED BY <6>2, <5>2, <4>1, <3>1, <2>1, <2>u
          <5> QED BY <5>1, <5>2
        <4> QED BY <4>2, <4>3
      <3> QED BY <3>2, <3>3
    <2>3. CASE r = t
      <3>1. Cardinality(Writing(r))' = Cardinality(Writing(r)) - 1 /\ Cardinality(Writing(r)) > 0
        BY <2>3, <1>15
      <3> QED BY <2>1, <2>2, <2>3, <3>1
    <2>4. CASE r # t
      <3>1. Cardinality(Writing(r))' = Cardinality(Writing(r))
        BY <2>4, <1>13
      <3> QED BY <2>1, <2>2, <3>1
    <2> QED BY <2>3, <2>4
  <1>17. Read'
    <2> SUFFICES ASSUME NEW r \in Statuses
                 PROVE  (st.byStatus[r] + Cardinality(Due(r)) <= Given(r) + Cardinality(Writing(r)))'
      BY DEF Read
    <2>1. st.byStatus[r] + Cardinality(Due(r)) <= Given(r) + Cardinality(Writing(r))
      BY DEF IInv, Read
    <2>2. /\ st.byStatus[r] \in Nat /\ Given(r) \in Nat
          /\ Cardinality(Due(r)) \in Nat /\ Cardinality(Writing(r)) \in Nat
      BY NumberTypes, Sizes
    <2>3. (st.byStatus[r] + Cardinality(Due(r)))' = st.byStatus[r] + Cardinality(Due(r))
      BY <1>14 DEF clientVars
    <2>4. /\ (Given(r) + Cardinality(Writing(r)))' \in Nat
          /\ (Given(r) + Cardinality(Writing(r)))' >= Given(r) + Cardinality(Writing(r))
      BY <1>16
    <2> QED BY <2>1, <2>2, <2>3, <2>4
  <1>18. Counted'
    <2>1. Counted
      BY DEF IInv
    <2>2. Cardinality(Inside)' = Cardinality(Inside) - 1 /\ Cardinality(Inside) \in Nat
      BY <1>2, <1>9, OneLess, Sizes
    <2>3. met.total \in Nat
      BY NumberTypes
    <2>4. (met.received = met.total + Cardinality(Inside))'
      BY <2>1, <2>2, <2>3, <1>5 DEF Counted
    <2>5. ASSUME NEW r \in Reasons, r # "unknown"
          PROVE  (met.failByReason[r] + Cardinality(Because(r)))'
                    = met.failByReason[r] + Cardinality(Because(r))
      <3>1. met.failByReason[r] \in Nat /\ Cardinality(Because(r)) \in Nat
        BY NumberTypes, Sizes
      <3>2. met'.failByReason[r] = IF r = q THEN met.failByReason[r] + 1 ELSE met.failByReason[r]
        BY <2>5, <1>5
      <3>3. CASE r = q
        <4>1. Cardinality(Because(r))' = Cardinality(Because(r)) - 1
          BY <3>3, <1>b, OneLess, Sizes
        <4> QED BY <3>1, <3>2, <3>3, <4>1
      <3>4. CASE r # q
        BY <3>2, <3>4, <1>b
      <3> QED BY <3>3, <3>4
    <2>6. /\ (met.failByReason["rate_limited"] + Cardinality(Because("rate_limited")))'
                = met.failByReason["rate_limited"] + Cardinality(Because("rate_limited"))
          /\ (met.failByReason["timeout"] + Cardinality(Because("timeout")))'
                = met.failByReason["timeout"] + Cardinality(Because("timeout"))
      <3>1. PICK a \in Reasons : a = "rate_limited"
        BY ReasonFacts
      <3>2. PICK b \in Reasons : b = "timeout"
        BY ReasonFacts
      <3>3. a # "unknown" /\ b # "unknown"
        BY <3>1, <3>2
      <3>4. /\ (met.failByReason[a] + Cardinality(Because(a)))'
                  = met.failByReason[a] + Cardinality(Because(a))
            /\ (met.failByReason[b] + Cardinality(Because(b)))'
                  = met.failByReason[b] + Cardinality(Because(b))
        BY <3>3, <2>5
      <3> QED BY <3>1, <3>2, <3>4
    <2>7. Refusals' /\ Timeouts'
      BY <2>1, <2>6, <1>5 DEF Counted, Refusals, Timeouts
    <2> QED BY <2>1, <2>4, <2>7, <1>5, <1>9 DEF Counted
  <1> QED BY <1>1, <1>2, <1>5, <1>6, <1>7, <1>8, <1>10, <1>11, <1>17, <1>18, HandlerStep

\* Every step of a handler.
LEMMA HandlersStep ==
    ASSUME IInv, UNCHANGED clientVars, NEW h \in Requests, Handler(h)
    PROVE  IInv'
  BY GateStep, RefuseStep, CreateStep, CreatePublishStep, RemoveStep, RemovePublishStep,
     FinishStep
     DEF Handler

-----------------------------------------------------------------------------
(* LoadTest: the client.                                                   *)

\* A step of the client that does not reach the server.
LEMMA ServerFrame ==
    ASSUME IInv, UNCHANGED serverVars
    PROVE  /\ Limits' /\ Counted'
           /\ Inside' = Inside
           /\ \A h \in Requests : Wrote(h)'
           /\ st' = st => Read'
  <1> USE DEF serverVars
  <1>1. Inside' = Inside /\ Serving' = Serving
    BY DEF Inside, Serving
  <1>2. \A s \in Statuses : Writing(s)' = Writing(s) /\ Due(s)' = Due(s)
    BY DEF Writing, Due
  <1>3. Limits'
    BY DEF IInv, Limits, NeverOverNeverRefused
  <1>4. Counted'
    <2>1. \A q : Because(q)' = Because(q)
      BY DEF Because
    <2>2. Refusals' /\ Timeouts'
      BY <2>1 DEF IInv, Counted, Refusals, Timeouts
    <2> QED BY <1>1, <2>2 DEF IInv, Counted
  <1>5. st' = st => Read'
    BY <1>2 DEF IInv, Read, Given
  <1>6. \A h \in Requests : Wrote(h)'
    BY DEF IInv, Streams, Wrote
  <1> QED BY <1>1, <1>3, <1>4, <1>5, <1>6

\* A worker that moves: runLoad waits for it.
LEMMA WorkerMoves ==
    ASSUME IInv, NEW w \in Workers, wpc[w] # "done",
           NEW b \in WorkerStates, wpc' = [wpc EXCEPT ![w] = b]
    PROVE  /\ wpc' \in [Workers -> WorkerStates] /\ wpc'[w] = b
           /\ \A v \in Workers : v # w => wpc'[v] = wpc[v]
           /\ runLoad = "wait"
  <1>1. wpc \in [Workers -> WorkerStates]
    BY DEF IInv, TypeOK
  <1>2. runLoad = "wait"
    BY DEF IInv, Returning
  <1> QED BY <1>1, <1>2

\* The options.
LEMMA OptionFacts ==
    ASSUME IInv
    PROVE  /\ opt.n \in Int /\ opt.qps \in Int /\ opt.concurrency \in Int
           /\ opt.concurrency >= 1
           /\ opt.n >= 0 /\ opt.qps >= 0 /\ opt.n <= MaxReq
           /\ MaxSeq \in Nat /\ MaxReq \in Nat /\ MaxSeq <= MaxReq
  <1>1. opt \in Options /\ MaxWorkers \in Nat
    BY ClientAssumption DEF IInv, TypeOK
  <1>2. /\ opt.n \in Int /\ opt.qps \in Int /\ opt.concurrency \in Int
        /\ opt.concurrency >= 1 /\ opt.n >= 0 /\ opt.qps >= 0 /\ opt.n <= MaxReq
    BY <1>1, ServerAssumption DEF Options
  <1>4. MaxSeq \in Nat /\ MaxReq \in Nat /\ MaxSeq <= MaxReq
    BY ServerAssumption, ClientAssumption, LoadAssumption
  <1> QED BY <1>2, <1>4

\* A worker ends, before it sent what it may have drawn.
LEMMA WorkerEnds ==
    ASSUME IInv, UNCHANGED serverVars,
           NEW w \in Workers, wpc[w] \in {"top", "limit"},
           wpc' = [wpc EXCEPT ![w] = "done"],
           UNCHANGED <<opt, cur, ctxDone, late, st, failLog, runLoad, issued>>,
           seq' \in Nat, seq' >= seq, stopped' \in BOOLEAN,
           Uncut => /\ stopped' /\ wpc[w] = "top"
                    /\ IF seq' = seq THEN stopped
                       ELSE seq' = seq + 1 /\ seq + 1 > opt.n
    PROVE  IInv'
  <1> USE DEF serverVars
  <1>1. "done" \in WorkerStates /\ wpc[w] # "done"
    BY DEF WorkerStates
  <1>2. /\ wpc' \in [Workers -> WorkerStates] /\ wpc'[w] = "done"
        /\ \A v \in Workers : v # w => wpc'[v] = wpc[v]
        /\ runLoad = "wait"
    BY <1>1, WorkerMoves
  <1>3. TypeOK'
    BY <1>2 DEF IInv, TypeOK
  <1>4. seq \in Nat
    BY NumberTypes
  <1>5. Numbers'
    <2>1. Numbers
      BY DEF IInv
    <2>2. \A v \in Workers : wpc'[v] \in Drawn => cur'[v] \in 1..seq'
      <3>1. \A v \in Workers : wpc'[v] \in Drawn => wpc[v] \in Drawn
        BY <1>2 DEF Drawn
      <3>2. \A v \in Workers : wpc[v] \in Drawn => cur[v] \in 1..seq
        BY <2>1 DEF Numbers
      <3> QED BY <3>1, <3>2, <1>4
    <2>3. \A u, v \in Workers :
             wpc'[u] \in Drawn /\ wpc'[v] \in Drawn /\ cur'[u] = cur'[v] => u = v
      BY <2>1, <1>2 DEF Numbers, Drawn
    <2>4. \A h \in Requests : h > seq' => hpc'[h] = "none"
      <3>1. \A h \in Requests : h > seq' => h > seq
        BY <1>4, ServerAssumption DEF Requests
      <3> QED BY <3>1, <2>1 DEF Numbers
    <2>5. \A v \in Workers : wpc'[v] \in {"limit", "send"} => hpc'[cur'[v]] = "none"
      BY <2>1, <1>2 DEF Numbers
    <2> QED BY <2>2, <2>3, <2>4, <2>5 DEF Numbers
  <1>6. Streams'
    <2>1. Inside' = Inside /\ \A h \in Requests : Wrote(h)'
      BY ServerFrame
    <2> QED BY <2>1, <1>2 DEF IInv, Streams
  <1>7. Limits' /\ Counted' /\ Read'
    BY ServerFrame
  <1>8. InCall' = InCall /\ Sending' = Sending
    BY <1>2 DEF InCall, Sending
  <1>9. Unheard' = Unheard
    BY <1>8 DEF Unheard
  <1>10. Sent'
    BY <1>8, <1>9 DEF IInv, Sent
  <1>11. Logged'
    BY DEF IInv, Logged
  <1>12. Returning'
    BY <1>2 DEF IInv, Returning
  <1>13. AllSent'
    <2>1. opt.qps = 0 => \A v \in Workers : wpc'[v] # "limit"
      BY <1>2 DEF IInv, AllSent
    <2>2. Uncut' = Uncut
      BY DEF Uncut
    <2>3. ASSUME Uncut
          PROVE  /\ issued + Cardinality(Sending) = IF seq' <= opt.n THEN seq' ELSE opt.n
                 /\ seq' > opt.n
      <3>1. /\ issued + Cardinality(Sending) = IF seq <= opt.n THEN seq ELSE opt.n
            /\ stopped => seq > opt.n
        BY <2>3 DEF IInv, AllSent
      <3> QED BY <2>3, <3>1, <1>4, OptionFacts
    <2> QED BY <2>1, <2>2, <2>3, <1>8 DEF AllSent
  <1> QED BY <1>3, <1>5, <1>6, <1>7, <1>10, <1>11, <1>12, <1>13 DEF IInv

\* A worker draws the next number.
LEMMA WorkerDraws ==
    ASSUME IInv, UNCHANGED serverVars,
           NEW w \in Workers, wpc[w] = "top",
           UNCHANGED <<opt, stopped, ctxDone, late, st, failLog, runLoad, issued>>,
           ~stopped, opt.n = 0 => seq < MaxSeq, ~(opt.n > 0 /\ seq + 1 > opt.n),
           seq' = seq + 1, cur' = [cur EXCEPT ![w] = seq + 1],
           NEW b \in {"limit", "send"}, b = IF opt.qps > 0 THEN "limit" ELSE "send",
           wpc' = [wpc EXCEPT ![w] = b]
    PROVE  IInv'
  <1> USE DEF serverVars
  <1>1. b \in WorkerStates /\ b \in Drawn /\ wpc[w] # "done"
    BY DEF WorkerStates, Drawn
  <1>2. /\ wpc' \in [Workers -> WorkerStates] /\ wpc'[w] = b
        /\ \A v \in Workers : v # w => wpc'[v] = wpc[v]
        /\ runLoad = "wait"
    BY <1>1, WorkerMoves
  <1>3. seq \in Nat /\ seq + 1 <= MaxReq /\ seq + 1 \in Requests
    <2>1. seq \in Nat
      BY NumberTypes
    <2>2. seq + 1 <= MaxReq
      BY <2>1, OptionFacts
    <2> QED BY <2>1, <2>2, OptionFacts DEF Requests
  <1>4. /\ cur' \in [Workers -> 0..MaxReq] /\ cur'[w] = seq + 1
        /\ \A v \in Workers : v # w => cur'[v] = cur[v]
    <2>1. seq + 1 \in 0..MaxReq
      BY <1>3, OptionFacts
    <2>2. cur \in [Workers -> 0..MaxReq]
      BY DEF IInv, TypeOK
    <2> QED BY <2>1, <2>2
  <1>5. TypeOK'
    BY <1>2, <1>3, <1>4 DEF IInv, TypeOK
  <1>6. Numbers'
    <2>1. Numbers
      BY DEF IInv
    <2>2. \A v \in Workers : v # w /\ wpc'[v] \in Drawn => cur'[v] \in 1..seq
      BY <2>1, <1>2, <1>4 DEF Numbers
    <2>3. \A v \in Workers : wpc'[v] \in Drawn => cur'[v] \in 1..seq'
      BY <2>2, <1>3, <1>4
    <2>4. \A u, v \in Workers :
             wpc'[u] \in Drawn /\ wpc'[v] \in Drawn /\ cur'[u] = cur'[v] => u = v
      <3> SUFFICES ASSUME NEW u \in Workers, NEW v \in Workers, wpc'[u] \in Drawn,
                          wpc'[v] \in Drawn, cur'[u] = cur'[v]
                   PROVE  u = v
        OBVIOUS
      <3>1. CASE u # w /\ v # w
        BY <3>1, <2>1, <1>2, <1>4 DEF Numbers
      <3>2. CASE u = w /\ v # w
        BY <3>2, <2>2, <1>3, <1>4
      <3>3. CASE u # w /\ v = w
        BY <3>3, <2>2, <1>3, <1>4
      <3> QED BY <3>1, <3>2, <3>3
    <2>5. \A h \in Requests : h > seq' => hpc'[h] = "none"
      <3>1. \A h \in Requests : h > seq' => h > seq
        BY <1>3, OptionFacts DEF Requests
      <3> QED BY <3>1, <2>1 DEF Numbers
    <2>6. \A v \in Workers : wpc'[v] \in {"limit", "send"} => hpc'[cur'[v]] = "none"
      <3>1. hpc[seq + 1] = "none"
        BY <1>3, <2>1 DEF Numbers
      <3> QED BY <3>1, <2>1, <1>2, <1>4 DEF Numbers
    <2> QED BY <2>3, <2>4, <2>5, <2>6 DEF Numbers
  <1>7. Streams'
    <2>1. Inside' = Inside /\ \A h \in Requests : Wrote(h)'
      BY ServerFrame
    <2>2. \A v \in Workers : wpc'[v] = "call" => wpc[v] = "call" /\ cur'[v] = cur[v]
      BY <1>2, <1>4
    <2> QED BY <2>1, <2>2 DEF IInv, Streams
  <1>8. Limits' /\ Counted' /\ Read'
    BY ServerFrame
  <1>9. InCall' = InCall
    BY <1>2 DEF InCall
  <1>10. Unheard' = Unheard
    BY <1>9, <1>2, <1>4 DEF Unheard, InCall
  <1>11. Sent'
    BY <1>9, <1>10 DEF IInv, Sent
  <1>12. Logged'
    BY DEF IInv, Logged
  <1>13. Returning'
    BY <1>2 DEF IInv, Returning
  <1>14. AllSent'
    <2>1. opt.qps = 0 => b = "send"
      BY OptionFacts
    <2>2. opt.qps = 0 => \A v \in Workers : wpc'[v] # "limit"
      BY <1>2, <2>1 DEF IInv, AllSent
    <2>3. ASSUME Uncut
          PROVE  /\ issued + Cardinality(Sending)' = IF seq' <= opt.n THEN seq' ELSE opt.n
                 /\ \A v \in Workers : ~(v <= opt.concurrency /\ wpc'[v] = "done")
      <3>1. b = "send" /\ opt.n > 0
        BY <2>1, <2>3 DEF Uncut
      <3>2. w \notin Sending /\ Sending' = Sending \cup {w}
        BY <3>1, <1>2 DEF Sending
      <3>3. Cardinality(Sending)' = Cardinality(Sending) + 1 /\ Cardinality(Sending) \in Nat
        BY <3>2, OneMore, Sizes
      <3>4. issued + Cardinality(Sending) = IF seq <= opt.n THEN seq ELSE opt.n
        BY <2>3 DEF IInv, AllSent
      <3>5. issued \in Nat
        BY NumberTypes
      <3>6. issued + Cardinality(Sending)' = IF seq' <= opt.n THEN seq' ELSE opt.n
        BY <3>1, <3>3, <3>4, <3>5, <1>3, OptionFacts
      <3>7. \A v \in Workers : ~(v <= opt.concurrency /\ wpc[v] = "done")
        BY <2>3 DEF IInv, AllSent
      <3>8. \A v \in Workers : ~(v <= opt.concurrency /\ wpc'[v] = "done")
        BY <3>1, <3>7, <1>2
      <3> QED BY <3>6, <3>8
    <2>4. Uncut' = Uncut
      BY DEF Uncut
    <2> QED BY <2>2, <2>3, <2>4 DEF AllSent
  <1> QED BY <1>5, <1>6, <1>7, <1>8, <1>11, <1>12, <1>13, <1>14 DEF IInv

\* The head of the loop.
LEMMA DrawStep ==
    ASSUME IInv, NEW w \in Workers, Draw(w), UNCHANGED serverVars
    PROVE  IInv'
  <1>1. /\ wpc[w] = "top" /\ UNCHANGED <<opt, ctxDone, late, st, failLog, runLoad, issued>>
        /\ wpc[w] \in {"top", "limit"}
    BY DEF Draw
  <1>2. seq \in Nat /\ stopped \in BOOLEAN
    BY DEF IInv, TypeOK
  <1>3. CASE (ctxDone \/ stopped) /\ Ends(w) /\ UNCHANGED <<seq, cur, stopped>>
    <2>1. Uncut => stopped /\ stopped'
      BY <1>3 DEF Uncut
    <2>2. seq' \in Nat /\ seq' >= seq /\ stopped' \in BOOLEAN /\ seq' = seq
      BY <1>2, <1>3
    <2> QED BY <1>1, <1>3, <2>1, <2>2, WorkerEnds DEF Ends
  <1>4. CASE late /\ stopped' = TRUE /\ Ends(w) /\ UNCHANGED <<seq, cur>>
    <2>1. ~Uncut
      BY <1>4 DEF Uncut
    <2>2. seq' \in Nat /\ seq' >= seq /\ stopped' \in BOOLEAN
      BY <1>2, <1>4
    <2>3. wpc' = [wpc EXCEPT ![w] = "done"] /\ cur' = cur
      BY <1>4 DEF Ends
    <2> QED BY <1>1, <2>1, <2>2, <2>3, WorkerEnds
  <1>5. CASE /\ seq' = seq + 1 /\ opt.n > 0 /\ seq + 1 > opt.n
             /\ stopped' = TRUE /\ Ends(w) /\ UNCHANGED cur
    <2>1. seq' \in Nat /\ seq' >= seq /\ stopped' \in BOOLEAN /\ seq' # seq
      BY <1>2, <1>5
    <2>2. wpc' = [wpc EXCEPT ![w] = "done"] /\ cur' = cur
      BY <1>5 DEF Ends
    <2>3. stopped' /\ seq' = seq + 1 /\ seq + 1 > opt.n
      BY <1>5
    <2> QED BY <1>1, <2>1, <2>2, <2>3, WorkerEnds
  <1>6. CASE /\ ~stopped /\ (opt.n = 0 => seq < MaxSeq)
             /\ seq' = seq + 1 /\ ~(opt.n > 0 /\ seq + 1 > opt.n)
             /\ cur' = [cur EXCEPT ![w] = seq + 1]
             /\ wpc' = [wpc EXCEPT ![w] = IF opt.qps > 0 THEN "limit" ELSE "send"]
             /\ UNCHANGED stopped
    <2>1. PICK b \in {"limit", "send"} : b = IF opt.qps > 0 THEN "limit" ELSE "send"
      OBVIOUS
    <2> QED BY <1>1, <1>6, <2>1, WorkerDraws
  <1> QED BY <1>3, <1>4, <1>5, <1>6 DEF Draw

\* limiter.Wait and what follows it.
LEMMA LimitStep ==
    ASSUME IInv, NEW w \in Workers, Limit(w), UNCHANGED serverVars
    PROVE  IInv'
  <1>1. /\ wpc[w] = "limit" /\ UNCHANGED <<opt, cur, seq, ctxDone, late, st, failLog, runLoad, issued>>
        /\ wpc[w] \in {"top", "limit"} /\ wpc[w] # "done"
    BY DEF Limit
  <1>2. seq \in Nat /\ stopped \in BOOLEAN
    BY DEF IInv, TypeOK
  <1>3. ~Uncut /\ opt.qps # 0
    BY <1>1 DEF IInv, AllSent, Uncut
  <1>4. CASE Ends(w) /\ (UNCHANGED stopped \/ stopped' = TRUE)
    <2>1. seq' \in Nat /\ seq' >= seq
      BY <1>1, <1>2
    <2>2. stopped' \in BOOLEAN
      BY <1>2, <1>4, Zenon
    <2>3. wpc' = [wpc EXCEPT ![w] = "done"]
      BY <1>4 DEF Ends
    <2> QED BY <1>1, <1>3, <2>1, <2>2, <2>3, WorkerEnds
  <1>5. CASE wpc' = [wpc EXCEPT ![w] = "send"] /\ UNCHANGED stopped
    <2> USE DEF serverVars
    <2>1. "send" \in WorkerStates
      BY DEF WorkerStates
    <2>2. /\ wpc' \in [Workers -> WorkerStates] /\ wpc'[w] = "send"
          /\ \A v \in Workers : v # w => wpc'[v] = wpc[v]
          /\ runLoad = "wait"
      BY <1>1, <1>5, <2>1, WorkerMoves
    <2>3. TypeOK'
      BY <1>1, <1>5, <2>2 DEF IInv, TypeOK
    <2>4. Numbers'
      BY <1>1, <2>2 DEF IInv, Numbers, Drawn
    <2>5. Streams'
      <3>1. Inside' = Inside /\ \A h \in Requests : Wrote(h)'
        BY ServerFrame
      <3> QED BY <3>1, <1>1, <2>2 DEF IInv, Streams
    <2>6. Limits' /\ Counted' /\ Read'
      BY <1>1, ServerFrame
    <2>7. InCall' = InCall
      BY <1>1, <2>2 DEF InCall
    <2>8. Unheard' = Unheard
      BY <1>1, <2>7 DEF Unheard
    <2>9. Sent' /\ Logged'
      BY <1>1, <2>7, <2>8 DEF IInv, Sent, Logged
    <2>10. Returning'
      BY <1>1, <2>2 DEF IInv, Returning
    <2>11. AllSent'
      BY <1>1, <1>3 DEF AllSent, Uncut
    <2> QED BY <2>3, <2>4, <2>5, <2>6, <2>9, <2>10, <2>11 DEF IInv
  <1> QED BY <1>4, <1>5 DEF Limit

\* The beginning of a call, as far as the client is concerned.
LEMMA SendFacts ==
    ASSUME IInv, NEW w \in Workers, Send(w)
    PROVE  /\ UNCHANGED <<opt, cur, seq, stopped, ctxDone, late, st, failLog, runLoad>>
           /\ issued' = issued + 1 /\ issued' \in Nat
           /\ wpc[w] = "send" /\ wpc'[w] = "call" /\ wpc' \in [Workers -> WorkerStates]
           /\ \A v \in Workers : v # w => wpc'[v] = wpc[v]
           /\ cur[w] \in Requests /\ cur[w] <= seq /\ hpc[cur[w]] = "none"
           /\ \A v \in Workers : v # w /\ wpc[v] \in Drawn => cur[v] # cur[w] /\ cur[v] \in Requests
           /\ cur[w] \notin gone
           /\ w \notin InCall /\ InCall' = InCall \cup {w}
           /\ Cardinality(InCall)' = Cardinality(InCall) + 1
           /\ Logged' /\ AllSent' /\ Returning'
  <1>1. /\ UNCHANGED <<opt, cur, seq, stopped, ctxDone, late, st, failLog, runLoad>>
        /\ issued' = issued + 1 /\ wpc[w] = "send" /\ wpc' = [wpc EXCEPT ![w] = "call"]
    BY DEF Send
  <1>2. "call" \in WorkerStates /\ wpc[w] # "done"
    BY <1>1 DEF WorkerStates
  <1>3. /\ wpc'[w] = "call" /\ wpc' \in [Workers -> WorkerStates]
        /\ \A v \in Workers : v # w => wpc'[v] = wpc[v]
        /\ runLoad = "wait"
    BY <1>1, <1>2, WorkerMoves
  <1>4. issued' \in Nat
    BY <1>1, NumberTypes
  <1>5. \A v \in Workers : wpc[v] \in Drawn => cur[v] \in Requests /\ cur[v] <= seq
    <2>1. \A v \in Workers : wpc[v] \in Drawn => cur[v] \in 1..seq
      BY DEF IInv, Numbers
    <2>2. cur \in [Workers -> 0..MaxReq] /\ seq \in Nat
      BY DEF IInv, TypeOK
    <2> QED BY <2>1, <2>2, OptionFacts DEF Requests
  <1>6. wpc[w] \in Drawn
    BY <1>1 DEF Drawn
  <1>7. cur[w] \in Requests /\ cur[w] <= seq /\ hpc[cur[w]] = "none"
    BY <1>1, <1>5, <1>6 DEF IInv, Numbers
  <1>8. \A v \in Workers : v # w /\ wpc[v] \in Drawn => cur[v] # cur[w] /\ cur[v] \in Requests
    BY <1>5, <1>6 DEF IInv, Numbers
  <1>9. cur[w] \notin gone
    BY <1>7 DEF IInv, Streams, Inside
  <1>10. w \notin InCall /\ InCall' = InCall \cup {w}
    BY <1>1, <1>3 DEF InCall
  <1>11. Cardinality(InCall)' = Cardinality(InCall) + 1
    BY <1>10, OneMore, Sizes
  <1>12. Logged'
    BY <1>1 DEF IInv, Logged
  <1>13. Returning'
    BY <1>1, <1>3 DEF IInv, Returning
  <1>14. AllSent'
    <2>1. opt.qps = 0 => \A v \in Workers : wpc'[v] # "limit"
      BY <1>3 DEF IInv, AllSent
    <2>2. Sending' = Sending \ {w} /\ w \in Sending
      BY <1>1, <1>3 DEF Sending
    <2>3. Cardinality(Sending)' = Cardinality(Sending) - 1 /\ Cardinality(Sending) \in Nat
      BY <2>2, OneLess, Sizes
    <2>4. issued \in Nat
      BY NumberTypes
    <2>5. issued' + Cardinality(Sending)' = issued + Cardinality(Sending)
      BY <1>1, <2>3, <2>4
    <2>6. \A v \in Workers : wpc'[v] = "done" => wpc[v] = "done"
      BY <1>3
    <2>7. Uncut' = Uncut
      BY <1>1 DEF Uncut
    <2>8. Uncut => /\ issued + Cardinality(Sending) = IF seq <= opt.n THEN seq ELSE opt.n
                   /\ stopped => seq > opt.n
                   /\ \A v \in Workers : v <= opt.concurrency /\ wpc[v] = "done" => stopped
      BY DEF IInv, AllSent
    <2> QED BY <1>1, <2>1, <2>5, <2>6, <2>7, <2>8 DEF AllSent
  <1> QED BY <1>1, <1>3, <1>4, <1>7, <1>8, <1>9, <1>10, <1>11, <1>12, <1>13, <1>14

\* A call that does not reach the server.
LEMMA LostStep ==
    ASSUME IInv, NEW w \in Workers, Send(w), UNCHANGED serverVars
    PROVE  IInv'
  <1> USE DEF serverVars
  <1>1. /\ UNCHANGED <<opt, cur, seq, stopped, ctxDone, late, st, failLog, runLoad>>
        /\ issued' = issued + 1 /\ issued' \in Nat
        /\ wpc[w] = "send" /\ wpc'[w] = "call" /\ wpc' \in [Workers -> WorkerStates]
        /\ \A v \in Workers : v # w => wpc'[v] = wpc[v]
        /\ cur[w] \in Requests /\ cur[w] <= seq /\ hpc[cur[w]] = "none"
        /\ cur[w] \notin gone
        /\ w \notin InCall /\ InCall' = InCall \cup {w}
        /\ Cardinality(InCall)' = Cardinality(InCall) + 1
        /\ Logged' /\ AllSent' /\ Returning'
    BY SendFacts
  <1>2. TypeOK'
    BY <1>1 DEF IInv, TypeOK
  <1>3. Numbers'
    BY <1>1 DEF IInv, Numbers, Drawn
  <1>4. /\ Limits' /\ Counted' /\ Read' /\ Inside' = Inside
        /\ \A h \in Requests : Wrote(h)'
    BY <1>1, ServerFrame
  <1>5. Streams'
    BY <1>1, <1>4 DEF IInv, Streams
  <1>6. w \notin Unheard /\ Unheard' = Unheard \cup {w}
    BY <1>1 DEF Unheard
  <1>7. Cardinality(Unheard)' = Cardinality(Unheard) + 1
    BY <1>6, OneMore, Sizes
  <1>8. Sent'
    <2>1. Sent
      BY DEF IInv
    <2>2. /\ met.received \in Nat /\ issued \in Nat /\ st.byStatus[-1] \in Nat
          /\ st.ok \in Nat /\ st.fail \in Nat
      BY NumberTypes
    <2>3. Cardinality(Unheard) \in Nat /\ Cardinality(InCall) \in Nat
      BY Sizes
    <2>4. (met.received <= issued)'
      BY <2>1, <2>2, <1>1 DEF Sent
    <2>5. (issued <= met.received + st.byStatus[-1] + Cardinality(Unheard))'
      BY <2>1, <2>2, <2>3, <1>1, <1>7 DEF Sent
    <2>6. (issued = st.ok + st.fail + Cardinality(InCall))'
      BY <2>1, <2>2, <2>3, <1>1 DEF Sent
    <2> QED BY <2>4, <2>5, <2>6 DEF Sent
  <1> QED BY <1>1, <1>2, <1>3, <1>4, <1>5, <1>8 DEF IInv

\* A call whose request arrives, of which only the response of the limiter is
\* left to show.
LEMMA ArrivalStep ==
    ASSUME IInv, NEW w \in Workers, Send(w),
           NEW h \in Requests, h = cur[w],
           NEW b \in {"gate", "observe"}, hpc' = [hpc EXCEPT ![h] = b],
           UNCHANGED <<gone, waiters, seen, rejected, exceeded>>,
           status' \in [Requests -> Statuses \cup {0}],
           reason' \in [Requests -> Reasons \cup {"ok"}], met' \in GatewayMetrics,
           met'.received = met.received + 1, met'.inFlight = met.inFlight,
           met'.total = met.total, met'.ok = met.ok, met'.fail = met.fail,
           met'.managerPending = met.managerPending,
           \A g \in Requests : Wrote(g)',
           Refusals', Timeouts', Read'
    PROVE  IInv'
  <1>1. /\ UNCHANGED <<opt, cur, seq, stopped, ctxDone, late, st, failLog, runLoad>>
        /\ issued' = issued + 1 /\ issued' \in Nat
        /\ wpc[w] = "send" /\ wpc'[w] = "call" /\ wpc' \in [Workers -> WorkerStates]
        /\ \A v \in Workers : v # w => wpc'[v] = wpc[v]
        /\ h <= seq /\ hpc[h] = "none"
        /\ \A v \in Workers : v # w /\ wpc[v] \in Drawn => cur[v] # h /\ cur[v] \in Requests
        /\ h \notin gone
        /\ w \notin InCall /\ InCall' = InCall \cup {w}
        /\ Cardinality(InCall)' = Cardinality(InCall) + 1
        /\ Logged' /\ AllSent' /\ Returning'
    BY SendFacts
  <1>2. /\ hpc' \in [Requests -> HandlerStates] /\ hpc'[h] = b
        /\ \A g \in Requests : g # h => hpc'[g] = hpc[g]
    <2>1. b \in HandlerStates /\ hpc \in [Requests -> HandlerStates]
      BY DEF HandlerStates, IInv, TypeOK
    <2> QED BY <2>1
  <1>3. TypeOK'
    BY <1>1, <1>2 DEF IInv, TypeOK
  <1>4. h \notin Inside /\ Inside' = Inside \cup {h}
    BY <1>1, <1>2 DEF Inside
  <1>5. Serving' = Serving
    BY <1>1, <1>2 DEF Serving, Inside
  <1>6. Numbers'
    <2>1. Numbers
      BY DEF IInv
    <2>2. \A v \in Workers : wpc'[v] \in Drawn => wpc[v] \in Drawn
      BY <1>1 DEF Drawn
    <2>3. /\ \A v \in Workers : wpc'[v] \in Drawn => cur'[v] \in 1..seq'
          /\ \A u, v \in Workers :
               wpc'[u] \in Drawn /\ wpc'[v] \in Drawn /\ cur'[u] = cur'[v] => u = v
      BY <1>1, <2>1, <2>2 DEF Numbers
    <2>4. \A g \in Requests : g > seq' => hpc'[g] = "none"
      <3>1. seq \in Nat /\ h \in Nat
        BY NumberTypes DEF Requests
      <3>2. ~(h > seq)
        BY <3>1, <1>1
      <3> QED BY <3>2, <1>1, <1>2, <2>1 DEF Numbers
    <2>5. \A v \in Workers : wpc'[v] \in {"limit", "send"} => hpc'[cur'[v]] = "none"
      <3> SUFFICES ASSUME NEW v \in Workers, wpc'[v] \in {"limit", "send"}
                   PROVE  hpc'[cur'[v]] = "none"
        OBVIOUS
      <3>1. v # w /\ wpc[v] \in {"limit", "send"} /\ wpc[v] \in Drawn /\ cur'[v] = cur[v]
        BY <1>1 DEF Drawn
      <3>2. cur[v] # h /\ cur[v] \in Requests /\ hpc[cur[v]] = "none"
        BY <3>1, <1>1, <2>1 DEF Numbers
      <3> QED BY <3>1, <3>2, <1>2
    <2> QED BY <2>3, <2>4, <2>5 DEF Numbers
  <1>7. Streams'
    <2>1. gone' \subseteq Inside'
      BY <1>4 DEF IInv, Streams
    <2>2. \A v \in Workers : wpc'[v] = "call" => cur'[v] \notin gone'
      BY <1>1 DEF IInv, Streams
    <2> QED BY <2>1, <2>2 DEF Streams
  <1>8. Limits'
    BY DEF IInv, Limits, NeverOverNeverRefused
  <1>9. Counted'
    <2>1. Counted
      BY DEF IInv
    <2>2. Cardinality(Inside)' = Cardinality(Inside) + 1
      BY <1>4, OneMore, Sizes
    <2>3. Cardinality(Inside) \in Nat /\ met.total \in Nat
      BY Sizes, NumberTypes
    <2>4. (met.received = met.total + Cardinality(Inside))'
      BY <2>1, <2>2, <2>3 DEF Counted
    <2> QED BY <2>1, <2>4, <1>5 DEF Counted
  <1>10. Unheard' = Unheard
    <2>1. Unheard \subseteq Workers /\ Unheard' \subseteq Workers /\ w \notin Unheard /\ w \notin Unheard'
      BY <1>1, <1>2 DEF Unheard, InCall
    <2>2. ASSUME NEW v \in Workers, v # w
          PROVE  v \in Unheard' <=> v \in Unheard
      <3>1. CASE wpc[v] = "call"
        <4>1. cur[v] # h /\ cur[v] \in Requests
          BY <2>2, <3>1, <1>1 DEF Drawn
        <4> QED BY <2>2, <3>1, <4>1, <1>1, <1>2 DEF Unheard, InCall
      <3>2. CASE wpc[v] # "call"
        BY <2>2, <3>2, <1>1 DEF Unheard, InCall
      <3> QED BY <3>1, <3>2
    <2> QED BY <2>1, <2>2
  <1>11. Sent'
    <2>1. Sent
      BY DEF IInv
    <2>2. /\ met.received \in Nat /\ issued \in Nat /\ st.byStatus[-1] \in Nat
          /\ st.ok \in Nat /\ st.fail \in Nat
      BY NumberTypes
    <2>3. Cardinality(Unheard) \in Nat /\ Cardinality(InCall) \in Nat
      BY Sizes
    <2>4. (met.received <= issued)'
      BY <2>1, <2>2, <1>1 DEF Sent
    <2>5. (issued <= met.received + st.byStatus[-1] + Cardinality(Unheard))'
      BY <2>1, <2>2, <2>3, <1>1, <1>10 DEF Sent
    <2>6. (issued = st.ok + st.fail + Cardinality(InCall))'
      BY <2>1, <2>2, <2>3, <1>1 DEF Sent
    <2> QED BY <2>4, <2>5, <2>6 DEF Sent
  <1> QED BY <1>1, <1>3, <1>6, <1>7, <1>8, <1>9, <1>11 DEF IInv

\* The request arrives, and the limiter may refuse it.
LEMMA ArriveStep ==
    ASSUME IInv, NEW w \in Workers, Send(w), Arrive(cur[w])
    PROVE  IInv'
  <1>1. cur[w] \in Requests /\ hpc[cur[w]] = "none" /\ UNCHANGED st
    BY SendFacts
  <1>2. PICK h \in Requests : h = cur[w]
    BY <1>1
  <1>3. hpc[h] = "none" /\ hpc[h] \notin {"observe", "done"}
    BY <1>1, <1>2
  <1>4. Arrive(h) /\ UNCHANGED <<gone, waiters, seen, rejected, exceeded>>
    BY <1>2 DEF Arrive
  <1>5. /\ hpc \in [Requests -> HandlerStates] /\ status \in [Requests -> Statuses \cup {0}]
        /\ reason \in [Requests -> Reasons \cup {"ok"}]
    BY DEF IInv, TypeOK
  <1>6. CASE /\ hpc' = [hpc EXCEPT ![h] = "gate"] /\ met' = AddHTTPReceived(met)
             /\ UNCHANGED <<status, reason>>
    <2>1. /\ met' \in GatewayMetrics /\ met'.received = met.received + 1
          /\ met'.inFlight = met.inFlight /\ met'.total = met.total /\ met'.ok = met.ok
          /\ met'.fail = met.fail /\ met'.managerPending = met.managerPending
          /\ met'.rateLimited = met.rateLimited /\ met'.http504 = met.http504
          /\ met'.byStatus = met.byStatus /\ met'.failByReason = met.failByReason
      BY <1>6, NumberTypes DEF GatewayMetrics, AddHTTPReceived
    <2>2. hpc'[h] = "gate" /\ \A g \in Requests : g # h => hpc'[g] = hpc[g]
      BY <1>5, <1>6
    <2>3. \A s \in Statuses : Writing(s)' = Writing(s) /\ Due(s)' = Due(s)
      BY <2>2, <1>3, <1>4, <1>6 DEF Writing, Due
    <2>4. \A g \in Requests : Wrote(g)'
      BY <2>2, <1>6 DEF IInv, Streams, Wrote
    <2>5. Read'
      BY <2>1, <2>3, <1>1 DEF IInv, Read, Given
    <2>6. Refusals' /\ Timeouts'
      <3>1. \A q : Because(q)' = Because(q)
        BY <2>2, <1>3, <1>6 DEF Because
      <3> QED BY <3>1, <2>1 DEF IInv, Counted, Refusals, Timeouts
    <2>7. /\ status' \in [Requests -> Statuses \cup {0}]
          /\ reason' \in [Requests -> Reasons \cup {"ok"}]
      BY <1>5, <1>6
    <2>8. PICK b \in {"gate", "observe"} : hpc' = [hpc EXCEPT ![h] = b]
      BY <1>6
    <2> QED BY <1>2, <1>4, <2>1, <2>4, <2>5, <2>6, <2>7, <2>8, ArrivalStep
  <1>7. CASE /\ hpc' = [hpc EXCEPT ![h] = "observe"]
             /\ met' = AddHTTPRateLimited(AddHTTPReceived(met))
             /\ status' = [status EXCEPT ![h] = 429]
             /\ reason' = [reason EXCEPT ![h] = "rate_limited"]
    <2>1. /\ met' \in GatewayMetrics /\ met'.received = met.received + 1
          /\ met'.inFlight = met.inFlight /\ met'.total = met.total /\ met'.ok = met.ok
          /\ met'.fail = met.fail /\ met'.managerPending = met.managerPending
          /\ met'.rateLimited = met.rateLimited + 1 /\ met'.http504 = met.http504
          /\ met'.byStatus = met.byStatus /\ met'.failByReason = met.failByReason
      <3> DEFINE m == AddHTTPReceived(met)
      <3>1. /\ m \in GatewayMetrics /\ m.received = met.received + 1
            /\ m.inFlight = met.inFlight /\ m.total = met.total /\ m.ok = met.ok
            /\ m.fail = met.fail /\ m.managerPending = met.managerPending
            /\ m.rateLimited = met.rateLimited /\ m.http504 = met.http504
            /\ m.byStatus = met.byStatus /\ m.failByReason = met.failByReason
        BY NumberTypes DEF GatewayMetrics, AddHTTPReceived
      <3>2. met' = AddHTTPRateLimited(m)
        BY <1>7
      <3> HIDE DEF m
      <3>3. /\ met' \in GatewayMetrics /\ met'.received = m.received
            /\ met'.inFlight = m.inFlight /\ met'.total = m.total /\ met'.ok = m.ok
            /\ met'.fail = m.fail /\ met'.managerPending = m.managerPending
            /\ met'.rateLimited = m.rateLimited + 1 /\ met'.http504 = m.http504
            /\ met'.byStatus = m.byStatus /\ met'.failByReason = m.failByReason
        BY <3>1, <3>2 DEF GatewayMetrics, AddHTTPRateLimited
      <3> QED BY <3>1, <3>3
    <2>2. PICK s \in Statuses : s = 429
      BY StatusFacts
    <2>9. PICK q \in Reasons \cup {"ok"} : q = "rate_limited"
      BY ReasonFacts
    <2>3. /\ status' = [status EXCEPT ![h] = s] /\ hpc' = [hpc EXCEPT ![h] = "observe"]
          /\ reason' = [reason EXCEPT ![h] = q]
          /\ s >= 400 <=> q # "ok"
      BY <1>7, <2>2, <2>9
    <2>4. /\ gone' = gone /\ st' = st /\ met'.byStatus = met.byStatus
          /\ met'.failByReason = met.failByReason
      BY <1>1, <1>4, <2>1
    <2>5. /\ \A g \in Requests : Wrote(g)'
          /\ status' \in [Requests -> Statuses \cup {0}]
          /\ reason' \in [Requests -> Reasons \cup {"ok"}]
      BY <1>3, <2>3, <2>4, WrittenStep
    <2>6. /\ Cardinality(Because(q))' = Cardinality(Because(q)) + 1
          /\ \A p : p # q => Cardinality(Because(p))' = Cardinality(Because(p))
          /\ Read'
      BY <1>3, <2>3, <2>4, WrittenCounts
    <2>7. Refusals' /\ Timeouts'
      <3>1. /\ Cardinality(Because("rate_limited"))' = Cardinality(Because("rate_limited")) + 1
            /\ Cardinality(Because("timeout"))' = Cardinality(Because("timeout"))
        BY <2>6, <2>9
      <3>2. met.failByReason["rate_limited"] \in Nat /\ Cardinality(Because("rate_limited")) \in Nat
        BY NumberTypes, Sizes, ReasonFacts
      <3>3. Refusals'
        BY <3>1, <3>2, <2>1 DEF IInv, Counted, Refusals
      <3> QED BY <3>1, <3>3, <2>1 DEF IInv, Counted, Timeouts
    <2>8. PICK b \in {"gate", "observe"} : hpc' = [hpc EXCEPT ![h] = b]
      BY <1>7
    <2> QED BY <1>2, <1>4, <2>1, <2>5, <2>6, <2>7, <2>8, ArrivalStep
  <1> QED BY <1>4, <1>6, <1>7 DEF Arrive, Move, Write

\* Whether a call counts as failed.
Failed(s, err) == err \/ s >= 400 \/ s = 0

\* stats.add.
LEMMA AddFacts ==
    ASSUME IInv, NEW s \in Statuses \cup {0}, NEW err \in BOOLEAN, Add(s, err)
    PROVE  /\ st' \in Stats
           /\ st'.ok + st'.fail = st.ok + st.fail + 1
           /\ st'.fail = IF Failed(s, err) THEN st.fail + 1 ELSE st.fail
           /\ \A r \in Statuses :
                st'.byStatus[r] = IF r = s THEN st.byStatus[r] + 1 ELSE st.byStatus[r]
           /\ st'.byStatus[-1] = IF s = 0 THEN st.byStatus[-1] + 1 ELSE st.byStatus[-1]
  <1>1. PICK code \in Codes \cup {-1} : code = IF s = 0 THEN -1 ELSE s
    BY StatusFacts
  <1>2. PICK failed \in BOOLEAN : failed <=> Failed(s, err)
    OBVIOUS
  <1>3. /\ st \in Stats /\ st.ok \in Nat /\ st.fail \in Nat
        /\ st.byStatus \in [Codes \cup {-1} -> Nat]
    BY NumberTypes DEF IInv, TypeOK
  <1>4. st' = [st EXCEPT !.byStatus[code] = @ + 1,
                         !.ok = IF failed THEN @ ELSE @ + 1,
                         !.fail = IF failed THEN @ + 1 ELSE @]
    BY <1>1, <1>2 DEF Add, Failed
  <1>5. /\ st'.byStatus = [st.byStatus EXCEPT ![code] = @ + 1]
        /\ st'.ok = IF failed THEN st.ok ELSE st.ok + 1
        /\ st'.fail = IF failed THEN st.fail + 1 ELSE st.fail
        /\ st' = [ok |-> st'.ok, fail |-> st'.fail, byStatus |-> st'.byStatus]
    BY <1>3, <1>4 DEF Stats
  <1>6. st'.ok \in Nat /\ st'.fail \in Nat /\ st'.ok + st'.fail = st.ok + st.fail + 1
    BY <1>3, <1>5
  <1>7. /\ st'.byStatus \in [Codes \cup {-1} -> Nat]
        /\ st'.byStatus[code] = st.byStatus[code] + 1
        /\ \A c \in Codes \cup {-1} : c # code => st'.byStatus[c] = st.byStatus[c]
    BY <1>3, <1>5
  <1>8. st' \in Stats
    BY <1>5, <1>6, <1>7 DEF Stats
  <1>9. \A r \in Statuses :
           st'.byStatus[r] = IF r = s THEN st.byStatus[r] + 1 ELSE st.byStatus[r]
    <2> SUFFICES ASSUME NEW r \in Statuses
                 PROVE  st'.byStatus[r] = IF r = s THEN st.byStatus[r] + 1 ELSE st.byStatus[r]
      OBVIOUS
    <2>1. r \in Codes \cup {-1} /\ r # -1 /\ r # 0
      BY StatusFacts
    <2>2. r = code <=> r = s
      BY <1>1, <2>1
    <2> QED BY <2>1, <2>2, <1>7
  <1>10. st'.byStatus[-1] = IF s = 0 THEN st.byStatus[-1] + 1 ELSE st.byStatus[-1]
    <2>1. -1 = code <=> s = 0
      BY <1>1, StatusFacts
    <2>2. -1 \in Codes \cup {-1}
      OBVIOUS
    <2> QED BY <2>1, <2>2, <1>7
  <1> QED BY <1>2, <1>5, <1>6, <1>8, <1>9, <1>10

\* failLogger.log.
LEMMA LogFacts ==
    ASSUME IInv, NEW s \in Statuses \cup {0}, NEW err \in BOOLEAN, Log(s, err)
    PROVE  /\ failLog' \in FailureLog
           /\ failLog'.written = failLog.written
           /\ opt.failLog =>
                failLog'.ch + failLog'.written + failLog'.dropped + failLog'.lost =
                  failLog.ch + failLog.written + failLog.dropped + failLog.lost
                    + (IF Failed(s, err) THEN 1 ELSE 0)
  <1>1. failLog \in FailureLog
    BY DEF IInv, TypeOK
  <1>2. CASE ~opt.failLog \/ ~Failed(s, err)
    <2>1. failLog' = failLog
      BY <1>2 DEF Log, Failed
    <2> QED BY <1>1, <1>2, <2>1 DEF FailureLog
  <1>3. CASE opt.failLog /\ Failed(s, err) /\ failLog.ch < FailCap
    <2>1. failLog' = [failLog EXCEPT !.ch = @ + 1]
      BY <1>3 DEF Log, Failed
    <2> QED BY <1>1, <1>3, <2>1 DEF FailureLog
  <1>4. CASE opt.failLog /\ Failed(s, err) /\ ~(failLog.ch < FailCap)
    <2>1. failLog' = [failLog EXCEPT !.dropped = @ + 1]
      BY <1>4 DEF Log, Failed
    <2> QED BY <1>1, <1>4, <2>1 DEF FailureLog
  <1> QED BY <1>2, <1>3, <1>4

\* What is left of the stream: a status the client takes is no longer due.
LEMMA LeftFacts ==
    ASSUME IInv, NEW h \in Requests, h \notin gone, Left(h),
           NEW s \in Statuses \cup {0},
           s \in Statuses => hpc[h] \in {"observe", "done"} /\ Wire(status[h]) = s
    PROVE  /\ UNCHANGED <<hpc, waiters, seen, met, rejected, exceeded>>
           /\ Inside' = Inside
           /\ status' \in [Requests -> Statuses \cup {0}]
           /\ gone' \subseteq gone \cup {h} /\ gone' \subseteq Inside'
           /\ reason' \in [Requests -> Reasons \cup {"ok"}]
           /\ \A g \in Requests : Wrote(g)'
           /\ \A q : Because(q)' = Because(q)
           /\ \A r \in Statuses : /\ Writing(r)' = Writing(r)
                                  /\ Due(r)' \subseteq Due(r)
                                  /\ r = s => h \in Due(r) /\ Due(r)' \subseteq Due(r) \ {h}
  <1>1. UNCHANGED <<hpc, waiters, seen, met, rejected, exceeded>>
    BY DEF Left
  <1>2. Inside' = Inside
    BY <1>1 DEF Inside
  <1>3. /\ status \in [Requests -> Statuses \cup {0}] /\ gone \subseteq Inside
        /\ reason \in [Requests -> Reasons \cup {"ok"}]
    BY DEF IInv, TypeOK, Streams
  <1>4. CASE h \in Inside
    <2>1. gone' = gone \cup {h} /\ status' = status /\ reason' = reason
      BY <1>4 DEF Left
    <2>4. (\A g \in Requests : Wrote(g)') /\ \A q : Because(q)' = Because(q)
      BY <1>1, <2>1 DEF IInv, Streams, Wrote, Because
    <2>2. \A r \in Statuses : Writing(r)' = Writing(r)
      BY <1>1, <2>1 DEF Writing
    <2>3. \A r \in Statuses : /\ Due(r)' \subseteq Due(r)
                              /\ r = s => h \in Due(r) /\ Due(r)' \subseteq Due(r) \ {h}
      BY <1>1, <2>1 DEF Due
    <2> QED BY <1>1, <1>2, <1>3, <1>4, <2>1, <2>2, <2>3, <2>4
  <1>5. CASE h \notin Inside
    <2>1. /\ gone' = gone /\ status' = [status EXCEPT ![h] = 0]
          /\ reason' = [reason EXCEPT ![h] = "ok"] /\ hpc[h] \in {"none", "done"}
      BY <1>5 DEF Left, Write, Inside
    <2>2. /\ status' \in [Requests -> Statuses \cup {0}] /\ status'[h] = 0
          /\ reason' \in [Requests -> Reasons \cup {"ok"}]
          /\ \A g \in Requests : g # h => status'[g] = status[g] /\ reason'[g] = reason[g]
      BY <1>3, <2>1
    <2>6. (\A g \in Requests : Wrote(g)') /\ \A q : Because(q)' = Because(q)
      BY <1>1, <2>1, <2>2 DEF IInv, Streams, Wrote, Because
    <2>3. \A r \in Statuses : Writing(r)' = Writing(r)
      BY <1>1, <2>1, <2>2 DEF Writing
    <2>4. 0 \notin Statuses /\ Wire(0) = 0
      BY StatusFacts
    <2>5. \A r \in Statuses : /\ Due(r)' \subseteq Due(r)
                              /\ r = s => h \in Due(r) /\ Due(r)' \subseteq Due(r) \ {h}
      <3> SUFFICES ASSUME NEW r \in Statuses
                   PROVE  /\ Due(r)' \subseteq Due(r)
                          /\ r = s => h \in Due(r) /\ Due(r)' \subseteq Due(r) \ {h}
        OBVIOUS
      <3>1. r # 0
        BY <2>4
      <3>2. h \notin Due(r)' /\ Due(r)' \subseteq Due(r)
        BY <1>1, <2>1, <2>2, <2>4, <3>1 DEF Due
      <3>3. r = s => h \in Due(r)
        BY DEF Due
      <3> QED BY <3>2, <3>3
    <2> QED BY <1>1, <1>2, <1>3, <2>1, <2>2, <2>3, <2>5, <2>6
  <1> QED BY <1>4, <1>5

\* The end of a call, with a status that the server wrote or with none.
LEMMA EndStep ==
    ASSUME IInv, NEW w \in Workers, NEW s \in Statuses \cup {0}, NEW err \in BOOLEAN,
           CallEnds(w, s, err), Left(cur[w]),
           s \in Statuses => hpc[cur[w]] \in {"observe", "done"} /\ Wire(status[cur[w]]) = s
    PROVE  IInv'
  <1>1. /\ wpc[w] = "call" /\ Add(s, err) /\ Log(s, err)
        /\ wpc' = [wpc EXCEPT ![w] = "top"] /\ cur' = [cur EXCEPT ![w] = 0]
        /\ UNCHANGED <<opt, seq, stopped, ctxDone, late, runLoad, issued>>
    BY DEF CallEnds
  <1>2. "top" \in WorkerStates /\ wpc[w] # "done" /\ wpc[w] \in Drawn
    BY <1>1 DEF WorkerStates, Drawn
  <1>3. /\ wpc'[w] = "top" /\ wpc' \in [Workers -> WorkerStates]
        /\ \A v \in Workers : v # w => wpc'[v] = wpc[v]
        /\ runLoad = "wait"
    BY <1>1, <1>2, WorkerMoves
  <1>4. /\ cur' \in [Workers -> 0..MaxReq]
        /\ \A v \in Workers : v # w => cur'[v] = cur[v]
    <2>1. cur \in [Workers -> 0..MaxReq] /\ 0 \in 0..MaxReq
      BY OptionFacts DEF IInv, TypeOK
    <2> QED BY <1>1, <2>1
  <1>5. cur[w] \in Requests /\ cur[w] \notin gone
    <2>1. cur[w] \in 1..seq /\ cur[w] \in 0..MaxReq
      BY <1>2 DEF IInv, Numbers, TypeOK
    <2>2. cur[w] \notin gone
      BY <1>1 DEF IInv, Streams
    <2>3. cur[w] \in 1..MaxReq
      BY <2>1, OptionFacts, NumberTypes
    <2> QED BY <2>2, <2>3 DEF Requests
  <1>6. PICK h \in Requests : h = cur[w]
    BY <1>5
  <1>7. h \notin gone /\ Left(h)
        /\ (s \in Statuses => hpc[h] \in {"observe", "done"} /\ Wire(status[h]) = s)
    BY <1>5, <1>6
  <1>8. /\ UNCHANGED <<hpc, waiters, seen, met, rejected, exceeded>>
        /\ Inside' = Inside
        /\ status' \in [Requests -> Statuses \cup {0}]
        /\ gone' \subseteq gone \cup {h} /\ gone' \subseteq Inside'
        /\ reason' \in [Requests -> Reasons \cup {"ok"}]
        /\ \A g \in Requests : Wrote(g)'
        /\ \A q : Because(q)' = Because(q)
        /\ \A r \in Statuses : /\ Writing(r)' = Writing(r)
                               /\ Due(r)' \subseteq Due(r)
                               /\ r = s => h \in Due(r) /\ Due(r)' \subseteq Due(r) \ {h}
    BY <1>7, LeftFacts
  <1>9. /\ st' \in Stats
        /\ st'.ok + st'.fail = st.ok + st.fail + 1
        /\ st'.fail = IF Failed(s, err) THEN st.fail + 1 ELSE st.fail
        /\ \A r \in Statuses :
             st'.byStatus[r] = IF r = s THEN st.byStatus[r] + 1 ELSE st.byStatus[r]
        /\ st'.byStatus[-1] = IF s = 0 THEN st.byStatus[-1] + 1 ELSE st.byStatus[-1]
    BY <1>1, AddFacts
  <1>10. /\ failLog' \in FailureLog
         /\ failLog'.written = failLog.written
         /\ opt.failLog =>
              failLog'.ch + failLog'.written + failLog'.dropped + failLog'.lost =
                failLog.ch + failLog.written + failLog.dropped + failLog.lost
                  + (IF Failed(s, err) THEN 1 ELSE 0)
    BY <1>1, LogFacts
  <1>11. TypeOK'
    <2>1. gone' \subseteq Requests
      BY <1>8 DEF IInv, TypeOK
    <2> QED BY <2>1, <1>1, <1>3, <1>4, <1>8, <1>9, <1>10 DEF IInv, TypeOK
  <1>12. \A v \in Workers : v # w /\ wpc[v] \in Drawn => cur[v] # h
    BY <1>2, <1>6 DEF IInv, Numbers
  <1>13. Numbers'
    <2>1. \A v \in Workers : wpc'[v] \in Drawn => v # w /\ wpc[v] \in Drawn /\ cur'[v] = cur[v]
      BY <1>3, <1>4 DEF Drawn
    <2>2. \A v \in Workers : wpc'[v] \in {"limit", "send"} => wpc[v] \in {"limit", "send"} /\ cur'[v] = cur[v]
      BY <1>3, <1>4
    <2> QED BY <2>1, <2>2, <1>1, <1>8 DEF IInv, Numbers
  <1>14. Streams'
    <2>1. \A v \in Workers : wpc'[v] = "call" => cur'[v] \notin gone'
      BY <1>3, <1>4, <1>8, <1>12 DEF IInv, Streams, Drawn
    <2> QED BY <2>1, <1>8 DEF IInv, Streams
  <1>15. Limits'
    BY <1>8 DEF IInv, Limits, NeverOverNeverRefused
  <1>16. Counted'
    <2>1. Refusals' /\ Timeouts'
      BY <1>8 DEF IInv, Counted, Refusals, Timeouts
    <2>2. Serving' = Serving
      BY <1>8 DEF Serving
    <2> QED BY <2>1, <2>2, <1>8 DEF IInv, Counted
  <1>17. Read'
    <2> SUFFICES ASSUME NEW r \in Statuses
                 PROVE  (st.byStatus[r] + Cardinality(Due(r)) <= Given(r) + Cardinality(Writing(r)))'
      BY DEF Read
    <2>1. st.byStatus[r] + Cardinality(Due(r)) <= Given(r) + Cardinality(Writing(r))
      BY DEF IInv, Read
    <2>2. /\ IsFiniteSet(Due(r)) /\ Cardinality(Due(r)) \in Nat /\ Cardinality(Writing(r)) \in Nat
          /\ st.byStatus[r] \in Nat /\ Given(r) \in Nat
      BY Sizes, NumberTypes
    <2>3. CASE r # s
      <3>1. Cardinality(Due(r)') <= Cardinality(Due(r)) /\ Cardinality(Due(r)') \in Nat
        BY <2>2, <1>8, FS_Subset, FS_CardinalityType
      <3>2. st'.byStatus[r] = st.byStatus[r] /\ Given(r)' = Given(r) /\ Writing(r)' = Writing(r)
        BY <2>3, <1>8, <1>9 DEF Given
      <3> QED BY <2>1, <2>2, <3>1, <3>2
    <2>4. CASE r = s
      <3>1. h \in Due(r) /\ Due(r)' \subseteq Due(r) \ {h}
        BY <2>4, <1>8
      <3>2. Cardinality(Due(r) \ {h}) = Cardinality(Due(r)) - 1 /\ IsFiniteSet(Due(r) \ {h})
        BY <3>1, <2>2, OneLess, FS_Subset
      <3>3. Cardinality(Due(r)') <= Cardinality(Due(r)) - 1 /\ Cardinality(Due(r)') \in Nat
        BY <3>1, <3>2, FS_Subset, FS_CardinalityType
      <3>4. st'.byStatus[r] = st.byStatus[r] + 1 /\ Given(r)' = Given(r) /\ Writing(r)' = Writing(r)
        BY <2>4, <1>8, <1>9 DEF Given
      <3> QED BY <2>1, <2>2, <3>3, <3>4
    <2> QED BY <2>3, <2>4
  <1>18. w \in InCall /\ InCall' = InCall \ {w}
    BY <1>1, <1>3 DEF InCall
  <1>19. Sent'
    <2>1. Sent
      BY DEF IInv
    <2>2. /\ met.received \in Nat /\ issued \in Nat /\ st.byStatus[-1] \in Nat
          /\ st.ok \in Nat /\ st.fail \in Nat /\ met' = met /\ issued' = issued
      BY NumberTypes, <1>1, <1>8
    <2>3. Cardinality(InCall)' = Cardinality(InCall) - 1 /\ Cardinality(InCall) \in Nat
      BY <1>18, OneLess, Sizes
    <2>4. (issued = st.ok + st.fail + Cardinality(InCall))'
      BY <2>1, <2>2, <2>3, <1>9 DEF Sent
    <2>5. (met.received <= issued)'
      BY <2>1, <2>2 DEF Sent
    <2>6. Unheard' = Unheard \ {w}
      BY <1>3, <1>4, <1>8, <1>18 DEF Unheard, InCall
    <2>7. (issued <= met.received + st.byStatus[-1] + Cardinality(Unheard))'
      <3>1. IsFiniteSet(Unheard) /\ Cardinality(Unheard) \in Nat
        BY Sizes
      <3>2. issued <= met.received + st.byStatus[-1] + Cardinality(Unheard)
        BY <2>1 DEF Sent
      <3>3. CASE w \in Unheard
        <4>1. s = 0
          BY <3>3, <1>6, <1>7 DEF Unheard
        <4>2. Cardinality(Unheard)' = Cardinality(Unheard) - 1
          BY <3>1, <3>3, <2>6, OneLess
        <4>3. st'.byStatus[-1] = st.byStatus[-1] + 1
          BY <4>1, <1>9
        <4> QED BY <3>1, <3>2, <4>2, <4>3, <2>2
      <3>4. CASE w \notin Unheard
        <4>1. Unheard' = Unheard
          BY <3>4, <2>6
        <4>2. st'.byStatus[-1] \in Nat /\ st'.byStatus[-1] >= st.byStatus[-1]
          BY <1>9, <2>2
        <4> QED BY <3>1, <3>2, <4>1, <4>2, <2>2
      <3> QED BY <3>3, <3>4
    <2> QED BY <2>4, <2>5, <2>7 DEF Sent
  <1>20. Logged'
    <2>1. Logged /\ failLog \in FailureLog /\ st.fail \in Nat
      BY NumberTypes DEF IInv, TypeOK
    <2>2. /\ failLog.ch \in Nat /\ failLog.written \in Nat /\ failLog.dropped \in Nat
          /\ failLog.lost \in Nat
      BY <2>1 DEF FailureLog
    <2>3. opt.failLog =>
            st'.fail = failLog'.ch + failLog'.written + failLog'.dropped + failLog'.lost
      BY <2>1, <2>2, <1>9, <1>10 DEF Logged
    <2> QED BY <2>1, <2>3, <1>1, <1>10 DEF Logged
  <1>21. Returning'
    BY <1>1, <1>3 DEF IInv, Returning
  <1>22. AllSent'
    <2>1. Sending' = Sending
      BY <1>1, <1>3 DEF Sending
    <2>2. \A v \in Workers : /\ wpc'[v] = "done" => wpc[v] = "done"
                             /\ wpc'[v] = "limit" => wpc[v] = "limit"
      BY <1>3
    <2>3. Uncut' = Uncut
      BY <1>1 DEF Uncut
    <2> QED BY <2>1, <2>2, <2>3, <1>1 DEF IInv, AllSent
  <1> QED BY <1>11, <1>13, <1>14, <1>15, <1>16, <1>17, <1>19, <1>20, <1>21, <1>22 DEF
                                                                                      IInv

\* The three ways a call ends.
LEMMA CallEndsStep ==
    ASSUME IInv, NEW w \in Workers, Answered(w) \/ Torn(w) \/ CallFails(w)
    PROVE  IInv'
  <1>1. ASSUME wpc[w] = "call" PROVE cur[w] \in Requests
    <2>1. cur[w] \in 1..seq /\ cur[w] \in 0..MaxReq
      BY <1>1 DEF IInv, Numbers, TypeOK, Drawn
    <2> QED BY <2>1, OptionFacts, NumberTypes DEF Requests
  <1>2. CASE Answered(w)
    <2>1. status[cur[w]] \in Statuses \cup {0}
      BY <1>1, <1>2 DEF Answered, IInv, TypeOK
    <2>2. PICK s \in Statuses \cup {0} : s = Wire(status[cur[w]])
      BY <2>1, StatusFacts
    <2>3. PICK err \in BOOLEAN : err = FALSE
      OBVIOUS
    <2>4. /\ CallEnds(w, s, err) /\ Left(cur[w])
          /\ hpc[cur[w]] \in {"observe", "done"} /\ Wire(status[cur[w]]) = s
      BY <1>2, <2>2, <2>3 DEF Answered
    <2> QED BY <2>4, EndStep
  <1>3. CASE Torn(w)
    <2>1. status[cur[w]] \in Statuses \cup {0}
      BY <1>1, <1>3 DEF Torn, IInv, TypeOK
    <2>2. PICK s \in Statuses \cup {0} : s = Wire(status[cur[w]])
      BY <2>1, StatusFacts
    <2>3. PICK err \in BOOLEAN : err = TRUE
      OBVIOUS
    <2>4. /\ CallEnds(w, s, err) /\ Left(cur[w])
          /\ hpc[cur[w]] \in {"observe", "done"} /\ Wire(status[cur[w]]) = s
      BY <1>3, <2>2, <2>3 DEF Torn
    <2> QED BY <2>4, EndStep
  <1>4. CASE CallFails(w)
    <2>1. PICK s \in Statuses \cup {0} : s = 0
      OBVIOUS
    <2>2. PICK err \in BOOLEAN : err = TRUE
      OBVIOUS
    <2>3. CallEnds(w, s, err) /\ Left(cur[w])
      BY <1>4, <2>1, <2>2 DEF CallFails
    <2>4. s \notin Statuses
      BY <2>1, StatusFacts
    <2> QED BY <2>3, <2>4, EndStep
  <1> QED BY <1>2, <1>3, <1>4

\* The log, the end of runLoad, the signal and the deadline.
LEMMA AroundStep ==
    ASSUME IInv, UNCHANGED serverVars,
           WriteLine \/ WaitWorkers \/ CloseLog \/ Interrupt \/ DeadlinePasses
    PROVE  IInv'
  <1> USE DEF serverVars
  <1>1. UNCHANGED <<opt, wpc, cur, seq, stopped, st, issued>>
    BY DEF WriteLine, WaitWorkers, CloseLog, Interrupt, DeadlinePasses
  <1>2. Limits' /\ Counted' /\ Read' /\ Inside' = Inside
    BY <1>1, ServerFrame
  <1>3. Numbers' /\ Streams'
    BY <1>1, <1>2, ServerFrame DEF IInv, Numbers, Streams
  <1>4. InCall' = InCall /\ Sending' = Sending
    BY <1>1 DEF InCall, Sending
  <1>5. Unheard' = Unheard
    BY <1>1, <1>4 DEF Unheard
  <1>6. Sent'
    BY <1>1, <1>4, <1>5 DEF IInv, Sent
  <1>7. ctxDone' \in BOOLEAN /\ late' \in BOOLEAN /\ (Uncut' => Uncut)
    <2>1. ctxDone \in BOOLEAN /\ late \in BOOLEAN
      BY DEF IInv, TypeOK
    <2>2. CASE UNCHANGED <<ctxDone, late>>
      BY <2>1, <2>2, <1>1 DEF Uncut
    <2>3. CASE Interrupt
      <3>1. ctxDone' = TRUE /\ UNCHANGED late
        BY <2>3 DEF Interrupt
      <3> QED BY <2>1, <3>1 DEF Uncut
    <2>4. CASE DeadlinePasses
      <3>1. late' = TRUE /\ UNCHANGED ctxDone
        BY <2>4 DEF DeadlinePasses
      <3> QED BY <2>1, <3>1 DEF Uncut
    <2> QED BY <2>2, <2>3, <2>4 DEF WriteLine, WaitWorkers, CloseLog
  <1>8. AllSent'
    BY <1>1, <1>4, <1>7 DEF IInv, AllSent
  <1>9. failLog \in FailureLog /\ FailMax \in Nat
    BY ClientAssumption DEF IInv, TypeOK
  <1>10. CASE UNCHANGED <<failLog, runLoad>>
    <2>1. Logged' /\ Returning'
      BY <1>1, <1>10 DEF IInv, Logged, Returning
    <2>2. TypeOK'
      BY <1>1, <1>7, <1>10 DEF IInv, TypeOK
    <2> QED BY <2>1, <2>2, <1>2, <1>3, <1>6, <1>8 DEF IInv
  <1>11. CASE WriteLine
    <2>1. /\ failLog' \in FailureLog
          /\ failLog'.ch + failLog'.written + failLog'.dropped + failLog'.lost
               = failLog.ch + failLog.written + failLog.dropped + failLog.lost
          /\ failLog.written <= FailMax => failLog'.written <= FailMax
      <3>0. /\ failLog.ch \in Nat /\ failLog.ch > 0 /\ failLog.ch - 1 \in Nat
            /\ failLog.written \in Nat /\ failLog.dropped \in Nat /\ failLog.lost \in Nat
        BY <1>9, <1>11 DEF WriteLine, FailureLog
      <3>1. CASE /\ failLog.written >= FailMax
                 /\ failLog' = [failLog EXCEPT !.ch = @ - 1, !.dropped = @ + 1]
        <4>1. failLog' = [ch |-> failLog.ch - 1, written |-> failLog.written,
                          dropped |-> failLog.dropped + 1, lost |-> failLog.lost]
          BY <3>1, <1>9 DEF FailureLog
        <4> QED BY <4>1, <3>0 DEF FailureLog
      <3>2. CASE /\ failLog.written < FailMax
                 /\ failLog' = [failLog EXCEPT !.ch = @ - 1, !.written = @ + 1]
        <4>1. failLog' = [ch |-> failLog.ch - 1, written |-> failLog.written + 1,
                          dropped |-> failLog.dropped, lost |-> failLog.lost]
          BY <3>2, <1>9 DEF FailureLog
        <4> QED BY <4>1, <3>0, <3>2, <1>9 DEF FailureLog
      <3>3. CASE failLog' = [failLog EXCEPT !.ch = @ - 1, !.lost = @ + 1]
        <4>1. failLog' = [ch |-> failLog.ch - 1, written |-> failLog.written,
                          dropped |-> failLog.dropped, lost |-> failLog.lost + 1]
          BY <3>3, <1>9 DEF FailureLog
        <4>2. /\ failLog'.ch = failLog.ch - 1 /\ failLog'.written = failLog.written
              /\ failLog'.dropped = failLog.dropped /\ failLog'.lost = failLog.lost + 1
          BY <4>1
        <4>3. failLog' \in FailureLog
          BY <4>1, <3>0 DEF FailureLog
        <4> QED BY <4>2, <4>3, <3>0
      <3> QED BY <3>1, <3>2, <3>3, <1>11 DEF WriteLine
    <2>2. runLoad' = runLoad /\ runLoad # "returned"
      BY <1>11 DEF WriteLine, IInv, Returning
    <2>3. Logged'
      BY <1>1, <2>1 DEF IInv, Logged
    <2>4. Returning'
      BY <1>1, <2>2 DEF IInv, Returning
    <2>5. TypeOK'
      BY <1>1, <1>7, <2>1, <2>2 DEF IInv, TypeOK
    <2> QED BY <2>3, <2>4, <2>5, <1>2, <1>3, <1>6, <1>8 DEF IInv
  <1>12. CASE WaitWorkers \/ CloseLog
    <2>1. /\ UNCHANGED failLog
          /\ \/ runLoad' = "close" /\ \A w \in Workers : wpc[w] = "done"
             \/ runLoad = "close" /\ runLoad' = "returned" /\ failLog.ch = 0
      BY <1>12 DEF WaitWorkers, CloseLog
    <2>2. Logged'
      BY <1>1, <2>1 DEF IInv, Logged
    <2>3. Returning'
      BY <1>1, <2>1 DEF IInv, Returning
    <2>4. TypeOK'
      BY <1>1, <1>7, <2>1 DEF IInv, TypeOK
    <2> QED BY <2>2, <2>3, <2>4, <1>2, <1>3, <1>6, <1>8 DEF IInv
  <1> QED BY <1>10, <1>11, <1>12 DEF Interrupt, DeadlinePasses

\* Every step keeps the invariant.
LEMMA StepIInv == IInv /\ [Next]_vars => IInv'
  <1> SUFFICES ASSUME IInv, [Next]_vars PROVE IInv'
    OBVIOUS
  <1>1. ASSUME NEW h \in Requests, Handler(h) /\ UNCHANGED clientVars PROVE IInv'
    BY <1>1, HandlersStep
  <1>2. ASSUME NEW w \in Workers, ClientStep(w) PROVE IInv'
    <2>1. CASE Draw(w) /\ UNCHANGED serverVars
      BY <2>1, DrawStep
    <2>2. CASE Limit(w) /\ UNCHANGED serverVars
      BY <2>2, LimitStep
    <2>3. CASE Call(w)
      BY <2>3, ArriveStep, LostStep DEF Call
    <2> QED BY <1>2, <2>1, <2>2, <2>3 DEF ClientStep
  <1>3. ASSUME NEW w \in Workers, Answered(w) \/ Torn(w) \/ CallFails(w) PROVE IInv'
    BY <1>3, CallEndsStep
  <1>4. CASE MainStep \/ ((Interrupt \/ DeadlinePasses) /\ UNCHANGED serverVars)
    BY <1>4, AroundStep DEF MainStep
  <1>5. CASE UNCHANGED vars
    <2> USE <1>5 DEF vars, serverVars, clientVars
    <2>1. Inside' = Inside /\ Serving' = Serving
      BY DEF Inside, Serving
    <2>3. InCall' = InCall /\ Unheard' = Unheard /\ Sending' = Sending
      BY DEF InCall, Unheard, Sending
    <2>4. TypeOK' /\ Numbers' /\ Limits' /\ Logged' /\ Returning'
      BY DEF IInv, TypeOK, Numbers, Limits, NeverOverNeverRefused, Logged, Returning
    <2>7. Counted' /\ Read' /\ \A h \in Requests : Wrote(h)'
      BY ServerFrame
    <2>5. Streams' /\ Sent'
      BY <2>1, <2>3, <2>7 DEF IInv, Streams, Sent
    <2>6. AllSent'
      BY <2>3 DEF IInv, AllSent, Uncut
    <2> QED BY <2>4, <2>5, <2>6, <2>7 DEF IInv
  <1> QED BY <1>1, <1>2, <1>3, <1>4, <1>5 DEF Next

-----------------------------------------------------------------------------
(* LoadTest: the theorems.                                                 *)

\* The invariant holds in every state of the load test.
THEOREM LoadInvariant == Spec => []IInv
  BY InitIInv, StepIInv, PTL DEF Spec

\* The max_pending gate refuses nobody before there were more than MaxPending
\* open transactions, in whatever order Create and remove store the gauge they
\* computed under the lock.
THEOREM RefusedOnlyWhenOver == Spec => []NeverOverNeverRefused
  <1>1. IInv => NeverOverNeverRefused
    BY DEF IInv, Limits
  <1> QED BY <1>1, LoadInvariant, PTL

\* What the client reports when runLoad returns is what it did: each request
\* sent is counted once, each failure logged, counted as dropped or refused by
\* the file, and with -n alone exactly n requests were sent.
THEOREM ClientReports == Spec => []ClientAccounts
  <1>1. IInv => ClientAccounts
    <2> SUFFICES ASSUME IInv, runLoad = "returned"
                 PROVE  /\ st.ok + st.fail = issued
                        /\ opt.failLog => st.fail = failLog.written + failLog.dropped + failLog.lost
                        /\ failLog.written <= FailMax
                        /\ (opt.n > 0 /\ opt.qps = 0 /\ ~late /\ ~ctxDone) => issued = opt.n
      BY DEF ClientAccounts
    <2>1. failLog.ch = 0 /\ \A w \in Workers : wpc[w] = "done"
      BY DEF IInv, Returning
    <2>2. InCall = {} /\ Sending = {}
      BY <2>1 DEF InCall, Sending
    <2>3. st.ok + st.fail = issued
      BY <2>2, NoneAtAll, NumberTypes DEF IInv, Sent
    <2>4. failLog.written \in Nat /\ failLog.dropped \in Nat /\ failLog.lost \in Nat
      BY DEF IInv, TypeOK, FailureLog
    <2>5. /\ opt.failLog => st.fail = failLog.written + failLog.dropped + failLog.lost
          /\ failLog.written <= FailMax
      BY <2>1, <2>4 DEF IInv, Logged
    <2>6. ASSUME Uncut PROVE issued = opt.n
      <3>1. 1 \in Workers /\ 1 <= opt.concurrency
        BY ClientAssumption, OptionFacts DEF Workers
      <3>2. stopped
        BY <3>1, <2>1, <2>6 DEF IInv, AllSent
      <3>3. seq > opt.n /\ issued + Cardinality(Sending) = IF seq <= opt.n THEN seq ELSE opt.n
        BY <3>2, <2>6 DEF IInv, AllSent
      <3> QED BY <3>3, <2>2, NoneAtAll, NumberTypes, OptionFacts
    <2> QED BY <2>3, <2>5, <2>6 DEF Uncut
  <1> QED BY <1>1, LoadInvariant, PTL

\* The gateway's counters and the client's statistics describe the same load
\* test, whatever statuses Logic answers with: nothing is counted twice or not
\* at all, and calls without a status are the only difference.
THEOREM ReportsMatch == Spec => []ReportsAgree
  <1>1. IInv => ReportsAgree
    <2> SUFFICES ASSUME IInv PROVE ReportsAgree
      OBVIOUS
    <2>1. /\ met.received = met.total + Cardinality(Inside)
          /\ met.inFlight = Cardinality(Serving)
          /\ met.total = met.ok + met.fail
      BY DEF IInv, Counted
    <2>2. ASSUME runLoad = "returned", Inside = {}
          PROVE  /\ met.failByReason["rate_limited"] = met.rateLimited
                 /\ met.http504 <= met.failByReason["timeout"]
                 /\ \A s \in Statuses \ {200} : st.byStatus[s] <= met.byStatus[s]
                 /\ st.byStatus[200] <= met.byStatus[200] + met.failByReason["unknown"]
                 /\ met.total <= issued
                 /\ issued - met.total <= st.byStatus[-1]
      <3>1. \A s : Cardinality(Writing(s)) = 0
        <4> TAKE s
        <4>1. Writing(s) = {}
          BY <2>2 DEF Inside, Writing
        <4> QED BY <4>1, NoneAtAll
      <3>2. Cardinality(Unheard) = 0 /\ Cardinality(Inside) = 0
        <4>1. Unheard = {}
          BY <2>2 DEF IInv, Returning, Unheard, InCall
        <4> QED BY <4>1, <2>2, NoneAtAll
      <3>3. /\ met.failByReason["rate_limited"] = met.rateLimited
            /\ met.http504 <= met.failByReason["timeout"]
        <4>1. \A q : Cardinality(Because(q)) = 0
          <5> TAKE q
          <5>1. Because(q) = {}
            BY <2>2 DEF Inside, Because
          <5> QED BY <5>1, NoneAtAll
        <4>2. met.failByReason["rate_limited"] \in Nat /\ met.failByReason["timeout"] \in Nat
          BY NumberTypes, ReasonFacts
        <4> QED BY <4>1, <4>2 DEF IInv, Counted, Refusals, Timeouts
      <3>4. ASSUME NEW s \in Statuses PROVE st.byStatus[s] <= Given(s)
        <4>1. st.byStatus[s] + Cardinality(Due(s)) <= Given(s) + Cardinality(Writing(s))
          BY DEF IInv, Read
        <4>2. Cardinality(Due(s)) \in Nat /\ st.byStatus[s] \in Nat /\ Given(s) \in Nat
          BY Sizes, NumberTypes
        <4> QED BY <4>1, <4>2, <3>1
      <3>8. \A s \in Statuses \ {200} : st.byStatus[s] <= met.byStatus[s]
        BY <3>4, NumberTypes DEF Given
      <3>9. st.byStatus[200] <= met.byStatus[200] + met.failByReason["unknown"]
        <4>1. PICK s \in Statuses : s = 200
          BY StatusFacts
        <4>2. st.byStatus[s] <= Given(s)
          BY <3>4
        <4> QED BY <4>1, <4>2 DEF Given
      <3>5. met.total = met.received
        BY <2>1, <3>2, NumberTypes
      <3>6. met.total <= issued
        BY <3>5 DEF IInv, Sent
      <3>7. issued - met.total <= st.byStatus[-1]
        <4>1. issued <= met.received + st.byStatus[-1] + Cardinality(Unheard)
          BY DEF IInv, Sent
        <4>2. issued \in Nat /\ met.received \in Nat /\ st.byStatus[-1] \in Nat
          BY NumberTypes
        <4> QED BY <4>1, <4>2, <3>2, <3>5
      <3> QED BY <3>3, <3>6, <3>7, <3>8, <3>9
    <2> QED BY <2>1, <2>2 DEF ReportsAgree
  <1> QED BY <1>1, LoadInvariant, PTL

-----------------------------------------------------------------------------
(* Dispatch: the inductive invariant, in named parts.                      *)

\* Every variable has its type, and finitely many workers are busy.
DTyped ==
    /\ pool \in [Envs -> Nat]
    /\ kind \in [Envs -> Kinds]
    /\ loopEnv \in Envs \cup {NoEnv}
    /\ run \in {"receive", "sending", "wait", "returned"}
    /\ queue \in Seq(Envs)
    /\ curEnv \in [InboundWorkers -> Envs \cup {NoEnv}]
    /\ logs \in [InboundWorkers -> Envs \cup {NoEnv}]
    /\ exited \subseteq InboundWorkers
    /\ outbound \subseteq Envs /\ replies \subseteq Envs
    /\ mailbox \subseteq Envs /\ http \subseteq Envs
    /\ shutdown \in 0..3
    /\ stranded \subseteq InboundWorkers \cup Envs \cup {"loop"}
    /\ rx \in Nat /\ rxErrors \in Nat /\ fatal \in 0..1
    /\ dropped \in Nat /\ handled \in Nat
    /\ IsFiniteSet(Busy)

\* What was read is counted or on its way; an error that was no datagram, the
\* last, is counted as well.
Tally ==
    /\ rx + fatal = rxErrors + dropped + handled + Len(queue) + Cardinality(Busy)
                      + (IF loopEnv = NoEnv THEN 0 ELSE 1)
    /\ fatal = 1 => run \in {"wait", "returned"}

\* The workers end when the queue is closed and empty, and Run after them.
Drained ==
    /\ run # "receive" => loopEnv = NoEnv
    /\ \A w \in exited : curEnv[w] = NoEnv /\ run \in {"wait", "returned"} /\ queue = <<>>
    /\ run = "returned" => exited = InboundWorkers

DInv == DTyped /\ EnvExclusive /\ Tally /\ Drained

-----------------------------------------------------------------------------
(* Dispatch: lemmas.                                                       *)

\* The workers that handle e, and the places of e in a queue.
Having(e) == {w \in InboundWorkers : curEnv[w] = e}
At(q, e) == {i \in DOMAIN q : q[i] = e}

\* The places in a queue are finitely many.
LEMMA AtFinite ==
    ASSUME NEW S, NEW q \in Seq(S), NEW e
    PROVE  IsFiniteSet(At(q, e)) /\ Cardinality(At(q, e)) \in Nat
  <1>1. DOMAIN q = 1..Len(q) /\ Len(q) \in Nat
    BY LenProperties
  <1>2. IsFiniteSet(1..Len(q)) /\ At(q, e) \subseteq 1..Len(q)
    BY <1>1, FS_Interval DEF At
  <1> QED BY <1>2, FS_Subset, FS_CardinalityType

\* One element at the end of a queue is one place more for it.
LEMMA AtAppend ==
    ASSUME NEW S, NEW q \in Seq(S), NEW x \in S, NEW e
    PROVE  Cardinality(At(Append(q, x), e)) =
             Cardinality(At(q, e)) + (IF x = e THEN 1 ELSE 0)
  <1>1. /\ Len(q) \in Nat /\ DOMAIN q = 1..Len(q)
        /\ DOMAIN Append(q, x) = 1..(Len(q) + 1)
        /\ \A i \in 1..Len(q) : Append(q, x)[i] = q[i]
        /\ Append(q, x)[Len(q) + 1] = x
    BY LenProperties, AppendProperties
  <1>2. CASE x = e
    <2>1. Len(q) + 1 \notin At(q, e)
      BY <1>1 DEF At
    <2>2. At(Append(q, x), e) = At(q, e) \cup {Len(q) + 1}
      BY <1>1, <1>2 DEF At
    <2> QED BY <1>2, <2>1, <2>2, OneMore, AtFinite
  <1>3. CASE x # e
    <2>1. At(Append(q, x), e) = At(q, e)
      BY <1>1, <1>3 DEF At
    <2> QED BY <1>3, <2>1, AtFinite
  <1> QED BY <1>2, <1>3

\* The head of a queue is one place less for it.
LEMMA AtTail ==
    ASSUME NEW S, NEW q \in Seq(S), q # <<>>, NEW e
    PROVE  Cardinality(At(q, e)) =
             Cardinality(At(Tail(q), e)) + (IF Head(q) = e THEN 1 ELSE 0)
  <1>1. /\ Len(q) \in Nat /\ Len(q) > 0 /\ DOMAIN q = 1..Len(q) /\ Head(q) = q[1]
        /\ Tail(q) \in Seq(S) /\ DOMAIN Tail(q) = 1..(Len(q) - 1)
        /\ \A i \in 1..(Len(q) - 1) : Tail(q)[i] = q[i + 1]
    <2>1. Len(q) \in Nat /\ DOMAIN q = 1..Len(q) /\ Len(q) > 0
      BY LenProperties, EmptySeq
    <2>2. /\ Tail(q) \in Seq(S) /\ Len(Tail(q)) = Len(q) - 1
          /\ \A i \in 1..Len(Tail(q)) : Tail(q)[i] = q[i + 1]
      BY HeadTailProperties
    <2> QED BY <2>1, <2>2, LenProperties
  <1> DEFINE T == At(Tail(q), e)
             R == At(q, e) \ {1}
             F == [i \in T |-> i + 1]
  <1>2. F \in [T -> R]
    <2>1. ASSUME NEW i \in T PROVE i + 1 \in R
      <3>1. i \in 1..(Len(q) - 1) /\ q[i + 1] = e
        BY <2>1, <1>1 DEF At
      <3>2. i + 1 \in 1..Len(q) /\ i + 1 # 1
        BY <3>1, <1>1
      <3> QED BY <3>1, <3>2, <1>1 DEF At
    <2> QED BY <2>1
  <1>3. \A i, j \in T : F[i] = F[j] => i = j
    <2>1. T \subseteq Int
      BY <1>1 DEF At
    <2> QED BY <2>1
  <1>4. \A j \in R : \E i \in T : F[i] = j
    <2> SUFFICES ASSUME NEW j \in R PROVE \E i \in T : F[i] = j
      OBVIOUS
    <2>1. j \in 1..Len(q) /\ j # 1 /\ q[j] = e
      BY <1>1 DEF At
    <2>2. j - 1 \in 1..(Len(q) - 1) /\ (j - 1) + 1 = j
      BY <2>1, <1>1
    <2>3. j - 1 \in T
      BY <2>1, <2>2, <1>1 DEF At
    <2> QED BY <2>2, <2>3
  <1> HIDE DEF F
  <1>5. Cardinality(R) = Cardinality(T)
    <2>1. F \in Bijection(T, R)
      BY <1>2, <1>3, <1>4, Fun_IsBij
    <2>2. ExistsBijection(T, R)
      BY <2>1, Fun_ExistsBij
    <2> QED BY <2>2, <1>1, AtFinite, FS_Bijection
  <1>6. CASE Head(q) = e
    <2>1. 1 \in At(q, e)
      BY <1>1, <1>6 DEF At
    <2>2. Cardinality(R) = Cardinality(At(q, e)) - 1 /\ Cardinality(At(q, e)) \in Nat
      BY <2>1, AtFinite, OneLess
    <2> QED BY <2>2, <1>5, <1>6
  <1>7. CASE Head(q) # e
    <2>1. R = At(q, e)
      BY <1>1, <1>7 DEF At
    <2>2. Cardinality(T) \in Nat
      BY <1>1, AtFinite
    <2> HIDE DEF R
    <2>3. Cardinality(At(q, e)) = Cardinality(T)
      BY <2>1, <1>5
    <2> QED BY <2>2, <2>3, <1>7
  <1> QED BY <1>6, <1>7

\* The sum that EnvExclusive bounds.
LEMMA Terms ==
    \A e : Holders(e) + pool[e] =
             Cardinality(Having(e)) + Cardinality(At(queue, e))
               + Holds(loopEnv = e) + Holds(e \in outbound) + Holds(e \in replies)
               + Holds(e \in mailbox) + Holds(e \in http) + pool[e]
  <1> TAKE e
  <1>1. {w \in InboundWorkers : curEnv[w] = e} = Having(e)
    BY DEF Having
  <1>2. Places(e) = At(queue, e)
    BY DEF Places, At
  <1> QED BY <1>1, <1>2, Zenon DEF Holders

\* The holders of an envelope, in numbers.
LEMMA Shares ==
    ASSUME DInv, NEW e \in Envs
    PROVE  /\ IsFiniteSet(Having(e)) /\ Cardinality(Having(e)) \in Nat
           /\ Cardinality(At(queue, e)) \in Nat /\ pool[e] \in Nat
           /\ Cardinality(Having(e)) + Cardinality(At(queue, e))
                + Holds(loopEnv = e) + Holds(e \in outbound) + Holds(e \in replies)
                + Holds(e \in mailbox) + Holds(e \in http) + pool[e] <= 1
  <1>1. Having(e) \subseteq Busy /\ IsFiniteSet(Busy)
    BY DispatchAssumption DEF DInv, DTyped, Having, Busy
  <1>2. IsFiniteSet(Having(e)) /\ Cardinality(Having(e)) \in Nat
    BY <1>1, FS_Subset, FS_CardinalityType
  <1>3. Cardinality(At(queue, e)) \in Nat
    BY AtFinite DEF DInv, DTyped
  <1>4. pool[e] \in Nat
    BY DEF DInv, DTyped
  <1>5. Holders(e) + pool[e] <= 1
    BY DEF DInv, EnvExclusive
  <1> QED BY <1>2, <1>3, <1>4, <1>5, Terms

\* The same, as it is to be shown after a step.
LEMMA ExclusiveNext ==
    ASSUME \A e \in Envs :
             (Cardinality(Having(e)) + Cardinality(At(queue, e))
                + Holds(loopEnv = e) + Holds(e \in outbound) + Holds(e \in replies)
                + Holds(e \in mailbox) + Holds(e \in http) + pool[e] <= 1)'
    PROVE  EnvExclusive'
  <1>1. (\A e : Holders(e) + pool[e] =
                 Cardinality(Having(e)) + Cardinality(At(queue, e))
                   + Holds(loopEnv = e) + Holds(e \in outbound) + Holds(e \in replies)
                   + Holds(e \in mailbox) + Holds(e \in http) + pool[e])'
    BY Terms, PTL
  <1> QED BY <1>1 DEF EnvExclusive

\* The invariant holds at the start.
LEMMA DInit == DispatchInit => DInv
  <1> SUFFICES ASSUME DispatchInit PROVE DInv
    OBVIOUS
  <1> USE DEF DispatchInit
  <1>1. Busy = {} /\ \A e \in Envs : Having(e) = {} /\ At(queue, e) = {}
    BY DispatchAssumption DEF Busy, Having, At
  <1>2. DTyped
    BY <1>1, FS_EmptySet, EmptySeq DEF DTyped, Kinds
  <1>3. EnvExclusive
    <2> SUFFICES ASSUME NEW e \in Envs PROVE Holders(e) + pool[e] <= 1
      BY DEF EnvExclusive
    <2>1. Cardinality(Having(e)) = 0 /\ Cardinality(At(queue, e)) = 0
      BY <1>1, NoneAtAll
    <2>2. loopEnv # e
      BY DispatchAssumption
    <2>3. pool[e] = 0 /\ outbound = {} /\ replies = {} /\ mailbox = {} /\ http = {}
      OBVIOUS
    <2> HIDE DEF DispatchInit
    <2> QED BY <2>1, <2>2, <2>3, Terms DEF Holds
  <1>4. Tally
    <2>1. Cardinality(Busy) = 0 /\ Len(queue) = 0
      BY <1>1, NoneAtAll
    <2> QED BY <2>1 DEF Tally
  <1>5. Drained
    BY DEF Drained
  <1> QED BY <1>2, <1>3, <1>4, <1>5 DEF DInv

\* A worker that is done has one envelope less.
LEMMA DoneFacts ==
    ASSUME DInv, NEW w \in InboundWorkers, Done(w),
           NEW x \in Envs, x = curEnv[w]
    PROVE  /\ curEnv' \in [InboundWorkers -> Envs \cup {NoEnv}]
           /\ IsFiniteSet(Busy')
           /\ Cardinality(Having(x))' = Cardinality(Having(x)) - 1
           /\ \A e \in Envs : e # x => Cardinality(Having(e))' = Cardinality(Having(e))
           /\ Tally' /\ Drained'
  <1>1. /\ curEnv' = [curEnv EXCEPT ![w] = NoEnv] /\ handled' = handled + 1
        /\ UNCHANGED <<kind, loopEnv, run, queue, exited, shutdown, stranded, rx, rxErrors,
                       fatal, dropped>>
    BY DEF Done
  <1>2. curEnv \in [InboundWorkers -> Envs \cup {NoEnv}] /\ curEnv[w] # NoEnv
    BY DispatchAssumption DEF DInv, DTyped
  <1>3. /\ curEnv' \in [InboundWorkers -> Envs \cup {NoEnv}] /\ curEnv'[w] = NoEnv
        /\ \A v \in InboundWorkers : v # w => curEnv'[v] = curEnv[v]
    BY <1>1, <1>2
  <1>4. w \in Busy /\ Busy' = Busy \ {w} /\ IsFiniteSet(Busy)
    BY <1>2, <1>3 DEF Busy, DInv, DTyped
  <1>5. IsFiniteSet(Busy') /\ Cardinality(Busy)' = Cardinality(Busy) - 1
        /\ Cardinality(Busy) \in Nat
    BY <1>4, OneLess, FS_Subset
  <1>7. Cardinality(Having(x))' = Cardinality(Having(x)) - 1
    <2>1. w \in Having(x)
      BY DEF Having
    <2>2. Having(x)' = Having(x) \ {w}
      BY DispatchAssumption, <1>3 DEF Having
    <2> QED BY <2>1, <2>2, Shares, OneLess
  <1>8. \A e \in Envs : e # x => Cardinality(Having(e))' = Cardinality(Having(e))
    <2> SUFFICES ASSUME NEW e \in Envs, e # x PROVE Having(e)' = Having(e)
      OBVIOUS
    <2> QED BY DispatchAssumption, <1>3 DEF Having
  <1>9. Tally'
    <2>1. /\ Tally /\ rx \in Nat /\ fatal \in 0..1
          /\ rxErrors \in Nat /\ dropped \in Nat /\ handled \in Nat /\ Len(queue) \in Nat
      BY LenProperties DEF DInv, DTyped
    <2> QED BY <2>1, <1>1, <1>5 DEF Tally
  <1>10. Drained'
    BY <1>1, <1>3 DEF DInv, Drained, DTyped
  <1> QED BY <1>3, <1>5, <1>7, <1>8, <1>9, <1>10

-----------------------------------------------------------------------------
(* Dispatch: the steps.                                                    *)

\* What no step changes that leaves the workers' envelopes, or the queue.
LEMMA Unmoved ==
    /\ curEnv' = curEnv => /\ \A e : Cardinality(Having(e))' = Cardinality(Having(e))
                           /\ Busy' = Busy
    /\ queue' = queue => \A e : Cardinality(At(queue, e))' = Cardinality(At(queue, e))
  <1>1. curEnv' = curEnv => (\A e : Having(e)' = Having(e)) /\ Busy' = Busy
    BY DEF Having, Busy
  <1>2. queue' = queue => \A e : At(queue, e)' = At(queue, e)
    BY DEF At
  <1> QED BY <1>1, <1>2

\* sync.Pool.Get: what it gives has no holder.
LEMMA GetFacts ==
    ASSUME DInv, NEW e \in Envs,
           pool[e] > 0 \/ Unreferenced(e)
    PROVE  /\ Cardinality(Having(e)) = 0 /\ Cardinality(At(queue, e)) = 0
           /\ loopEnv # e /\ e \notin outbound /\ e \notin replies
           /\ e \notin mailbox /\ e \notin http
           /\ pool[e] \in {0, 1}
  <1>1. /\ Cardinality(Having(e)) \in Nat
        /\ Cardinality(At(queue, e)) \in Nat /\ pool[e] \in Nat
        /\ Cardinality(Having(e)) + Cardinality(At(queue, e))
             + Holds(loopEnv = e) + Holds(e \in outbound) + Holds(e \in replies)
             + Holds(e \in mailbox) + Holds(e \in http) + pool[e] <= 1
    BY Shares
  <1>2. CASE pool[e] > 0
    BY <1>1, <1>2 DEF Holds
  <1>3. CASE Unreferenced(e)
    <2>1. Holders(e) + pool[e] = 0
      BY <1>3 DEF Unreferenced
    <2>2. Cardinality(Having(e)) + Cardinality(At(queue, e))
             + Holds(loopEnv = e) + Holds(e \in outbound) + Holds(e \in replies)
             + Holds(e \in mailbox) + Holds(e \in http) + pool[e] = 0
      BY <2>1, Terms
    <2> QED BY <1>1, <2>2 DEF Holds
  <1> QED BY <1>2, <1>3

\* A datagram decoded into an envelope.
LEMMA ReceiveStep ==
    ASSUME DInv, NEW e \in Envs, NEW k \in Kinds, Receive(e, k)
    PROVE  DInv'
  <1>1. /\ run = "receive" /\ loopEnv = NoEnv /\ loopEnv' = e /\ rx' = rx + 1
        /\ kind' = [kind EXCEPT ![e] = k]
        /\ UNCHANGED <<run, queue, curEnv, logs, exited, outbound, replies, mailbox, http,
                       shutdown, stranded, rxErrors, fatal, dropped, handled>>
    BY DEF Receive, Receiving, workerVars, laterVars
  <1>2. pool[e] > 0 \/ Unreferenced(e)
    BY DEF Receive, Get
  <1>3. pool' \in [Envs -> Nat] /\ pool'[e] = 0 /\ \A f \in Envs : f # e => pool'[f] = pool[f]
    <2>1. pool \in [Envs -> Nat] /\ pool[e] \in {0, 1}
      BY <1>2, GetFacts DEF DInv, DTyped
    <2>2. CASE pool[e] > 0 /\ pool' = [pool EXCEPT ![e] = @ - 1]
      BY <2>1, <2>2
    <2>3. CASE Unreferenced(e) /\ UNCHANGED pool
      BY <2>1, <2>3 DEF Unreferenced
    <2> QED BY <2>2, <2>3 DEF Receive, Get
  <1>4. DTyped'
    <2>1. Busy' = Busy
      BY <1>1, Unmoved
    <2>2. rx' \in Nat /\ kind' \in [Envs -> Kinds]
      BY <1>1 DEF DInv, DTyped
    <2> QED BY <2>1, <2>2, <1>1, <1>3 DEF DInv, DTyped
  <1>5. EnvExclusive'
    <2> SUFFICES ASSUME NEW f \in Envs
                 PROVE  (Cardinality(Having(f)) + Cardinality(At(queue, f))
                           + Holds(loopEnv = f) + Holds(f \in outbound) + Holds(f \in replies)
                           + Holds(f \in mailbox) + Holds(f \in http) + pool[f] <= 1)'
      BY ExclusiveNext
    <2>1. /\ Cardinality(Having(f))' = Cardinality(Having(f))
          /\ Cardinality(At(queue, f))' = Cardinality(At(queue, f))
      BY <1>1, Unmoved
    <2>2. CASE f = e
      BY <2>1, <2>2, <1>1, <1>2, <1>3, GetFacts DEF Holds
    <2>3. CASE f # e
      <3>1. loopEnv # f
        BY DispatchAssumption, <1>1
      <3> QED BY <2>1, <2>3, <3>1, <1>1, <1>3, Shares DEF Holds
    <2> QED BY <2>2, <2>3
  <1>6. Tally'
    <2>1. /\ rx \in Nat /\ fatal \in 0..1
          /\ rxErrors \in Nat /\ dropped \in Nat /\ handled \in Nat /\ Len(queue) \in Nat
          /\ Cardinality(Busy) \in Nat /\ e # NoEnv
      BY DispatchAssumption, LenProperties, FS_CardinalityType DEF DInv, DTyped
    <2>2. Busy' = Busy
      BY <1>1, Unmoved
    <2> QED BY <2>1, <2>2, <1>1 DEF DInv, Tally
  <1>7. Drained'
    BY <1>1 DEF DInv, Drained
  <1> QED BY <1>4, <1>5, <1>6, <1>7 DEF DInv

\* A datagram that cannot be decoded.
LEMMA ReceiveInvalidStep ==
    ASSUME DInv, NEW e \in Envs, ReceiveInvalid(e)
    PROVE  DInv'
  <1>1. /\ rx' = rx + 1 /\ rxErrors' = rxErrors + 1
        /\ run = "receive" /\ loopEnv = NoEnv /\ run' = "sending"
        /\ UNCHANGED <<kind, loopEnv, queue, curEnv, logs, exited, outbound, replies,
                       mailbox, http, shutdown, stranded, fatal, dropped, handled>>
    BY DEF ReceiveInvalid, Receiving, workerVars, laterVars
  <1>2. pool[e] > 0 \/ Unreferenced(e)
    BY DEF ReceiveInvalid
  <1>3. pool' \in [Envs -> Nat] /\ pool'[e] = 1 /\ \A f \in Envs : f # e => pool'[f] = pool[f]
    <2>1. pool \in [Envs -> Nat] /\ pool[e] \in {0, 1}
      BY <1>2, GetFacts DEF DInv, DTyped
    <2>2. CASE pool[e] > 0 /\ UNCHANGED pool
      BY <2>1, <2>2
    <2>3. CASE Unreferenced(e) /\ pool' = [pool EXCEPT ![e] = @ + 1]
      BY <2>1, <2>3 DEF Unreferenced
    <2> QED BY <2>2, <2>3 DEF ReceiveInvalid, Release
  <1>4. DTyped'
    <2>1. Busy' = Busy
      BY <1>1, Unmoved
    <2>2. rx' \in Nat /\ rxErrors' \in Nat
      BY <1>1 DEF DInv, DTyped
    <2> QED BY <2>1, <2>2, <1>1, <1>3 DEF DInv, DTyped
  <1>5. EnvExclusive'
    <2> SUFFICES ASSUME NEW f \in Envs
                 PROVE  (Cardinality(Having(f)) + Cardinality(At(queue, f))
                           + Holds(loopEnv = f) + Holds(f \in outbound) + Holds(f \in replies)
                           + Holds(f \in mailbox) + Holds(f \in http) + pool[f] <= 1)'
      BY ExclusiveNext
    <2>1. /\ Cardinality(Having(f))' = Cardinality(Having(f))
          /\ Cardinality(At(queue, f))' = Cardinality(At(queue, f))
      BY <1>1, Unmoved
    <2>2. CASE f = e
      BY <2>1, <2>2, <1>1, <1>2, <1>3, GetFacts DEF Holds
    <2>3. CASE f # e
      BY <2>1, <2>3, <1>1, <1>3, Shares DEF Holds
    <2> QED BY <2>2, <2>3
  <1>6. Tally'
    <2>1. /\ rx \in Nat /\ fatal \in 0..1
          /\ rxErrors \in Nat /\ dropped \in Nat /\ handled \in Nat /\ Len(queue) \in Nat
          /\ Cardinality(Busy) \in Nat
      BY LenProperties, FS_CardinalityType DEF DInv, DTyped
    <2>2. Busy' = Busy
      BY <1>1, Unmoved
    <2> QED BY <2>1, <2>2, <1>1 DEF DInv, Tally
  <1>7. Drained'
    BY <1>1 DEF DInv, Drained
  <1> QED BY <1>4, <1>5, <1>6, <1>7 DEF DInv

\* The queue takes the envelope of the receive loop.
LEMMA EnqueueStep ==
    ASSUME DInv, Enqueue
    PROVE  DInv'
  <1>1. /\ loopEnv # NoEnv /\ queue' = Append(queue, loopEnv) /\ loopEnv' = NoEnv
        /\ UNCHANGED <<pool, kind, run, curEnv, logs, exited, outbound, replies, mailbox, http,
                       shutdown, stranded, rx, rxErrors, fatal, dropped, handled>>
    BY DEF Enqueue, envVars, workerVars, laterVars, counters
  <1>2. PICK x \in Envs : x = loopEnv
    BY <1>1 DEF DInv, DTyped
  <1>3. /\ queue \in Seq(Envs) /\ Len(queue) \in Nat
        /\ queue' \in Seq(Envs) /\ Len(queue') = Len(queue) + 1
    BY <1>1, <1>2, LenProperties, AppendProperties DEF DInv, DTyped
  <1>4. Busy' = Busy
    BY <1>1, Unmoved
  <1>5. DTyped'
    BY <1>1, <1>3, <1>4 DEF DInv, DTyped
  <1>6. EnvExclusive'
    <2> SUFFICES ASSUME NEW f \in Envs
                 PROVE  (Cardinality(Having(f)) + Cardinality(At(queue, f))
                           + Holds(loopEnv = f) + Holds(f \in outbound) + Holds(f \in replies)
                           + Holds(f \in mailbox) + Holds(f \in http) + pool[f] <= 1)'
      BY ExclusiveNext
    <2>1. Cardinality(Having(f))' = Cardinality(Having(f))
      BY <1>1, Unmoved
    <2>2. Cardinality(At(queue, f))' = Cardinality(At(queue, f)) + Holds(loopEnv = f)
      <3>1. At(queue, f)' = At(Append(queue, x), f)
        BY <1>1, <1>2 DEF At
      <3>2. Cardinality(At(Append(queue, x), f)) =
              Cardinality(At(queue, f)) + (IF x = f THEN 1 ELSE 0)
        BY <1>3, AtAppend
      <3> QED BY <3>1, <3>2, <1>2 DEF Holds
    <2>3. loopEnv' # f
      BY DispatchAssumption, <1>1
    <2> QED BY <2>1, <2>2, <2>3, <1>1, Shares DEF Holds
  <1>7. Tally'
    <2>1. /\ rx \in Nat /\ fatal \in 0..1
          /\ rxErrors \in Nat /\ dropped \in Nat /\ handled \in Nat
          /\ Cardinality(Busy) \in Nat
      BY FS_CardinalityType DEF DInv, DTyped
    <2> QED BY <2>1, <1>1, <1>3, <1>4 DEF DInv, Tally
  <1>8. Drained'
    <2>1. run = "receive" /\ exited = {}
      BY <1>1 DEF DInv, Drained
    <2> QED BY <2>1, <1>1 DEF Drained
  <1> QED BY <1>5, <1>6, <1>7, <1>8 DEF DInv

\* The queue is full.
LEMMA DropStep ==
    ASSUME DInv, Drop
    PROVE  DInv'
  <1>1. /\ loopEnv # NoEnv /\ loopEnv' = NoEnv /\ dropped' = dropped + 1
        /\ UNCHANGED <<pool, kind, run, queue, curEnv, logs, exited, outbound, replies, mailbox,
                       http, shutdown, stranded, rx, rxErrors, fatal, handled>>
    BY DEF Drop, envVars, workerVars, laterVars
  <1>2. Busy' = Busy
    BY <1>1, Unmoved
  <1>3. DTyped'
    <2>1. dropped' \in Nat
      BY <1>1 DEF DInv, DTyped
    <2> QED BY <2>1, <1>1, <1>2 DEF DInv, DTyped
  <1>4. EnvExclusive'
    <2> SUFFICES ASSUME NEW f \in Envs
                 PROVE  (Cardinality(Having(f)) + Cardinality(At(queue, f))
                           + Holds(loopEnv = f) + Holds(f \in outbound) + Holds(f \in replies)
                           + Holds(f \in mailbox) + Holds(f \in http) + pool[f] <= 1)'
      BY ExclusiveNext
    <2>1. /\ Cardinality(Having(f))' = Cardinality(Having(f))
          /\ Cardinality(At(queue, f))' = Cardinality(At(queue, f))
      BY <1>1, Unmoved
    <2>2. loopEnv' # f
      BY DispatchAssumption, <1>1
    <2> QED BY <2>1, <2>2, <1>1, Shares DEF Holds
  <1>5. Tally'
    <2>1. /\ rx \in Nat /\ fatal \in 0..1
          /\ rxErrors \in Nat /\ dropped \in Nat /\ handled \in Nat /\ Len(queue) \in Nat
          /\ Cardinality(Busy) \in Nat
      BY LenProperties, FS_CardinalityType DEF DInv, DTyped
    <2> QED BY <2>1, <1>1, <1>2 DEF DInv, Tally
  <1>6. Drained'
    BY <1>1 DEF DInv, Drained
  <1> QED BY <1>3, <1>4, <1>5, <1>6 DEF DInv

\* A worker takes the head of the queue.
LEMMA TakeStep ==
    ASSUME DInv, NEW w \in InboundWorkers, Take(w)
    PROVE  DInv'
  <1>1. /\ curEnv[w] = NoEnv /\ queue # <<>>
        /\ curEnv' = [curEnv EXCEPT ![w] = Head(queue)] /\ queue' = Tail(queue)
        /\ UNCHANGED <<pool, kind, loopEnv, run, logs, exited, outbound, replies, mailbox, http,
                       shutdown, stranded, rx, rxErrors, fatal, dropped, handled>>
    BY DEF Take, envVars, laterVars, counters
  <1>2. /\ queue \in Seq(Envs) /\ Len(queue) \in Nat /\ Len(queue) > 0
        /\ queue' \in Seq(Envs) /\ Len(queue') = Len(queue) - 1
        /\ Head(queue) \in Envs
    BY <1>1, LenProperties, EmptySeq, HeadTailProperties DEF DInv, DTyped
  <1>3. PICK x \in Envs : x = Head(queue)
    BY <1>2
  <1>4. /\ curEnv' \in [InboundWorkers -> Envs \cup {NoEnv}] /\ curEnv'[w] = x
        /\ \A v \in InboundWorkers : v # w => curEnv'[v] = curEnv[v]
    BY <1>1, <1>3 DEF DInv, DTyped
  <1>5. x # NoEnv /\ NoEnv \notin Envs
    BY DispatchAssumption
  <1>6. w \notin Busy /\ Busy' = Busy \cup {w} /\ IsFiniteSet(Busy)
    BY <1>1, <1>4, <1>5 DEF Busy, DInv, DTyped
  <1>7. /\ IsFiniteSet(Busy') /\ Cardinality(Busy)' = Cardinality(Busy) + 1
        /\ Cardinality(Busy) \in Nat
    BY <1>6, OneMore, FS_AddElement, FS_CardinalityType
  <1>8. DTyped'
    BY <1>1, <1>2, <1>4, <1>7 DEF DInv, DTyped
  <1>9. EnvExclusive'
    <2> SUFFICES ASSUME NEW f \in Envs
                 PROVE  (Cardinality(Having(f)) + Cardinality(At(queue, f))
                           + Holds(loopEnv = f) + Holds(f \in outbound) + Holds(f \in replies)
                           + Holds(f \in mailbox) + Holds(f \in http) + pool[f] <= 1)'
      BY ExclusiveNext
    <2>1. Cardinality(At(queue, f)) =
            Cardinality(At(queue, f))' + (IF x = f THEN 1 ELSE 0)
      <3>1. At(queue, f)' = At(Tail(queue), f)
        BY <1>1 DEF At
      <3> QED BY <3>1, <1>1, <1>2, <1>3, AtTail
    <2>2. Cardinality(Having(f))' = Cardinality(Having(f)) + (IF x = f THEN 1 ELSE 0)
      <3>1. CASE x = f
        <4>1. w \notin Having(f) /\ Having(f)' = Having(f) \cup {w}
          BY <3>1, <1>1, <1>4, <1>5 DEF Having
        <4> QED BY <3>1, <4>1, Shares, OneMore
      <3>2. CASE x # f
        <4>1. Having(f)' = Having(f)
          BY <3>2, <1>1, <1>4, <1>5 DEF Having
        <4> QED BY <3>2, <4>1, Shares
      <3> QED BY <3>1, <3>2
    <2>3. Cardinality(At(queue, f))' \in Nat
      <3>1. At(queue, f)' = At(queue', f)
        BY DEF At
      <3> QED BY <3>1, <1>2, AtFinite
    <2> QED BY <2>1, <2>2, <2>3, <1>1, Shares DEF Holds
  <1>10. Tally'
    <2>1. /\ rx \in Nat /\ fatal \in 0..1
          /\ rxErrors \in Nat /\ dropped \in Nat /\ handled \in Nat
      BY DEF DInv, DTyped
    <2> QED BY <2>1, <1>1, <1>2, <1>7 DEF DInv, Tally
  <1>11. Drained'
    <2>1. exited = {}
      BY <1>1 DEF DInv, Drained
    <2>2. w \notin exited
      BY <2>1
    <2> QED BY <2>1, <2>2, <1>1 DEF DInv, Drained
  <1> QED BY <1>8, <1>9, <1>10, <1>11 DEF DInv

\* A worker is done with its envelope, which goes to one place at most.
LEMMA PassedOn ==
    ASSUME DInv, NEW w \in InboundWorkers, Done(w),
           NEW x \in Envs, x = curEnv[w],
           UNCHANGED <<replies, http>>,
           logs' \in [InboundWorkers -> Envs \cup {NoEnv}],
           pool' \in [Envs -> Nat], outbound' \subseteq Envs, mailbox' \subseteq Envs,
           \A f \in Envs :
              Holds(f \in outbound') + Holds(f \in mailbox') + pool'[f]
                <= Holds(f \in outbound) + Holds(f \in mailbox) + pool[f]
                     + (IF f = x THEN 1 ELSE 0)
    PROVE  DInv'
  <1>1. /\ curEnv' \in [InboundWorkers -> Envs \cup {NoEnv}]
        /\ IsFiniteSet(Busy')
        /\ Cardinality(Having(x))' = Cardinality(Having(x)) - 1
        /\ \A e \in Envs : e # x => Cardinality(Having(e))' = Cardinality(Having(e))
        /\ Tally' /\ Drained'
    BY DoneFacts
  <1>2. /\ handled' = handled + 1
        /\ UNCHANGED <<kind, loopEnv, run, queue, exited, shutdown, stranded, rx, rxErrors,
                       fatal, dropped>>
    BY DEF Done
  <1>3. DTyped'
    <2>1. handled' \in Nat
      BY <1>2 DEF DInv, DTyped
    <2> QED BY <2>1, <1>1, <1>2 DEF DInv, DTyped
  <1>4. EnvExclusive'
    <2> SUFFICES ASSUME NEW f \in Envs
                 PROVE  (Cardinality(Having(f)) + Cardinality(At(queue, f))
                           + Holds(loopEnv = f) + Holds(f \in outbound) + Holds(f \in replies)
                           + Holds(f \in mailbox) + Holds(f \in http) + pool[f] <= 1)'
      BY ExclusiveNext
    <2>1. Cardinality(At(queue, f))' = Cardinality(At(queue, f))
      BY <1>2, Unmoved
    <2>2. Cardinality(Having(f))' + (IF f = x THEN 1 ELSE 0) = Cardinality(Having(f))
      BY <1>1, Shares
    <2>3. Cardinality(Having(f))' \in Nat /\ pool'[f] \in Nat
      <3>1. Having(f)' \subseteq Busy'
        BY DispatchAssumption, <1>1 DEF Having, Busy
      <3> QED BY <3>1, <1>1, FS_Subset, FS_CardinalityType
    <2>4. Holds(f \in outbound') + Holds(f \in mailbox') + pool'[f]
            <= Holds(f \in outbound) + Holds(f \in mailbox) + pool[f]
                 + (IF f = x THEN 1 ELSE 0)
      OBVIOUS
    <2>5. /\ Cardinality(Having(f)) \in Nat
          /\ Cardinality(At(queue, f)) \in Nat /\ pool[f] \in Nat
          /\ Cardinality(Having(f)) + Cardinality(At(queue, f))
               + Holds(loopEnv = f) + Holds(f \in outbound) + Holds(f \in replies)
               + Holds(f \in mailbox) + Holds(f \in http) + pool[f] <= 1
      BY Shares
    <2> QED BY <2>1, <2>2, <2>3, <2>4, <2>5, <1>2 DEF Holds
  <1> QED BY <1>1, <1>3, <1>4 DEF DInv

\* The steps of a worker.
LEMMA WorkerStepKeeps ==
    ASSUME DInv, NEW w \in InboundWorkers, WorkerStep(w)
    PROVE  DInv'
  <1>0. /\ pool \in [Envs -> Nat] /\ outbound \subseteq Envs /\ mailbox \subseteq Envs
        /\ logs \in [InboundWorkers -> Envs \cup {NoEnv}]
        /\ curEnv \in [InboundWorkers -> Envs \cup {NoEnv}]
    BY DEF DInv, DTyped
  <1>1. CASE Take(w)
    BY <1>1, TakeStep
  <1>2. CASE HandleControl(w) \/ HandleMiss(w)
    <2>1. /\ curEnv[w] # NoEnv /\ Release(curEnv[w]) /\ Done(w)
          /\ UNCHANGED <<logs, outbound, replies, mailbox, http>>
      BY <1>2 DEF HandleControl, HandleMiss, laterVars
    <2>2. PICK x \in Envs : x = curEnv[w]
      BY <2>1, <1>0
    <2>3. pool' = [pool EXCEPT ![x] = @ + 1]
      BY <2>1, <2>2 DEF Release
    <2>4. pool' \in [Envs -> Nat] /\ \A f \in Envs : pool'[f] = pool[f] + (IF f = x THEN 1 ELSE 0)
      BY <2>3, <1>0
    <2>5. \A f \in Envs :
             Holds(f \in outbound') + Holds(f \in mailbox') + pool'[f]
               <= Holds(f \in outbound) + Holds(f \in mailbox) + pool[f]
                    + (IF f = x THEN 1 ELSE 0)
      BY <2>1, <2>4, <1>0 DEF Holds
    <2> QED BY <2>1, <2>2, <2>4, <2>5, <1>0, PassedOn
  <1>3. CASE Handover(w)
    <2>1. /\ curEnv[w] # NoEnv /\ Done(w) /\ mailbox' = mailbox \cup {curEnv[w]}
          /\ logs' = [logs EXCEPT ![w] = IF Debug THEN curEnv[w] ELSE NoEnv]
          /\ UNCHANGED <<pool, outbound, replies, http>>
      BY <1>3 DEF Handover
    <2>2. PICK x \in Envs : x = curEnv[w]
      BY <2>1, <1>0
    <2>3. mailbox' = mailbox \cup {x} /\ mailbox' \subseteq Envs
      BY <2>1, <2>2, <1>0
    <2>4. logs' \in [InboundWorkers -> Envs \cup {NoEnv}]
      <3>1. (IF Debug THEN curEnv[w] ELSE NoEnv) \in Envs \cup {NoEnv}
        BY <1>0
      <3> QED BY <2>1, <3>1, <1>0
    <2>5. \A f \in Envs :
             Holds(f \in outbound') + Holds(f \in mailbox') + pool'[f]
               <= Holds(f \in outbound) + Holds(f \in mailbox) + pool[f]
                    + (IF f = x THEN 1 ELSE 0)
      BY <2>1, <2>3, <1>0 DEF Holds
    <2> QED BY <2>1, <2>2, <2>3, <2>4, <2>5, <1>0, PassedOn
  <1>4. CASE HandleError(w)
    <2>1. /\ curEnv[w] # NoEnv /\ Done(w)
          /\ UNCHANGED <<pool, logs, outbound, replies, mailbox, http>>
      BY <1>4 DEF HandleError, laterVars
    <2>2. PICK x \in Envs : x = curEnv[w]
      BY <2>1, <1>0
    <2>3. \A f \in Envs :
             Holds(f \in outbound') + Holds(f \in mailbox') + pool'[f]
               <= Holds(f \in outbound) + Holds(f \in mailbox) + pool[f]
                    + (IF f = x THEN 1 ELSE 0)
      BY <2>1, <1>0 DEF Holds
    <2> QED BY <2>1, <2>2, <2>3, <1>0, PassedOn
  <1>5. CASE HandleDataRequest(w)
    <2>1. /\ curEnv[w] # NoEnv /\ Done(w) /\ outbound' = outbound \cup {curEnv[w]}
          /\ UNCHANGED <<pool, logs, replies, mailbox, http>>
      BY <1>5 DEF HandleDataRequest
    <2>2. PICK x \in Envs : x = curEnv[w]
      BY <2>1, <1>0
    <2>3. outbound' = outbound \cup {x} /\ outbound' \subseteq Envs
      BY <2>1, <2>2, <1>0
    <2>4. \A f \in Envs :
             Holds(f \in outbound') + Holds(f \in mailbox') + pool'[f]
               <= Holds(f \in outbound) + Holds(f \in mailbox) + pool[f]
                    + (IF f = x THEN 1 ELSE 0)
      BY <2>1, <2>3, <1>0 DEF Holds
    <2> QED BY <2>1, <2>2, <2>3, <2>4, <1>0, PassedOn
  <1>6. CASE LogResponse(w) \/ Exit(w)
    <2>1. /\ UNCHANGED <<pool, kind, loopEnv, run, queue, curEnv, outbound, replies, mailbox,
                         http, shutdown, stranded, rx, rxErrors, fatal, dropped, handled>>
          /\ logs' = logs \/ logs' = [logs EXCEPT ![w] = NoEnv]
          /\ exited' = exited \/ ( /\ exited' = exited \cup {w} /\ curEnv[w] = NoEnv
                                   /\ run = "wait" /\ queue = <<>> )
      BY <1>6 DEF LogResponse, Exit, envVars, laterVars, counters
    <2>2. Busy' = Busy
      BY <2>1, Unmoved
    <2>3. logs' \in [InboundWorkers -> Envs \cup {NoEnv}] /\ exited' \subseteq InboundWorkers
      BY <2>1, <1>0 DEF DInv, DTyped
    <2>4. DTyped'
      BY <2>1, <2>2, <2>3 DEF DInv, DTyped
    <2>5. EnvExclusive'
      <3> SUFFICES ASSUME NEW f \in Envs
                   PROVE  (Cardinality(Having(f)) + Cardinality(At(queue, f))
                             + Holds(loopEnv = f) + Holds(f \in outbound) + Holds(f \in replies)
                             + Holds(f \in mailbox) + Holds(f \in http) + pool[f] <= 1)'
        BY ExclusiveNext
      <3>1. /\ Cardinality(Having(f))' = Cardinality(Having(f))
            /\ Cardinality(At(queue, f))' = Cardinality(At(queue, f))
        BY <2>1, Unmoved
      <3> QED BY <3>1, <2>1, Shares DEF Holds
    <2>6. Tally'
      BY <2>1, <2>2 DEF DInv, Tally
    <2>7. Drained'
      BY <2>1 DEF DInv, Drained
    <2> QED BY <2>4, <2>5, <2>6, <2>7 DEF DInv
  <1> QED BY <1>1, <1>2, <1>3, <1>4, <1>5, <1>6 DEF WorkerStep

\* A step after the worker, or of Run, that gives no envelope a second holder.
LEMMA HandedOn ==
    ASSUME DInv,
           UNCHANGED <<kind, loopEnv, queue, curEnv, logs, exited, rx, rxErrors, fatal,
                       dropped, handled>>,
           run' \in {"receive", "sending", "wait", "returned"}, shutdown' \in 0..3,
           stranded' \subseteq InboundWorkers \cup Envs \cup {"loop"},
           fatal = 1 => run' \in {"wait", "returned"},
           pool' \in [Envs -> Nat], outbound' \subseteq Envs, replies' \subseteq Envs,
           mailbox' \subseteq Envs, http' \subseteq Envs,
           Drained',
           \A f \in Envs :
              Holds(f \in outbound') + Holds(f \in replies') + Holds(f \in mailbox')
                  + Holds(f \in http') + pool'[f]
                <= Holds(f \in outbound) + Holds(f \in replies) + Holds(f \in mailbox)
                     + Holds(f \in http) + pool[f]
    PROVE  DInv'
  <1>1. Busy' = Busy
    BY Unmoved
  <1>2. DTyped'
    BY <1>1 DEF DInv, DTyped
  <1>3. Tally'
    BY <1>1 DEF DInv, Tally
  <1>4. EnvExclusive'
    <2> SUFFICES ASSUME NEW f \in Envs
                 PROVE  (Cardinality(Having(f)) + Cardinality(At(queue, f))
                           + Holds(loopEnv = f) + Holds(f \in outbound) + Holds(f \in replies)
                           + Holds(f \in mailbox) + Holds(f \in http) + pool[f] <= 1)'
      BY ExclusiveNext
    <2>1. /\ Cardinality(Having(f))' = Cardinality(Having(f))
          /\ Cardinality(At(queue, f))' = Cardinality(At(queue, f))
      BY Unmoved
    <2>2. pool'[f] \in Nat
      OBVIOUS
    <2>3. Holds(f \in outbound') + Holds(f \in replies') + Holds(f \in mailbox')
             + Holds(f \in http') + pool'[f]
            <= Holds(f \in outbound) + Holds(f \in replies) + Holds(f \in mailbox)
                 + Holds(f \in http) + pool[f]
      OBVIOUS
    <2>4. /\ Cardinality(Having(f)) \in Nat
          /\ Cardinality(At(queue, f)) \in Nat /\ pool[f] \in Nat
          /\ Cardinality(Having(f)) + Cardinality(At(queue, f))
               + Holds(loopEnv = f) + Holds(f \in outbound) + Holds(f \in replies)
               + Holds(f \in mailbox) + Holds(f \in http) + pool[f] <= 1
      BY Shares
    <2> QED BY <2>1, <2>2, <2>3, <2>4 DEF Holds
  <1> QED BY <1>2, <1>3, <1>4 DEF DInv

\* onDataRequest, the waiter and the HTTP handler.
LEMMA LaterStep ==
    ASSUME DInv, NEW e \in Envs,
           \/ ForwardReturns(e) \/ ForwardEnds(e) \/ Reply(e)
           \/ Serve(e) \/ Abandon(e) \/ ServeDone(e)
    PROVE  DInv'
  <1>1. /\ UNCHANGED <<kind, loopEnv, queue, curEnv, logs, exited, rx, rxErrors, fatal,
                       dropped, handled>>
        /\ UNCHANGED <<run, shutdown, stranded>>
    BY DEF ForwardReturns, ForwardEnds, ForwardAnswered, Reply, Serve, Abandon,
           ServeDone, envVars, workerVars, counters
  <1>2. /\ run' \in {"receive", "sending", "wait", "returned"} /\ shutdown' \in 0..3 /\ Drained'
        /\ stranded' \subseteq InboundWorkers \cup Envs \cup {"loop"}
        /\ fatal = 1 => run' \in {"wait", "returned"}
        /\ pool \in [Envs -> Nat] /\ outbound \subseteq Envs /\ replies \subseteq Envs
        /\ mailbox \subseteq Envs /\ http \subseteq Envs
    BY <1>1 DEF DInv, DTyped, Drained, Tally
  <1>3. /\ pool' \in [Envs -> Nat] /\ outbound' \subseteq Envs /\ replies' \subseteq Envs
        /\ mailbox' \subseteq Envs /\ http' \subseteq Envs
        /\ \A f \in Envs :
              Holds(f \in outbound') + Holds(f \in replies') + Holds(f \in mailbox')
                  + Holds(f \in http') + pool'[f]
                <= Holds(f \in outbound) + Holds(f \in replies) + Holds(f \in mailbox)
                     + Holds(f \in http) + pool[f]
    <2>1. CASE ForwardAnswered(e)
      <3>1. /\ e \in outbound /\ outbound' = outbound \ {e} /\ replies' = replies \cup {e}
            /\ UNCHANGED <<pool, mailbox, http>>
        BY <2>1 DEF ForwardAnswered, envVars
      <3> QED BY <3>1, <1>2 DEF Holds
    <2>2. CASE Reply(e)
      <3>1. /\ e \in replies /\ replies' = replies \ {e} /\ pool' = [pool EXCEPT ![e] = @ + 1]
            /\ UNCHANGED <<outbound, mailbox, http>>
        BY <2>2 DEF Reply, Release
      <3>2. /\ pool' \in [Envs -> Nat] /\ pool'[e] = pool[e] + 1
            /\ \A f \in Envs : f # e => pool'[f] = pool[f]
        BY <3>1, <1>2
      <3> QED BY <3>1, <3>2, <1>2 DEF Holds
    <2>3. CASE Serve(e)
      <3>1. /\ e \in mailbox /\ mailbox' = mailbox \ {e} /\ http' = http \cup {e}
            /\ UNCHANGED <<pool, outbound, replies>>
        BY <2>3 DEF Serve, envVars
      <3> QED BY <3>1, <1>2 DEF Holds
    <2>4. CASE Abandon(e)
      <3>1. /\ mailbox' = mailbox \ {e} /\ UNCHANGED <<pool, outbound, replies, http>>
        BY <2>4 DEF Abandon, envVars
      <3> QED BY <3>1, <1>2 DEF Holds
    <2>5. CASE ServeDone(e)
      <3>1. /\ e \in http /\ http' = http \ {e} /\ pool' = [pool EXCEPT ![e] = @ + 1]
            /\ UNCHANGED <<outbound, replies, mailbox>>
        BY <2>5 DEF ServeDone, Release
      <3>2. /\ pool' \in [Envs -> Nat] /\ pool'[e] = pool[e] + 1
            /\ \A f \in Envs : f # e => pool'[f] = pool[f]
        BY <3>1, <1>2
      <3> QED BY <3>1, <3>2, <1>2 DEF Holds
    <2> QED BY <2>1, <2>2, <2>3, <2>4, <2>5 DEF ForwardReturns, ForwardEnds
  <1> QED BY <1>1, <1>2, <1>3, HandedOn

\* The loop's ERROR is sent, the loop ends, Run returns, the shutdown.
LEMMA EndingStep ==
    ASSUME DInv,
           SendError \/ ReceiveEnds \/ RunReturn \/ Shutdown \/ UNCHANGED dispatchVars
    PROVE  DInv'
  <1>1. /\ UNCHANGED <<kind, loopEnv, queue, curEnv, logs, exited, rx, rxErrors, fatal,
                       dropped, handled>>
        /\ UNCHANGED <<pool, outbound, replies, mailbox, http>>
    BY DEF SendError, ReceiveEnds, RunReturn, Shutdown, dispatchVars, envVars, workerVars,
           laterVars, counters
  <1>2. /\ run' \in {"receive", "sending", "wait", "returned"} /\ Drained'
        /\ fatal = 1 => run' \in {"wait", "returned"}
    <2>1. \/ run' = run
          \/ run = "sending" /\ run' = "receive"
          \/ run = "receive" /\ loopEnv = NoEnv /\ run' = "wait"
          \/ run = "wait" /\ exited = InboundWorkers /\ run' = "returned"
      BY DEF SendError, ReceiveEnds, RunReturn, Shutdown, dispatchVars
    <2> QED BY <1>1, <2>1 DEF DInv, DTyped, Drained, Tally
  <1>3. shutdown' \in 0..3
    <2>1. shutdown' = shutdown \/ (shutdown < 3 /\ shutdown' = shutdown + 1)
      BY DEF SendError, ReceiveEnds, RunReturn, Shutdown, dispatchVars
    <2>2. shutdown \in 0..3
      BY DEF DInv, DTyped
    <2> QED BY <2>1, <2>2
  <1>s. stranded' \subseteq InboundWorkers \cup Envs \cup {"loop"}
    <2>1. stranded' = stranded \/ stranded' \subseteq InSend
      BY DEF SendError, ReceiveEnds, RunReturn, Shutdown, dispatchVars
    <2>2. InSend \subseteq InboundWorkers \cup Envs \cup {"loop"}
      BY DEF InSend, Busy, DInv, DTyped
    <2> QED BY <2>1, <2>2 DEF DInv, DTyped
  <1>4. /\ pool' \in [Envs -> Nat] /\ outbound' \subseteq Envs /\ replies' \subseteq Envs
        /\ mailbox' \subseteq Envs /\ http' \subseteq Envs
    BY <1>1 DEF DInv, DTyped
  <1>5. \A f \in Envs :
           Holds(f \in outbound') + Holds(f \in replies') + Holds(f \in mailbox')
               + Holds(f \in http') + pool'[f]
             <= Holds(f \in outbound) + Holds(f \in replies) + Holds(f \in mailbox)
                  + Holds(f \in http) + pool[f]
    BY <1>1, <1>4 DEF Holds
  <1> QED BY <1>1, <1>2, <1>3, <1>s, <1>4, <1>5, HandedOn

\* An error of the socket: counted, although nothing was read.
LEMMA FatalStep ==
    ASSUME DInv, ReceiveFails
    PROVE  DInv'
  <1>1. /\ run = "receive" /\ loopEnv = NoEnv /\ run' = "wait"
        /\ rxErrors' = rxErrors + 1 /\ fatal' = fatal + 1
        /\ UNCHANGED <<pool, kind, loopEnv, queue, curEnv, logs, exited, outbound, replies,
                       mailbox, http, shutdown, stranded, rx, dropped, handled>>
    BY DEF ReceiveFails, Receiving, envVars, workerVars, laterVars
  <1>2. Busy' = Busy
    BY <1>1, Unmoved
  <1>3. fatal = 0 /\ fatal' = 1
    BY <1>1 DEF DInv, DTyped, Tally
  <1>4. DTyped'
    <2>1. rxErrors' \in Nat /\ fatal' \in 0..1
      BY <1>1, <1>3 DEF DInv, DTyped
    <2> QED BY <2>1, <1>1, <1>2 DEF DInv, DTyped
  <1>5. EnvExclusive'
    <2> SUFFICES ASSUME NEW f \in Envs
                 PROVE  (Cardinality(Having(f)) + Cardinality(At(queue, f))
                           + Holds(loopEnv = f) + Holds(f \in outbound) + Holds(f \in replies)
                           + Holds(f \in mailbox) + Holds(f \in http) + pool[f] <= 1)'
      BY ExclusiveNext
    <2>1. /\ Cardinality(Having(f))' = Cardinality(Having(f))
          /\ Cardinality(At(queue, f))' = Cardinality(At(queue, f))
      BY <1>1, Unmoved
    <2> QED BY <2>1, <1>1, Shares DEF Holds
  <1>6. Tally'
    <2>1. /\ rx \in Nat /\ rxErrors \in Nat /\ dropped \in Nat /\ handled \in Nat
          /\ Len(queue) \in Nat /\ Cardinality(Busy) \in Nat
      BY LenProperties, FS_CardinalityType DEF DInv, DTyped
    <2> QED BY <2>1, <1>1, <1>2, <1>3 DEF DInv, Tally
  <1>7. Drained'
    BY <1>1 DEF DInv, Drained
  <1> QED BY <1>4, <1>5, <1>6, <1>7 DEF DInv

\* Every step keeps the invariant.
LEMMA DStep == DInv /\ [DispatchNext]_dispatchVars => DInv'
  <1> SUFFICES ASSUME DInv, [DispatchNext]_dispatchVars PROVE DInv'
    OBVIOUS
  <1>1. ASSUME NEW e \in Envs, ReceiveInvalid(e) PROVE DInv'
    BY <1>1, ReceiveInvalidStep
  <1>2. ASSUME NEW e \in Envs, NEW k \in Kinds, Receive(e, k) PROVE DInv'
    BY <1>2, ReceiveStep
  <1>3. CASE LoopStep \/ ReceiveEnds \/ ReceiveFails
    BY <1>3, EnqueueStep, DropStep, EndingStep, FatalStep DEF LoopStep
  <1>4. ASSUME NEW w \in InboundWorkers, WorkerStep(w) PROVE DInv'
    BY <1>4, WorkerStepKeeps
  <1>5. ASSUME NEW e \in Envs,
               \/ ForwardReturns(e) \/ ForwardEnds(e) \/ Reply(e)
               \/ Serve(e) \/ Abandon(e) \/ ServeDone(e)
        PROVE  DInv'
    BY <1>5, LaterStep
  <1>6. CASE Shutdown \/ UNCHANGED dispatchVars
    BY <1>6, EndingStep
  <1> QED BY <1>1, <1>2, <1>3, <1>4, <1>5, <1>6 DEF DispatchNext

-----------------------------------------------------------------------------
(* Dispatch: the theorems.                                                 *)

\* The invariant holds in every state of the dispatcher.
THEOREM DispatchInvariant == DispatchSpec => []DInv
  <1>1. DispatchInit => DInv
    BY DInit
  <1>2. DInv /\ [DispatchNext]_dispatchVars => DInv'
    BY DStep
  <1> QED BY <1>1, <1>2, PTL DEF DispatchSpec

\* No envelope has two holders, and none while it is in the pool, where it is
\* once: what handle releases or hands over, on each of its paths, nobody
\* releases again.  For any number of envelopes and workers and any queue.
THEOREM EnvelopesExclusive == DispatchSpec => []EnvExclusive
  <1>1. DInv => EnvExclusive
    BY DEF DInv
  <1> QED BY <1>1, DispatchInvariant, PTL

\* Every datagram read is counted as an error, a drop or handled, but for those
\* on their way, and none is on its way when Run has returned; the errors have
\* one more only after an error of the socket, and then the loop has ended.
THEOREM DatagramsAccounted == DispatchSpec => []Accounted
  <1>1. DInv => Accounted
    <2> SUFFICES ASSUME DInv PROVE Accounted
      OBVIOUS
    <2>1. /\ rx + fatal = rxErrors + dropped + handled + Len(queue) + Cardinality(Busy)
                            + (IF loopEnv = NoEnv THEN 0 ELSE 1)
          /\ fatal <= 1 /\ (fatal = 1 => run \in {"wait", "returned"})
      BY DEF DInv, DTyped, Tally
    <2>2. ASSUME run = "returned" PROVE rx + fatal = rxErrors + dropped + handled
      <3>1. PICK w \in InboundWorkers : TRUE
        BY DispatchAssumption
      <3>2. exited = InboundWorkers /\ loopEnv = NoEnv /\ queue = <<>>
        BY <2>2, <3>1 DEF DInv, Drained
      <3>3. Busy = {}
        BY <3>2 DEF DInv, Drained, Busy
      <3>4. Cardinality(Busy) = 0 /\ Len(queue) = 0
        BY <3>2, <3>3, NoneAtAll
      <3>5. rxErrors \in Nat /\ dropped \in Nat /\ handled \in Nat
        BY DEF DInv, DTyped
      <3> QED BY <3>2, <3>4, <3>5 DEF DInv, Tally
    <2> QED BY <2>1, <2>2 DEF Accounted
  <1> QED BY <1>1, DispatchInvariant, PTL

-----------------------------------------------------------------------------
(* The gateway process: module GatewayRun, for every capacity of errCh.    *)

\* Where Run is: before its go statements, and in its shutdown.
Before == {"load", "udp", "build", "pprof", "go"}
Closing == {"shutdown", "conn", "tx", "cancel", "wait"}

\* Every variable the proof looks into has its type.
RunTyped ==
    /\ main \in Before \cup {"starting", "select"} \cup Closing \cup {"returned"}
    /\ DOMAIN svc = Services
    /\ errCh \subseteq Services

\* Nothing runs before Run comes to its go statements, nor after wg.Wait, but
\* the pprof server; and that one has no error to report.
RunQuiet ==
    /\ main \in Before \cup {"returned"} => \A g \in Waited : svc[g] = "done"
    /\ svc["pprof"] \in {"run", "done"}

\* What the shutdown has closed so far stays closed.
RunClosed ==
    /\ main \in {"load", "udp", "tx", "cancel", "wait", "returned"} => ~connOpen
    /\ main \in {"load", "udp", "build", "cancel", "wait", "returned"} => ~txOpen
    /\ main \in {"wait", "returned"} => runDone

\* The configuration that gets to the constructors went through Validate.
Durations(c) == {c.interval, c.timeout, c.deadTimeout, c.txTimeout}

RunValidated ==
    main \in {"udp", "build"} => Durations(cfg) \subseteq Int /\ Validate(cfg)

\* Until Run is in its shutdown, runCtx ends by the signal or after an error
\* that came before the select.
RunReported ==
    /\ main \in Before => errCh = {}
    /\ main \in Before \cup {"starting", "select"} =>
         /\ runErr = "none"
         /\ runDone => signal \/ early
         /\ \A g \in Waited : svc[g] = "cancel" => early
    /\ runErr # "constructor"
    /\ runErr = "nil" => early

RunInv == RunTyped /\ RunQuiet /\ RunClosed /\ RunValidated /\ RunReported

-----------------------------------------------------------------------------
\* What the validation lets through no constructor refuses.
LEMMA ValidatedIsAccepted ==
    ASSUME NEW c, Durations(c) \subseteq Int, Validate(c)
    PROVE  ConstructorsAccept(c)
  <1>1. c.interval \in Int /\ c.txTimeout \in Int
    BY DEF Durations
  <1> QED BY <1>1 DEF Validate, ConstructorsAccept, HeartbeatValid

\* The defaults keep durations integers.
LEMMA DefaultsDurations ==
    ASSUME NEW raw \in HTTP2GW
    PROVE  Durations(ApplyDefaults(raw)) \subseteq Int
  BY DEF HTTP2GW, ApplyDefaults, Durations

\* The groups of goroutines.
LEMMA RunGroups ==
    /\ Services = Waited \cup {"pprof"} /\ "pprof" \notin Waited
    /\ Failing \subseteq Waited
    /\ "nil" \notin Services /\ "constructor" \notin Services
  BY DEF Services, Waited, Failing, Loops

\* The invariant holds at the start.
LEMMA RunInit == GatewayInit => RunInv
  BY RunGroups DEF GatewayInit, RunInv, RunTyped, RunQuiet, RunClosed, RunValidated,
                   RunReported, Before, Closing

\* A return during the start leaves nothing open, and nothing was started.
LEMMA RunReturnsEarly ==
    ASSUME RunInv, NEW e \in {"invalid", "udp", "constructor", "pprof"},
           e # "constructor", main \in Before, ReturnEarly(e)
    PROVE  RunInv'
  BY RunGroups DEF ReturnEarly, RunInv, RunTyped, RunQuiet, RunClosed,
                   RunValidated, RunReported, Before, Closing

\* Every step keeps the invariant.
LEMMA RunStep == RunInv /\ [GatewayNext]_gatewayVars => RunInv'
  <1> SUFFICES ASSUME RunInv, [GatewayNext]_gatewayVars PROVE RunInv'
    OBVIOUS
  <1> USE RunGroups
  <1>u. CASE UNCHANGED gatewayVars
    BY <1>u DEF gatewayVars, closeVars, RunInv, RunTyped, RunQuiet, RunClosed,
                RunValidated, RunReported
  <1>1. CASE Signal
    BY <1>1 DEF Signal, closeVars, RunInv, RunTyped, RunQuiet, RunClosed,
                RunValidated, RunReported, Before, Closing
  <1>2. CASE Load
    <2>1. PICK raw \in HTTP2GW :
            LET c == ApplyDefaults(raw) IN
              \/ ReturnEarly("invalid")
              \/ /\ Validate(c) /\ main' = "udp" /\ cfg' = c
                 /\ UNCHANGED <<runErr, svc, errCh, signal, runDone, closeVars, early>>
      BY <1>2 DEF Load
    <2>2. CASE ReturnEarly("invalid")
      BY <1>2, <2>2, RunReturnsEarly DEF Load, Before
    <2>3. CASE ~ReturnEarly("invalid")
      BY <1>2, <2>1, <2>3, DefaultsDurations DEF Load, closeVars, RunInv,
                                                 RunTyped, RunQuiet, RunClosed,
                                                 RunValidated, RunReported, Before,
                                                 Closing
    <2> QED BY <2>2, <2>3
  <1>3. CASE ListenUDP
    <2>1. CASE ReturnEarly("udp")
      BY <1>3, <2>1, RunReturnsEarly DEF ListenUDP, Before
    <2>2. CASE ~ReturnEarly("udp")
      BY <1>3, <2>2 DEF ListenUDP, closeVars, RunInv, RunTyped, RunQuiet,
                        RunClosed, RunValidated, RunReported, Before, Closing
    <2> QED BY <2>1, <2>2
  <1>4. CASE Build
    <2>1. ConstructorsAccept(cfg)
      BY <1>4, ValidatedIsAccepted DEF Build, RunInv, RunValidated
    <2> QED
      BY <1>4, <2>1 DEF Build, closeVars, RunInv, RunTyped, RunQuiet,
                        RunClosed, RunValidated, RunReported, Before, Closing
  <1>5. CASE StartPprof
    <2>1. CASE ReturnEarly("pprof")
      BY <1>5, <2>1, RunReturnsEarly DEF StartPprof, Before
    <2>2. CASE ~ReturnEarly("pprof")
      BY <1>5, <2>2 DEF StartPprof, closeVars, RunInv, RunTyped, RunQuiet,
                        RunClosed, RunValidated, RunReported, Before, Closing
    <2> QED BY <2>1, <2>2
  <1>6. CASE Go
    BY <1>6 DEF Go, closeVars, RunInv, RunTyped, RunQuiet, RunClosed,
                RunValidated, RunReported, Before, Closing
  <1>7. CASE Listen
    BY <1>7 DEF Listen, Goto, closeVars, RunInv, RunTyped, RunQuiet,
                RunClosed, RunValidated, RunReported, Before, Closing, Waited
  <1>8. ASSUME NEW g \in Failing, Fails(g) PROVE RunInv'
    BY <1>8 DEF Fails, Goto, closeVars, RunInv, RunTyped, RunQuiet,
                RunClosed, RunValidated, RunReported, Before, Closing
  <1>9. ASSUME NEW g \in Services, PutErr(g) PROVE RunInv'
    BY <1>9 DEF PutErr, Goto, closeVars, RunInv, RunTyped, RunQuiet,
                RunClosed, RunValidated, RunReported, Before, Closing
  <1>10. ASSUME NEW g \in Services, CancelRun(g) PROVE RunInv'
    BY <1>10 DEF CancelRun, Goto, closeVars, RunInv, RunTyped, RunQuiet,
                 RunClosed, RunValidated, RunReported, Before, Closing
  <1>11. ASSUME NEW g \in Services, ServiceEnds(g) PROVE RunInv'
    BY <1>11 DEF ServiceEnds, Goto, closeVars, RunInv, RunTyped, RunQuiet,
                 RunClosed, RunValidated, RunReported, Before, Closing
  <1>12. CASE Select
    BY <1>12 DEF Select, CtxErr, closeVars, RunInv, RunTyped, RunQuiet,
                 RunClosed, RunValidated, RunReported, Before, Closing
  <1>13. CASE Woken
    BY <1>13 DEF Woken, CtxErr, closeVars, RunInv, RunTyped, RunQuiet,
                 RunClosed, RunValidated, RunReported, Before, Closing
  <1>14. CASE ShutdownHTTP \/ CloseConn \/ CloseTx \/ Cancel
    BY <1>14 DEF ShutdownHTTP, CloseConn, CloseTx, Cancel,
                 closeVars, RunInv, RunTyped, RunQuiet, RunClosed, RunValidated,
                 RunReported, Before, Closing
  <1>15. CASE Wait
    BY <1>15 DEF Wait, closeVars, RunInv, RunTyped, RunQuiet, RunClosed,
                 RunValidated, RunReported, Before, Closing
  <1> QED
    BY <1>u, <1>1, <1>2, <1>3, <1>4, <1>5, <1>6, <1>7, <1>8, <1>9, <1>10, <1>11,
       <1>12, <1>13, <1>14, <1>15
       DEF GatewayNext, StartStep, RunMainStep, ServiceStep

\* When Run returns nothing of the gateway is left, no constructor refused a
\* configuration that Validate accepted, and an error is only lost when it
\* came before the select: for every capacity of errCh, every configuration
\* and every order of signals, failures and goroutines.
THEOREM ReturnIsClean == GatewaySpec => []CleanReturn
  <1>1. RunInv => CleanReturn
    BY DEF RunInv, RunQuiet, RunClosed, RunReported, CleanReturn
  <1> QED BY RunInit, RunStep, <1>1, PTL DEF GatewaySpec
=============================================================================
