----------------------------- MODULE Membership -----------------------------
(***************************************************************************)
(* How the gateway learns which Logic nodes are alive: REGISTER and        *)
(* HEARTBEAT datagrams (internal/logicnode), the dispatch workers that     *)
(* apply them to the registry (internal/dispatch, registration, heartbeat, *)
(* registry), and the monitor that marks silent nodes SUSPECT and DEAD.    *)
(*                                                                         *)
(* The network loses, delays, reorders and duplicates.  A Logic process    *)
(* may crash and come back, at the address it is configured with, where it *)
(* gets what was sent to its predecessor; the gateway may crash and come   *)
(* back with an empty registry.                                            *)
(*                                                                         *)
(* Instants are kept as ages (time since), so a run has no horizon.  A     *)
(* handler reads the clock before it takes the registry's lock: the age of *)
(* that reading, wage or monAge, grows while it waits, by at most MaxDelay.*)
(*                                                                         *)
(* Not here: addresses and services, which Register stores and module      *)
(* Router reads; the gateway's own entry in the registry, which neither the    *)
(* monitor nor the router looks at; Load and ActiveTransaction, which      *)
(* SetRuntime stores and no decision reads; the answers to a heartbeat     *)
(* (HEARTBEAT_RESPONSE, ERROR) and the gateway's own heartbeats, which     *)
(* change no state at the side that gets them.                             *)
(***************************************************************************)
EXTENDS Naturals, FiniteSets

CONSTANTS Logics,          \* node ids
          Workers,         \* the dispatcher's inbound workers
          SuspectTimeout,
          DeadTimeout,
          MaxDelay,        \* bound: ticks between a clock reading and the lock
          MaxRestarts,     \* bound: restarts of the gateway
          MaxStarts        \* bound: starts of each Logic process

\* heartbeat.Config.Validate: 0 < suspect < dead.
ASSUME TimeoutAssumption ==
    /\ SuspectTimeout \in Nat \ {0} /\ DeadTimeout \in Nat
    /\ SuspectTimeout < DeadTimeout
ASSUME DelayAssumption == MaxDelay \in Nat
ASSUME MembersAssumption == MaxRestarts \in Nat /\ MaxStarts \in Nat

\* An age beyond which nothing changes.
MaxAge == DeadTimeout + MaxDelay
Ages == 0..MaxAge

Older(a) == IF a < MaxAge THEN a + 1 ELSE a

NodeStates == {"ABSENT", "REGISTERED", "ACTIVE", "SUSPECT", "DEAD"}

RegisterRequests == [type : {"REGISTER_REQUEST"}, node : Logics]
RegisterResponses == [type : {"REGISTER_RESPONSE"}, node : Logics]
HeartbeatRequests == [type : {"HEARTBEAT_REQUEST"}, node : Logics]
Requests == RegisterRequests \cup HeartbeatRequests
Messages == Requests \cup RegisterResponses

Register(n) == [type |-> "REGISTER_REQUEST", node |-> n]
Accepted(n) == [type |-> "REGISTER_RESPONSE", node |-> n]
Heartbeat(n) == [type |-> "HEARTBEAT_REQUEST", node |-> n]

NoMsg == [type |-> "NONE"]

VARIABLES
    state,     \* nodes[n].State, "ABSENT" when the map has no n
    last,      \* age of nodes[n].LastHeartbeatAt
    wmsg,      \* the request each worker handles, NoMsg when idle
    wage,      \* age of the worker's clock reading
    mon,       \* the monitor is inside Check
    monAge,    \* age of Check's clock reading
    net,       \* datagrams in flight
    proc,      \* each Logic process: down, registering, running
    starts,    \* times it was started
    restarts,  \* times the gateway was restarted
    heard      \* history: age of the latest instant read for n by a
               \* handler that went on to record it

registryVars == <<state, last, heard>>
handlerVars == <<wmsg, wage, mon, monAge>>
logicVars == <<proc, starts>>
vars == <<registryVars, handlerVars, net, logicVars, restarts>>

Init ==
    /\ state = [n \in Logics |-> "ABSENT"]
    /\ last = [n \in Logics |-> 0]
    /\ heard = [n \in Logics |-> 0]
    /\ wmsg = [w \in Workers |-> NoMsg]
    /\ wage = [w \in Workers |-> 0]
    /\ mon = FALSE
    /\ monAge = 0
    /\ net = {}
    /\ proc = [n \in Logics |-> "down"]
    /\ starts = [n \in Logics |-> 0]
    /\ restarts = 0

-----------------------------------------------------------------------------
(* The Logic process.                                                      *)

\* Run opens its socket; registerUntilAccepted sends the first REGISTER.
Start(n) ==
    /\ proc[n] = "down"
    /\ starts[n] < MaxStarts
    /\ starts' = [starts EXCEPT ![n] = @ + 1]
    /\ proc' = [proc EXCEPT ![n] = "registering"]
    /\ net' = net \cup {Register(n)}
    /\ UNCHANGED <<registryVars, handlerVars, restarts>>

\* A slip: the timer fires and nothing is sent.
ResendNothing(n) ==
    /\ proc[n] = "registering"
    /\ UNCHANGED vars

\* registerUntilAccepted: the timer fires and REGISTER is sent again.
Resend(n) ==
    /\ proc[n] = "registering"
    /\ net' = net \cup {Register(n)}
    /\ UNCHANGED <<registryVars, handlerVars, logicVars, restarts>>

\* What a delivery may leave of the network: the datagram or a copy of it.
Taken(m) == {net \ {m}, net}

\* handleIncoming: a registering process goes on to its heartbeat loop,
\* which sends at once; nobody reads regCh afterwards.
OnRegisterResponse(n, m) ==
    /\ m \in net \cap RegisterResponses
    /\ m.node = n /\ proc[n] # "down"
    /\ \E left \in Taken(m) :
         IF proc[n] = "registering"
         THEN /\ proc' = [proc EXCEPT ![n] = "running"]
              /\ net' = left \cup {Heartbeat(n)}
         ELSE net' = left /\ UNCHANGED proc
    /\ UNCHANGED <<registryVars, handlerVars, starts, restarts>>

\* heartbeatLoop: a tick.
SendHeartbeat(n) ==
    /\ proc[n] = "running"
    /\ net' = net \cup {Heartbeat(n)}
    /\ UNCHANGED <<registryVars, handlerVars, logicVars, restarts>>

\* The process ends, by a crash or by a signal: it does not deregister.
Crash(n) ==
    /\ proc[n] # "down"
    /\ proc' = [proc EXCEPT ![n] = "down"]
    /\ UNCHANGED <<registryVars, handlerVars, net, starts, restarts>>

-----------------------------------------------------------------------------
(* The gateway's dispatch workers.                                         *)

\* A slip: the answer to a REGISTER goes out before the node is stored.
ReceiveAnswersFirst(w, m) ==
    /\ wmsg[w] = NoMsg
    /\ m \in net \cap Requests
    /\ wmsg' = [wmsg EXCEPT ![w] = m]
    /\ wage' = [wage EXCEPT ![w] = 0]
    /\ net' = IF m \in RegisterRequests
              THEN net \cup {Accepted(m.node)} ELSE net \ {m}
    /\ UNCHANGED <<registryVars, mon, monAge, logicVars, restarts>>

\* A worker takes a request off the queue and reads the clock.
Receive(w, m) ==
    /\ wmsg[w] = NoMsg
    /\ m \in net \cap Requests
    /\ wmsg' = [wmsg EXCEPT ![w] = m]
    /\ wage' = [wage EXCEPT ![w] = 0]
    /\ net' \in Taken(m)
    /\ UNCHANGED <<registryVars, mon, monAge, logicVars, restarts>>

Idle(w) ==
    /\ wmsg' = [wmsg EXCEPT ![w] = NoMsg]
    /\ wage' = [wage EXCEPT ![w] = 0]

\* The instant a handler recorded for n.
Record(n, age) ==
    /\ last' = [last EXCEPT ![n] = age]
    /\ heard' = [heard EXCEPT ![n] =
                   IF state[n] # "ABSENT" /\ heard[n] < age THEN heard[n] ELSE age]

\* Memory.Register under its lock, then the answer to the sender.
RegisterCommit(w) ==
    /\ wmsg[w] \in RegisterRequests
    /\ LET n == wmsg[w].node IN
         /\ state' = [state EXCEPT ![n] = "REGISTERED"]
         /\ Record(n, wage[w])
         /\ net' = net \cup {Accepted(n)}
    /\ Idle(w)
    /\ UNCHANGED <<mon, monAge, logicVars, restarts>>

\* A slip: a heartbeat revives a DEAD node.
HeartbeatRefusedRevives(s) == s = "ABSENT"

\* NextOnHeartbeat errs for a DEAD node and for one not in the map.
HeartbeatRefused(s) == s \in {"ABSENT", "DEAD"}

\* A slip: the state moves, LastHeartbeatAt stays.
ApplyHeartbeatNoTime(w) ==
    /\ wmsg[w] \in HeartbeatRequests
    /\ LET n == wmsg[w].node IN
         IF HeartbeatRefused(state[n])
         THEN UNCHANGED registryVars
         ELSE /\ state' = [state EXCEPT ![n] = "ACTIVE"]
              /\ heard' = [heard EXCEPT ![n] = 0]
              /\ UNCHANGED last
    /\ Idle(w)
    /\ UNCHANGED <<mon, monAge, net, logicVars, restarts>>

\* Memory.ApplyHeartbeat under its lock.
ApplyHeartbeat(w) ==
    /\ wmsg[w] \in HeartbeatRequests
    /\ LET n == wmsg[w].node IN
         IF HeartbeatRefused(state[n])
         THEN UNCHANGED registryVars
         ELSE /\ state' = [state EXCEPT ![n] = "ACTIVE"]
              /\ Record(n, wage[w])
    /\ Idle(w)
    /\ UNCHANGED <<mon, monAge, net, logicVars, restarts>>

-----------------------------------------------------------------------------
(* The monitor, the gateway's restarts, time and the network.              *)

\* Check reads the clock.
MonitorRead ==
    /\ ~mon
    /\ mon' = TRUE
    /\ monAge' = 0
    /\ UNCHANGED <<registryVars, wmsg, wage, net, logicVars, restarts>>

\* now.Sub(last), a negative one taken as 0.
Elapsed(n) == IF last[n] > monAge THEN last[n] - monAge ELSE 0

\* A slip: SUSPECT is the end of the line.
NextOnTimeoutNeverDead(s, elapsed) ==
    IF s \notin {"ABSENT", "DEAD"} /\ elapsed >= SuspectTimeout THEN "SUSPECT" ELSE s

NextOnTimeout(s, elapsed) ==
    CASE s \in {"ABSENT", "DEAD"}    -> s
      [] s \notin {"ABSENT", "DEAD"} ->
           CASE elapsed >= DeadTimeout -> "DEAD"
             [] elapsed >= SuspectTimeout /\ elapsed < DeadTimeout -> "SUSPECT"
             [] elapsed < SuspectTimeout -> s

\* ApplyTimeouts: every node under one lock.
MonitorApply ==
    /\ mon
    /\ state' = [n \in Logics |-> NextOnTimeout(state[n], Elapsed(n))]
    /\ mon' = FALSE
    /\ monAge' = 0
    /\ UNCHANGED <<last, heard, wmsg, wage, net, logicVars, restarts>>

\* The gateway crashes and comes back: its memory is empty.
GatewayRestart ==
    /\ restarts < MaxRestarts
    /\ restarts' = restarts + 1
    /\ state' = [n \in Logics |-> "ABSENT"]
    /\ last' = [n \in Logics |-> 0]
    /\ heard' = [n \in Logics |-> 0]
    /\ wmsg' = [w \in Workers |-> NoMsg]
    /\ wage' = [w \in Workers |-> 0]
    /\ mon' = FALSE
    /\ monAge' = 0
    /\ UNCHANGED <<net, logicVars>>

\* Every age grows; one held by a handler for at most MaxDelay.
Tick ==
    /\ \A w \in Workers : wmsg[w] # NoMsg => wage[w] < MaxDelay
    /\ mon => monAge < MaxDelay
    /\ last' = [n \in Logics |-> IF state[n] = "ABSENT" THEN 0 ELSE Older(last[n])]
    /\ heard' = [n \in Logics |-> IF state[n] = "ABSENT" THEN 0 ELSE Older(heard[n])]
    /\ wage' = [w \in Workers |-> IF wmsg[w] = NoMsg THEN 0 ELSE wage[w] + 1]
    /\ monAge' = IF mon THEN monAge + 1 ELSE 0
    /\ UNCHANGED <<state, wmsg, mon, net, logicVars, restarts>>

\* The network, a full socket buffer or a full inbound queue drops m.
Lose(m) ==
    /\ m \in net
    /\ net' = net \ {m}
    /\ UNCHANGED <<registryVars, handlerVars, logicVars, restarts>>

-----------------------------------------------------------------------------
LogicNext ==
    \E n \in Logics :
        \/ Start(n) \/ Resend(n) \/ SendHeartbeat(n) \/ Crash(n)
        \/ \E m \in RegisterResponses : OnRegisterResponse(n, m)

WorkerNext ==
    \E w \in Workers :
        \/ \E m \in Requests : Receive(w, m)
        \/ RegisterCommit(w) \/ ApplyHeartbeat(w)

Next ==
    \/ LogicNext
    \/ WorkerNext
    \/ MonitorRead \/ MonitorApply \/ GatewayRestart \/ Tick
    \/ \E m \in Messages : Lose(m)

Spec == Init /\ [][Next]_vars

\* The gateway's goroutines run, tickers fire, time passes; a datagram sent
\* again and again arrives again and again, and none stays in flight forever.
Fairness ==
    /\ WF_vars(Tick) /\ WF_vars(MonitorRead) /\ WF_vars(MonitorApply)
    /\ \A w \in Workers : WF_vars(RegisterCommit(w)) /\ WF_vars(ApplyHeartbeat(w))
    /\ \A m \in Requests : SF_vars(\E w \in Workers : Receive(w, m))
    /\ \A n \in Logics :
         /\ WF_vars(Resend(n))
         /\ WF_vars(SendHeartbeat(n))
         /\ \A m \in RegisterResponses : SF_vars(OnRegisterResponse(n, m))
    /\ \A m \in Messages : WF_vars(Lose(m))

FairSpec == Spec /\ Fairness

-----------------------------------------------------------------------------
(* Properties.                                                             *)

\* Every variable has its type.
TypeOK ==
    /\ state \in [Logics -> NodeStates]
    /\ last \in [Logics -> Ages] /\ heard \in [Logics -> Ages]
    /\ wmsg \in [Workers -> Requests \cup {NoMsg}]
    /\ wage \in [Workers -> 0..MaxDelay]
    /\ mon \in BOOLEAN /\ monAge \in 0..MaxDelay
    /\ net \subseteq Messages
    /\ proc \in [Logics -> {"down", "registering", "running"}]
    /\ starts \in [Logics -> 0..MaxStarts] /\ restarts \in 0..MaxRestarts

\* The monitor gives up a node only when nothing recorded for it was read
\* within DeadTimeout, less the time a handler may sit on its reading:
\* handlers that overtake one another and a Check that reads the clock
\* early do not make it kill a node that is heard.
NoEarlyDeath ==
    [][\A n \in Logics :
         state[n] # "DEAD" /\ state'[n] = "DEAD" =>
             heard[n] + MaxDelay >= DeadTimeout]_vars

\* A Logic process that left registerUntilAccepted is in the registry of a
\* gateway that has not restarted, whatever the network did to the
\* datagrams: the answer is sent after the node is stored.
RunningIsKnown ==
    \A n \in Logics : proc[n] = "running" /\ restarts = 0 => state[n] # "ABSENT"

Life == INSTANCE NodeLifecycle WITH Nodes <- Logics

\* Every node goes through the states NodeLifecycle allows, and leaves DEAD
\* only by registering, however handlers and monitor interleave.
Lifecycle == Life!Spec

\* A process that is gone for good is in the end DEAD, or unknown.
CrashDetected ==
    \A n \in Logics :
        <>[](proc[n] = "down") => <>[](state[n] \in {"ABSENT", "DEAD"})

\* A process does not retry REGISTER forever.
RegisterConverges ==
    \A n \in Logics : proc[n] = "registering" ~> proc[n] # "registering"

\* A running Logic the gateway has given up registers again: heartbeat's
\* ErrDeadNode says it has to.
DeadRejoins ==
    \A n \in Logics :
        (proc[n] = "running" /\ state[n] = "DEAD")
          ~> (proc[n] # "running" \/ state[n] = "REGISTERED")
=============================================================================
