-------------------------- MODULE MembershipProofs --------------------------
(***************************************************************************)
(* Proofs about Membership: its types, that a running Logic is known, that *)
(* the monitor does not kill a node that is heard, and that the registry   *)
(* implements NodeLifecycle; for any number of nodes and workers and any   *)
(* timeouts.                                                               *)
(***************************************************************************)
EXTENDS Membership, TLAPS

-----------------------------------------------------------------------------
(* The inductive invariant, in named parts.                                *)

\* As long as the gateway has not restarted: a node that was told it is
\* accepted, or is about to be told, is in the registry.
Acknowledged ==
    restarts = 0 =>
        \A n \in Logics :
            proc[n] = "running" \/ Accepted(n) \in net => state[n] # "ABSENT"

\* The instant a node was last stored with is no older than the latest one
\* recorded for it by more than a handler may sit on its reading.
Fresh == \A n \in Logics : heard[n] <= last[n] /\ last[n] <= heard[n] + MaxDelay

IInv == TypeOK /\ Acknowledged /\ Fresh

-----------------------------------------------------------------------------
(* Lemmas about the operators.                                             *)

\* The three messages differ.
LEMMA MessageTypes ==
    ASSUME NEW n \in Logics
    PROVE  /\ Register(n) \in RegisterRequests /\ Heartbeat(n) \in HeartbeatRequests
           /\ Accepted(n) \in RegisterResponses
           /\ \A m \in Logics : Accepted(m) # Register(n) /\ Accepted(m) # Heartbeat(n)
           /\ \A m \in Logics : Accepted(m) = Accepted(n) => m = n
  BY DEF Register, Heartbeat, Accepted, RegisterRequests, HeartbeatRequests,
         RegisterResponses

\* A handler's message names a node.
LEMMA RequestNode ==
    /\ \A m \in Requests : m.node \in Logics /\ m # NoMsg
    /\ NoMsg \notin RegisterRequests /\ NoMsg \notin HeartbeatRequests
    /\ \A m \in RegisterResponses : m = Accepted(m.node) /\ m.node \in Logics
  BY DEF Requests, RegisterRequests, HeartbeatRequests, NoMsg, RegisterResponses, Accepted

\* What the monitor makes of a node's state.
LEMMA NextOnTimeoutIs ==
    ASSUME NEW s \in NodeStates, NEW e \in Nat
    PROVE  /\ NextOnTimeout(s, e) \in NodeStates
           /\ s \in {"ABSENT", "DEAD"} => NextOnTimeout(s, e) = s
           /\ s \notin {"ABSENT", "DEAD"} =>
                NextOnTimeout(s, e) = IF e >= DeadTimeout THEN "DEAD"
                                      ELSE IF e >= SuspectTimeout THEN "SUSPECT" ELSE s
  BY TimeoutAssumption DEF NextOnTimeout, NodeStates

\* The ages.
LEMMA AgeTypes ==
    /\ MaxAge \in Nat /\ DeadTimeout <= MaxAge /\ MaxDelay <= MaxAge
    /\ \A a \in Ages : Older(a) \in Ages /\ Older(a) \in {a, a + 1}
    /\ \A a, b \in Ages : a <= b => Older(a) <= Older(b)
    /\ \A a, b \in Ages : b <= a + MaxDelay => Older(b) <= Older(a) + MaxDelay
    /\ 0 \in Ages /\ 0..MaxDelay \subseteq Ages
  BY TimeoutAssumption, DelayAssumption DEF MaxAge, Ages, Older

\* A handler that read the clock within MaxDelay records it.
LEMMA RecordKeeps ==
    ASSUME TypeOK, Fresh, NEW n \in Logics, NEW age \in 0..MaxDelay, Record(n, age)
    PROVE  /\ last' \in [Logics -> Ages] /\ heard' \in [Logics -> Ages]
           /\ Fresh'
  <1>1. age \in Ages /\ age \in Nat /\ age <= MaxDelay /\ MaxDelay \in Nat
    BY AgeTypes, DelayAssumption
  <1>2. heard[n] \in Ages
    BY DEF TypeOK
  <1>3. heard[n] \in Nat
    BY <1>2, AgeTypes DEF Ages
  <1>4. last' \in [Logics -> Ages] /\ heard' \in [Logics -> Ages]
    BY <1>1, <1>2 DEF Record, TypeOK
  <1>5. last'[n] = age /\ heard'[n] \in {age, heard[n]} /\ heard'[n] <= age
    <2>1. last'[n] = age
      BY DEF Record, TypeOK
    <2>2. heard'[n] = IF state[n] # "ABSENT" /\ heard[n] < age THEN heard[n] ELSE age
      BY DEF Record, TypeOK
    <2> QED BY <1>1, <1>3, <2>1, <2>2
  <1>6. ASSUME NEW k \in Logics, k # n PROVE last'[k] = last[k] /\ heard'[k] = heard[k]
    BY <1>6 DEF Record, TypeOK
  <1>7. ASSUME NEW k \in Logics PROVE heard'[k] <= last'[k] /\ last'[k] <= heard'[k] + MaxDelay
    <2>1. CASE k = n
      <3>1. heard'[n] \in Nat
        BY <1>1, <1>3, <1>5
      <3> QED BY <2>1, <3>1, <1>1, <1>5
    <2>2. CASE k # n
      BY <2>2, <1>6 DEF Fresh
    <2> QED BY <2>1, <2>2
  <1> QED BY <1>4, <1>7 DEF Fresh

-----------------------------------------------------------------------------
\* The invariant holds at the start.
LEMMA InitIInv == Init => IInv
  <1> SUFFICES ASSUME Init PROVE IInv
    OBVIOUS
  <1>1. TypeOK
    <2>1. /\ state \in [Logics -> NodeStates]
          /\ proc \in [Logics -> {"down", "registering", "running"}]
          /\ wmsg \in [Workers -> Requests \cup {NoMsg}]
          /\ mon \in BOOLEAN /\ net \subseteq Messages
      BY DEF Init, NodeStates
    <2>2. /\ last \in [Logics -> Ages] /\ heard \in [Logics -> Ages]
          /\ wage \in [Workers -> 0..MaxDelay] /\ monAge \in 0..MaxDelay
          /\ starts \in [Logics -> 0..MaxStarts] /\ restarts \in 0..MaxRestarts
      BY AgeTypes, DelayAssumption, MembersAssumption DEF Init
    <2> QED BY <2>1, <2>2 DEF TypeOK
  <1> QED BY <1>1, DelayAssumption DEF Init, IInv, Acknowledged, Fresh

\* A step of a Logic process or of the network changes nothing at the gateway.
LEMMA OutsideStep ==
    ASSUME IInv, UNCHANGED <<registryVars, handlerVars, restarts>>,
           net' \subseteq Messages,
           \A n \in Logics : Accepted(n) \in net' => Accepted(n) \in net,
           proc' \in [Logics -> {"down", "registering", "running"}],
           \A n \in Logics : proc'[n] = "running" => proc[n] = "running" \/ Accepted(n) \in net,
           starts' \in [Logics -> 0..MaxStarts]
    PROVE  IInv'
  BY DEF IInv, TypeOK, Acknowledged, Fresh, registryVars, handlerVars

\* Every step keeps the invariant.
LEMMA StepIInv == IInv /\ [Next]_vars => IInv'
  <1> SUFFICES ASSUME IInv, [Next]_vars PROVE IInv'
    OBVIOUS
  <1>t. TypeOK /\ Acknowledged /\ Fresh
    BY DEF IInv
  <1>m. Requests \subseteq Messages /\ RegisterResponses \subseteq Messages
    BY DEF Messages
  <1>u. CASE UNCHANGED vars
    BY <1>u DEF vars, registryVars, handlerVars, logicVars, IInv, TypeOK, Acknowledged, Fresh
  <1>1. ASSUME NEW n \in Logics, Start(n) PROVE IInv'
    <2>1. net' \subseteq Messages /\ starts' \in [Logics -> 0..MaxStarts]
      BY <1>1, <1>t, <1>m, MessageTypes, MembersAssumption DEF Start, TypeOK, Requests
    <2> QED
      BY <1>1, <1>t, <2>1, MessageTypes, OutsideStep DEF Start, TypeOK
  <1>2. ASSUME NEW n \in Logics, Resend(n) \/ SendHeartbeat(n) PROVE IInv'
    <2>1. net' \subseteq Messages
      BY <1>2, <1>t, <1>m, MessageTypes DEF Resend, SendHeartbeat, TypeOK, Requests
    <2> QED
      BY <1>2, <1>t, <2>1, MessageTypes, OutsideStep
         DEF Resend, SendHeartbeat, TypeOK, logicVars
  <1>3. ASSUME NEW n \in Logics, Crash(n) PROVE IInv'
    BY <1>3, <1>t, OutsideStep DEF Crash, TypeOK
  <1>4. ASSUME NEW n \in Logics, NEW m \in RegisterResponses, OnRegisterResponse(n, m)
        PROVE  IInv'
    <2>1. net' \subseteq Messages
      BY <1>4, <1>t, <1>m, MessageTypes DEF OnRegisterResponse, Taken, TypeOK, Requests
    <2>2. \A k \in Logics : Accepted(k) \in net' => Accepted(k) \in net
      BY <1>4, MessageTypes DEF OnRegisterResponse, Taken
    <2>3. Accepted(n) \in net
      BY <1>4, RequestNode DEF OnRegisterResponse
    <2> QED
      BY <1>4, <1>t, <2>1, <2>2, <2>3, OutsideStep DEF OnRegisterResponse, TypeOK
  <1>5. ASSUME NEW m \in Messages, Lose(m) PROVE IInv'
    BY <1>5, <1>t, OutsideStep DEF Lose, TypeOK, logicVars
  <1>6. ASSUME NEW w \in Workers, NEW m \in Requests, Receive(w, m) PROVE IInv'
    BY <1>6, <1>t, DelayAssumption
       DEF Receive, Taken, IInv, TypeOK, Acknowledged, Fresh, registryVars, logicVars
  <1>7. ASSUME NEW w \in Workers, RegisterCommit(w) PROVE IInv'
    <2> DEFINE n == wmsg[w].node
    <2>1. n \in Logics /\ wage[w] \in 0..MaxDelay
      BY <1>7, <1>t, RequestNode DEF RegisterCommit, TypeOK, Requests
    <2>2. /\ state' = [state EXCEPT ![n] = "REGISTERED"]
          /\ Record(n, wage[w])
          /\ net' = net \cup {Accepted(n)}
      BY <1>7 DEF RegisterCommit
    <2>3. Fresh' /\ last' \in [Logics -> Ages] /\ heard' \in [Logics -> Ages]
      BY <1>t, <2>1, <2>2, RecordKeeps
    <2> HIDE DEF n
    <2>4. TypeOK'
      <3>1. net' \subseteq Messages
        BY <1>t, <1>m, <2>1, <2>2, MessageTypes DEF TypeOK
      <3>2. wmsg' \in [Workers -> Requests \cup {NoMsg}] /\ wage' \in [Workers -> 0..MaxDelay]
        BY <1>7, <1>t, DelayAssumption DEF RegisterCommit, Idle, TypeOK
      <3>3. state' \in [Logics -> NodeStates]
        BY <1>t, <2>1, <2>2 DEF TypeOK, NodeStates
      <3> QED
        BY <1>7, <1>t, <2>3, <3>1, <3>2, <3>3 DEF RegisterCommit, TypeOK, logicVars
    <2>5. Acknowledged'
      BY <1>7, <1>t, <2>1, <2>2, MessageTypes
         DEF RegisterCommit, TypeOK, Acknowledged, logicVars
    <2> QED BY <2>3, <2>4, <2>5 DEF IInv
  <1>8. ASSUME NEW w \in Workers, ApplyHeartbeat(w) PROVE IInv'
    <2> DEFINE n == wmsg[w].node
    <2>1. n \in Logics /\ wage[w] \in 0..MaxDelay
      BY <1>8, <1>t, RequestNode DEF ApplyHeartbeat, TypeOK, Requests
    <2>2. \/ UNCHANGED registryVars
          \/ state' = [state EXCEPT ![n] = "ACTIVE"] /\ Record(n, wage[w])
      BY <1>8 DEF ApplyHeartbeat
    <2>3. Fresh' /\ last' \in [Logics -> Ages] /\ heard' \in [Logics -> Ages]
      BY <1>t, <2>1, <2>2, RecordKeeps DEF registryVars, Fresh, TypeOK
    <2> HIDE DEF n
    <2>4. TypeOK'
      BY <1>8, <1>t, <2>1, <2>2, <2>3, DelayAssumption
         DEF ApplyHeartbeat, Idle, TypeOK, registryVars, logicVars, NodeStates
    <2>5. Acknowledged'
      BY <1>8, <1>t, <2>1, <2>2
         DEF ApplyHeartbeat, TypeOK, Acknowledged, registryVars, logicVars
    <2> QED BY <2>3, <2>4, <2>5 DEF IInv
  <1>9. CASE MonitorRead
    BY <1>9, <1>t, DelayAssumption
       DEF MonitorRead, IInv, TypeOK, Acknowledged, Fresh, registryVars, logicVars
  <1>10. CASE MonitorApply
    <2>1. \A n \in Logics : Elapsed(n) \in Nat
      BY <1>t, AgeTypes DEF Elapsed, TypeOK, Ages
    <2>2. /\ state' \in [Logics -> NodeStates]
          /\ \A n \in Logics : state[n] # "ABSENT" => state'[n] # "ABSENT"
      BY <1>10, <1>t, <2>1, NextOnTimeoutIs DEF MonitorApply, TypeOK
    <2>3. TypeOK'
      <3>0. mon' \in BOOLEAN /\ monAge' = 0
        BY <1>10, Zenon DEF MonitorApply
      <3>1. monAge' \in 0..MaxDelay
        BY <3>0, DelayAssumption
      <3> QED BY <1>10, <1>t, <2>2, <3>0, <3>1 DEF MonitorApply, TypeOK, logicVars
    <2>4. Acknowledged' /\ Fresh'
      BY <1>10, <1>t, <2>2 DEF MonitorApply, Acknowledged, Fresh, logicVars
    <2> QED BY <2>3, <2>4 DEF IInv
  <1>11. CASE GatewayRestart
    <2>1. /\ state' \in [Logics -> NodeStates]
          /\ wmsg' \in [Workers -> Requests \cup {NoMsg}]
          /\ mon' \in BOOLEAN
      BY <1>11 DEF GatewayRestart, NodeStates
    <2>2. /\ last' \in [Logics -> Ages] /\ heard' \in [Logics -> Ages]
          /\ wage' \in [Workers -> 0..MaxDelay] /\ monAge' \in 0..MaxDelay
          /\ restarts' \in 0..MaxRestarts /\ restarts' # 0
      BY <1>11, <1>t, AgeTypes, DelayAssumption, MembersAssumption DEF GatewayRestart, TypeOK
    <2>3. TypeOK' /\ Acknowledged'
      BY <1>11, <1>t, <2>1, <2>2 DEF GatewayRestart, TypeOK, Acknowledged, logicVars
    <2>4. Fresh'
      BY <1>11, DelayAssumption DEF GatewayRestart, Fresh
    <2> QED BY <2>3, <2>4 DEF IInv
  <1>12. CASE Tick
    <2>1. /\ last' \in [Logics -> Ages] /\ heard' \in [Logics -> Ages]
          /\ Fresh'
      BY <1>12, <1>t, AgeTypes, DelayAssumption DEF Tick, TypeOK, Fresh
    <2>2. wage' \in [Workers -> 0..MaxDelay] /\ monAge' \in 0..MaxDelay
      BY <1>12, <1>t, DelayAssumption DEF Tick, TypeOK
    <2> QED
      BY <1>12, <1>t, <2>1, <2>2 DEF Tick, IInv, TypeOK, Acknowledged, logicVars
  <1> QED
    BY <1>u, <1>1, <1>2, <1>3, <1>4, <1>5, <1>6, <1>7, <1>8, <1>9, <1>10, <1>11, <1>12
       DEF Next, LogicNext, WorkerNext

\* The inductive invariant holds for every number of nodes and workers.
THEOREM InvariantHolds == Spec => []IInv
  BY InitIInv, StepIInv, PTL DEF Spec

\* Every variable has its type: no age leaves its range, however long a
\* handler sits on its clock reading within MaxDelay.
THEOREM TypeCorrect == Spec => []TypeOK
  <1>1. IInv => TypeOK
    BY DEF IInv
  <1> QED BY InvariantHolds, <1>1, PTL

\* A Logic that goes to its heartbeat loop is in the registry of a gateway that
\* has not restarted, whatever the network loses, repeats or reorders.
THEOREM KnownWhenRunning == Spec => []RunningIsKnown
  <1>1. IInv => RunningIsKnown
    BY DEF IInv, Acknowledged, RunningIsKnown
  <1> QED BY InvariantHolds, <1>1, PTL

\* The monitor marks a node DEAD only after a silence of DeadTimeout, less
\* what a handler may sit on its reading.
THEOREM DeathIsDeserved == Spec => NoEarlyDeath
  <1> DEFINE Deserved == \A n \in Logics :
               state[n] # "DEAD" /\ state'[n] = "DEAD" =>
                   heard[n] + MaxDelay >= DeadTimeout
  <1>1. ASSUME IInv, [Next]_vars PROVE [Deserved]_vars
    <2> SUFFICES ASSUME Next, NEW n \in Logics, state[n] # "DEAD", state'[n] = "DEAD"
                 PROVE  heard[n] + MaxDelay >= DeadTimeout
      BY <1>1
    <2>t. TypeOK /\ Fresh
      BY <1>1 DEF IInv
    <2>1. CASE LogicNext \/ MonitorRead \/ GatewayRestart \/ Tick \/ \E m \in Messages : Lose(m)
      BY <2>1 DEF LogicNext, Start, Resend, SendHeartbeat, Crash, OnRegisterResponse,
                  MonitorRead, GatewayRestart, Tick, Lose, registryVars
    <2>2. CASE WorkerNext
      BY <2>2, <2>t DEF WorkerNext, Receive, RegisterCommit, ApplyHeartbeat, registryVars, TypeOK
    <2>3. CASE MonitorApply
      <3>1. Elapsed(n) \in Nat /\ last[n] \in Nat /\ heard[n] \in Nat /\ monAge \in Nat
        BY <2>t, AgeTypes, DelayAssumption DEF Elapsed, TypeOK, Ages
      <3>2. Elapsed(n) >= DeadTimeout
        BY <2>3, <2>t, <3>1, NextOnTimeoutIs DEF MonitorApply, TypeOK
      <3>3. last[n] >= DeadTimeout
        BY <3>1, <3>2, TimeoutAssumption DEF Elapsed
      <3>4. last[n] <= heard[n] + MaxDelay
        BY <2>t DEF Fresh
      <3> QED BY <3>1, <3>3, <3>4, TimeoutAssumption, DelayAssumption
    <2> QED BY <2>1, <2>2, <2>3 DEF Next
  <1> QED
    BY InvariantHolds, <1>1, PTL DEF Spec, NoEarlyDeath

\* The registry implements NodeLifecycle: a step maps to a move or to a restart.
THEOREM RegistryImplementsLifecycle == Spec => Lifecycle
  <1>1. Init => Life!Init
    BY DEF Init, Life!Init
  <1>2. ASSUME IInv, [Next]_vars PROVE [Life!Next]_state
    <2> SUFFICES ASSUME Next, state' # state PROVE Life!Next
      BY <1>2 DEF vars, registryVars
    <2>t. TypeOK /\ TypeOK'
      BY <1>2, StepIInv DEF IInv
    <2>s. state \in [Logics -> Life!NodeStates] /\ state' \in [Logics -> Life!NodeStates]
      BY <2>t DEF TypeOK, NodeStates, Life!NodeStates
    <2>1. CASE LogicNext \/ MonitorRead \/ Tick \/ \E m \in Messages : Lose(m)
      BY <2>1 DEF LogicNext, Start, Resend, SendHeartbeat, Crash, OnRegisterResponse,
                  MonitorRead, Tick, Lose, registryVars
    <2>2. ASSUME NEW w \in Workers, NEW m \in Requests, Receive(w, m) PROVE Life!Next
      BY <2>2 DEF Receive, registryVars
    <2>3. ASSUME NEW w \in Workers, RegisterCommit(w) PROVE Life!Next
      BY <2>3, <2>t, <2>s DEF RegisterCommit, TypeOK, Life!Next, Life!Move, Life!Register
    <2>4. ASSUME NEW w \in Workers, ApplyHeartbeat(w) PROVE Life!Next
      BY <2>4, <2>t, <2>s DEF ApplyHeartbeat, HeartbeatRefused, registryVars, TypeOK,
                              Life!Next, Life!Move, Life!Heard
    <2>5. CASE MonitorApply
      <3>1. \A n \in Logics : Elapsed(n) \in Nat
        BY <2>t, AgeTypes DEF Elapsed, TypeOK, Ages
      <3>2. ASSUME NEW n \in Logics
            PROVE  \/ state'[n] = state[n] \/ Life!Doubt(n) \/ Life!GiveUp(n)
        <4>1. state[n] \in NodeStates
          BY <2>t DEF TypeOK
        <4>2. state'[n] = NextOnTimeout(state[n], Elapsed(n))
          BY <2>5 DEF MonitorApply
        <4> QED
          BY <3>1, <4>1, <4>2, NextOnTimeoutIs DEF NodeStates, Life!Doubt, Life!GiveUp
      <3> QED BY <2>s, <3>2 DEF Life!Next, Life!Move
    <2>6. CASE GatewayRestart
      BY <2>6 DEF GatewayRestart, Life!Next, Life!Restart
    <2> QED BY <2>1, <2>2, <2>3, <2>4, <2>5, <2>6 DEF Next, WorkerNext
  <1> QED
    BY InvariantHolds, <1>1, <1>2, PTL DEF Spec, Lifecycle, Life!Spec
=============================================================================
