------------------------- MODULE ControlPlaneProofs -------------------------
(***************************************************************************)
(* Proofs about ControlPlane: that only a register call brings a node      *)
(* back, and that a process that heartbeats is in the Master's inventory   *)
(* as itself.                                                              *)
(***************************************************************************)
EXTENDS ControlPlane, TLAPS

-----------------------------------------------------------------------------
(* The inductive invariant, in named parts.                                *)

NodeStates == {"ABSENT", "REGISTERED", "ACTIVE", "SUSPECT", "DEAD"}
AgentStates == {"down", "register", "beat", "leave", "gone"}
Calls == [kind : {"register", "heartbeat", "leave"}, proc : Procs,
          awaited : BOOLEAN, stored : BOOLEAN]

\* Every variable has its type.
TypeOK ==
    /\ self \in OwnIds
    /\ state \in [Nodes -> NodeStates]
    /\ owner \in [Nodes -> Procs \cup {Master, Nobody}]
    /\ last \in [Nodes -> 0..DeadTimeout]
    /\ agent \in [Procs -> AgentStates]
    /\ calls \subseteq Calls
    /\ restarts \in 0..MaxRestarts
    /\ alone \in Procs \cup {Nobody}

\* A call comes from a process that was started, a leave from one that stops;
\* the answer to a register finds the Agent in its register loop.
Origin ==
    \A c \in calls :
        /\ agent[c.proc] # "down"
        /\ c.kind = "leave" => agent[c.proc] \in {"leave", "gone"}
        /\ c.kind = "register" /\ c.awaited => agent[c.proc] = "register"

\* An Agent is inside one postJSON at a time.
OneAwaited ==
    \A c, d \in calls : c.awaited /\ d.awaited /\ c.proc = d.proc => c = d

\* The process that started alone stays so until another follows.
StillAlone == alone \in Procs => Clear(alone)

\* From the first half of its register on it is in the inventory, as itself,
\* until it leaves.
Listed ==
    \A p \in Procs :
        /\ p = alone /\ restarts = 0 /\ agent[p] \in {"register", "beat"}
        /\ \/ agent[p] = "beat"
           \/ \E c \in calls : c.proc = p /\ c.kind = "register" /\ c.stored
        => state[NodeOf[p]] # "ABSENT" /\ owner[NodeOf[p]] = p

IInv == TypeOK /\ Origin /\ OneAwaited /\ StillAlone /\ Listed

-----------------------------------------------------------------------------
(* Lemmas about the operators.                                             *)

\* The monitor forgets no node and brings none back.
LEMMA NextOnTimeoutType ==
    ASSUME NEW s \in NodeStates, NEW e \in Nat
    PROVE  /\ NextOnTimeout(s, e) \in NodeStates
           /\ NextOnTimeout(s, e) = "ABSENT" <=> s = "ABSENT"
           /\ s \in {"ABSENT", "DEAD"} => NextOnTimeout(s, e) = s
  BY ControlAssumption DEF NextOnTimeout, NodeStates

\* A new call is awaited and not begun.
LEMMA CallType ==
    ASSUME NEW k \in {"register", "heartbeat", "leave"}, NEW p \in Procs
    PROVE  /\ Call(k, p) \in Calls
           /\ Call(k, p).kind = k /\ Call(k, p).proc = p
           /\ ~Call(k, p).stored
  BY DEF Call, Calls

\* To orphan the calls of a process changes nothing but that.
LEMMA OrphanedCalls ==
    ASSUME NEW p \in Procs, calls \subseteq Calls
    PROVE  /\ Orphaned(p) \subseteq Calls
           /\ \A c \in Orphaned(p) :
                \/ c \in calls /\ c.proc # p
                \/ /\ ~c.awaited /\ c.proc = p
                   /\ \E d \in calls :
                        c.proc = d.proc /\ c.kind = d.kind /\ c.stored = d.stored
  BY DEF Orphaned, Calls

-----------------------------------------------------------------------------
\* The invariant holds at the start.
LEMMA InitIInv == Init => IInv
  BY ControlAssumption
     DEF Init, IInv, TypeOK, Origin, OneAwaited, StillAlone, Listed, NodeStates,
         AgentStates

\* What a step that leaves p's Agent at point a may do to the calls: those it
\* made before are gone, orphaned or left as they were, and it may make one.
AgentCalls(p, a) ==
    \A c \in calls' :
        \/ c \in calls /\ (c.proc = p => a = agent[p] \/ ~c.awaited)
        \/ /\ ~c.awaited /\ c.proc = p
           /\ \E d \in calls : c.proc = d.proc /\ c.kind = d.kind /\ c.stored = d.stored
        \/ /\ c.proc = p /\ ~c.stored /\ (c.kind = "leave" => a = "leave")
           /\ c.kind = "register" => a = "register"
           /\ \A d \in calls' : d.proc = p /\ d.awaited => d = c

\* A step of process p's Agent, towards its end.
LEMMA AgentOnly ==
    ASSUME IInv, NEW p \in Procs,
           UNCHANGED <<self, registryVars, restarts, alone>>,
           calls' \subseteq Calls,
           NEW a \in AgentStates, agent' = [agent EXCEPT ![p] = a],
           agent[p] \in {"register", "beat", "leave"},
           a \in {agent[p], "leave", "gone"},
           AgentCalls(p, a)
    PROVE  IInv'
  <1> USE DEF registryVars, AgentCalls
  <1>1. TypeOK'
    BY DEF IInv, TypeOK
  <1>2. Origin'
    BY DEF IInv, TypeOK, Origin, Calls
  <1>3. OneAwaited'
    BY DEF IInv, TypeOK, OneAwaited, Calls
  <1>4. StillAlone'
    BY DEF IInv, TypeOK, StillAlone, Clear, Peers, Calls
  <1>5. Listed'
    BY DEF IInv, TypeOK, Listed, Calls
  <1> QED BY <1>1, <1>2, <1>3, <1>4, <1>5 DEF IInv

\* A handler that hears the node of a call it answers: the second half of a
\* register, with its 200, or a heartbeat.
LEMMA HeartbeatStep ==
    ASSUME IInv, NEW c \in calls,
           UNCHANGED <<self, restarts, alone>>,
           calls' = calls \ {c},
           \/ agent' = agent
           \/ /\ c.kind = "register" /\ c.stored /\ c.awaited
              /\ agent' = [agent EXCEPT ![c.proc] = "beat"],
           ApplyHeartbeat(NodeOf[c.proc])
    PROVE  IInv'
  <1>0. c \in Calls /\ c.proc \in Procs /\ NodeOf[c.proc] \in Nodes
    BY ControlAssumption DEF IInv, TypeOK, Calls
  <1>1. TypeOK'
    BY <1>0, ControlAssumption
       DEF IInv, TypeOK, ApplyHeartbeat, Refused, registryVars, NodeStates, AgentStates
  <1>2. Origin'
    BY <1>0 DEF IInv, TypeOK, Origin, OneAwaited, Calls
  <1>3. OneAwaited'
    BY DEF IInv, OneAwaited
  <1>4. StillAlone'
    BY <1>0 DEF IInv, TypeOK, StillAlone, Clear, Peers, Calls
  <1>5. /\ \A n \in Nodes : state[n] # "ABSENT" => state'[n] # "ABSENT"
        /\ owner' = owner
    BY <1>0 DEF IInv, TypeOK, ApplyHeartbeat, Refused, registryVars
  <1>6. Listed'
    <2> SUFFICES ASSUME NEW p \in Procs,
                        p = alone, restarts = 0, agent'[p] \in {"register", "beat"},
                        \/ agent'[p] = "beat"
                        \/ \E d \in calls' : d.proc = p /\ d.kind = "register" /\ d.stored
                 PROVE  state'[NodeOf[p]] # "ABSENT" /\ owner'[NodeOf[p]] = p
      BY DEF Listed
    <2>1. agent[p] \in {"register", "beat"}
      BY <1>0 DEF IInv, TypeOK, Origin
    <2>2. \/ agent[p] = "beat"
          \/ \E d \in calls : d.proc = p /\ d.kind = "register" /\ d.stored
      BY <1>0 DEF IInv, TypeOK
    <2>3. state[NodeOf[p]] # "ABSENT" /\ owner[NodeOf[p]] = p
      BY <2>1, <2>2 DEF IInv, Listed
    <2> QED BY <2>3, <1>5, ControlAssumption
  <1> QED BY <1>1, <1>2, <1>3, <1>4, <1>6 DEF IInv

\* Every step keeps the invariant.
LEMMA StepIInv == IInv /\ [Next]_vars => IInv'
  <1> SUFFICES ASSUME IInv, [Next]_vars PROVE IInv'
    OBVIOUS
  <1>t. TypeOK
    BY DEF IInv
  <1>u. CASE UNCHANGED vars
    BY <1>u DEF vars, registryVars, IInv, TypeOK, Origin, OneAwaited, StillAlone, Clear,
                Listed
  <1>1. ASSUME NEW p \in Procs, Start(p) PROVE IInv'
    <2> USE <1>1, <1>t DEF registryVars
    <2>1. TypeOK'
      BY DEF Start, TypeOK, AgentStates
    <2>2. Origin' /\ OneAwaited'
      BY DEF Start, TypeOK, Origin, OneAwaited, IInv, Calls
    <2>3. StillAlone'
      BY ControlAssumption DEF Start, TypeOK, StillAlone, Clear, Peers, IInv
    <2>4. Listed'
      BY ControlAssumption DEF Start, TypeOK, Listed, Origin, IInv, Calls
    <2> QED BY <2>1, <2>2, <2>3, <2>4 DEF IInv
  <1>2. ASSUME NEW p \in Procs, PostRegister(p) PROVE IInv'
    <2>1. agent' = [agent EXCEPT ![p] = agent[p]]
      BY <1>2, <1>t DEF PostRegister, TypeOK
    <2>2. \A c \in calls : c.proc = p => ~c.awaited
      BY <1>2 DEF PostRegister, Waiting
    <2>3. calls' = calls \cup {Call("register", p)} /\ calls' \subseteq Calls
      BY <1>2, <1>t, CallType DEF PostRegister, TypeOK
    <2>4. AgentCalls(p, agent[p])
      BY <1>2, <2>2, <2>3, CallType DEF PostRegister, AgentCalls
    <2>5. agent[p] \in AgentStates
      BY <1>t DEF TypeOK
    <2> QED
      BY <1>2, <2>1, <2>3, <2>4, <2>5, AgentOnly DEF PostRegister
  <1>3. ASSUME NEW p \in Procs, PostHeartbeat(p) PROVE IInv'
    <2>1. agent' = [agent EXCEPT ![p] = agent[p]]
      BY <1>3, <1>t DEF PostHeartbeat, TypeOK
    <2>2. \A c \in calls : c.proc = p => ~c.awaited
      BY <1>3 DEF PostHeartbeat, Waiting
    <2>3. calls' = calls \cup {Call("heartbeat", p)} /\ calls' \subseteq Calls
      BY <1>3, <1>t, CallType DEF PostHeartbeat, TypeOK
    <2>4. AgentCalls(p, agent[p])
      BY <1>3, <2>2, <2>3, CallType DEF PostHeartbeat, AgentCalls
    <2>5. agent[p] \in AgentStates
      BY <1>t DEF TypeOK
    <2> QED
      BY <1>3, <2>1, <2>3, <2>4, <2>5, AgentOnly DEF PostHeartbeat
  <1>4. ASSUME NEW p \in Procs, LeaveReturns(p) PROVE IInv'
    <2>1. AgentCalls(p, "gone")
      BY <1>4 DEF LeaveReturns, Waiting, AgentCalls
    <2> QED
      BY <1>4, <1>t, <2>1, AgentOnly DEF LeaveReturns, TypeOK, AgentStates
  <1>5. ASSUME NEW p \in Procs, GiveUp(p) PROVE IInv'
    BY <1>5, <1>t, OrphanedCalls
       DEF GiveUp, IInv, Origin, OneAwaited, StillAlone, Clear, Peers, Listed, TypeOK,
           registryVars, Calls
  <1>6. ASSUME NEW p \in Procs, Stop(p) PROVE IInv'
    <2> DEFINE a == IF agent[p] = "beat" THEN "leave" ELSE "gone"
    <2>1. /\ a \in AgentStates /\ agent' = [agent EXCEPT ![p] = a]
          /\ agent[p] \in {"register", "beat", "leave"} /\ a \in {agent[p], "leave", "gone"}
      BY <1>6, <1>t DEF Stop, TypeOK, AgentStates
    <2>2. calls' \subseteq Calls
      BY <1>6, <1>t, OrphanedCalls, CallType DEF Stop, TypeOK
    <2>3. AgentCalls(p, a)
      BY <1>6, <1>t, OrphanedCalls, CallType DEF Stop, TypeOK, AgentCalls
    <2> HIDE DEF a
    <2> QED BY <1>6, <2>1, <2>2, <2>3, AgentOnly DEF Stop
  <1>7. ASSUME NEW p \in Procs, Crash(p) PROVE IInv'
    <2>1. calls' \subseteq Calls
      BY <1>7, <1>t, OrphanedCalls DEF Crash, TypeOK
    <2>2. AgentCalls(p, "gone")
      BY <1>7, <1>t, OrphanedCalls DEF Crash, TypeOK, AgentCalls
    <2> QED
      BY <1>7, <1>t, <2>1, <2>2, AgentOnly DEF Crash, TypeOK, AgentStates
  <1>8. ASSUME NEW c \in calls, ServeRegister(c) PROVE IInv'
    <2>0. c \in Calls /\ c.proc \in Procs /\ NodeOf[c.proc] \in Nodes
      BY <1>8, <1>t, ControlAssumption DEF TypeOK, Calls
    <2> DEFINE s == [c EXCEPT !.stored = TRUE]
    <2>s. s \in Calls /\ s.proc = c.proc /\ s.kind = c.kind /\ s.awaited = c.awaited
      BY <2>0 DEF Calls
    <2>c. calls' = (calls \ {c}) \cup {s}
      BY <1>8 DEF ServeRegister
    <2> HIDE DEF s
    <2>1. TypeOK'
      BY <1>8, <1>t, <2>0, <2>c, <2>s, ControlAssumption DEF ServeRegister, TypeOK, NodeStates
    <2>2. Origin' /\ OneAwaited'
      BY <1>8, <2>c, <2>s DEF ServeRegister, IInv, Origin, OneAwaited
    <2>3. StillAlone'
      BY <1>8, <2>c, <2>s DEF ServeRegister, IInv, StillAlone, Clear, Peers
    <2>4. Listed'
      <3> SUFFICES ASSUME NEW p \in Procs,
                          p = alone, restarts = 0, agent[p] \in {"register", "beat"},
                          \/ agent[p] = "beat"
                          \/ \E d \in calls' : d.proc = p /\ d.kind = "register" /\ d.stored
                   PROVE  state'[NodeOf[p]] # "ABSENT" /\ owner'[NodeOf[p]] = p
        BY <1>8 DEF Listed, ServeRegister
      <3>1. CASE p = c.proc
        BY <1>8, <1>t, <2>0, <3>1 DEF ServeRegister, TypeOK
      <3>2. CASE p # c.proc
        <4>1. NodeOf[p] # NodeOf[c.proc]
          BY <1>8, <2>0, <3>2 DEF IInv, StillAlone, Clear, Peers
        <4>2. state[NodeOf[p]] # "ABSENT" /\ owner[NodeOf[p]] = p
          BY <3>2, <2>c, <2>s DEF IInv, Listed
        <4> QED
          BY <1>8, <1>t, <2>0, <4>1, <4>2, ControlAssumption DEF ServeRegister, TypeOK
      <3> QED BY <3>1, <3>2
    <2> QED BY <2>1, <2>2, <2>3, <2>4 DEF IInv
  <1>9. ASSUME NEW c \in calls, ServeAccepted(c) PROVE IInv'
    BY <1>9, HeartbeatStep DEF ServeAccepted
  <1>10. ASSUME NEW c \in calls, ServeHeartbeat(c) PROVE IInv'
    BY <1>10, HeartbeatStep DEF ServeHeartbeat
  <1>11. ASSUME NEW c \in calls, ServeLeave(c) PROVE IInv'
    <2>0. c \in Calls /\ c.proc \in Procs /\ NodeOf[c.proc] \in Nodes
      BY <1>11, <1>t, ControlAssumption DEF TypeOK, Calls
    <2>1. TypeOK'
      BY <1>11, <1>t, <2>0, ControlAssumption
         DEF ServeLeave, registryVars, TypeOK, NodeStates
    <2>2. Origin' /\ OneAwaited' /\ StillAlone'
      BY <1>11 DEF ServeLeave, IInv, Origin, OneAwaited, StillAlone, Clear, Peers
    <2>3. Listed'
      <3> SUFFICES ASSUME NEW p \in Procs,
                          p = alone, restarts = 0, agent[p] \in {"register", "beat"},
                          \/ agent[p] = "beat"
                          \/ \E d \in calls' : d.proc = p /\ d.kind = "register" /\ d.stored
                   PROVE  state'[NodeOf[p]] # "ABSENT" /\ owner'[NodeOf[p]] = p
        BY <1>11 DEF Listed, ServeLeave
      <3>1. p # c.proc
        BY <1>11 DEF ServeLeave, IInv, Origin
      <3>2. NodeOf[p] # NodeOf[c.proc]
        BY <1>11, <2>0, <3>1 DEF IInv, StillAlone, Clear, Peers
      <3>3. state[NodeOf[p]] # "ABSENT" /\ owner[NodeOf[p]] = p
        BY <1>11 DEF ServeLeave, IInv, Listed
      <3> QED
        BY <1>11, <1>t, <2>0, <3>2, <3>3, ControlAssumption
           DEF ServeLeave, registryVars, TypeOK
    <2> QED BY <2>1, <2>2, <2>3 DEF IInv
  <1>12. ASSUME NEW c \in calls, CallFails(c) PROVE IInv'
    BY <1>12, <1>t DEF CallFails, IInv, TypeOK, Origin, OneAwaited, StillAlone, Clear, Peers,
                Listed, registryVars
  <1>13. CASE CheckTimeouts
    <2> DEFINE at == [n \in Nodes |-> IF n = self /\ ~Refused(n) THEN 0 ELSE last[n]]
               st == [n \in Nodes |-> IF n = self /\ ~Refused(n) THEN "ACTIVE"
                                      ELSE state[n]]
    <2>0. /\ at \in [Nodes -> 0..DeadTimeout]
          /\ st \in [Nodes -> NodeStates]
          /\ \A n \in Nodes : st[n] = "ABSENT" <=> state[n] = "ABSENT"
      BY <1>t, ControlAssumption DEF TypeOK, NodeStates, Refused
    <2>1. /\ last' = at
          /\ state' = [n \in Nodes |-> IF owner[n] = Master THEN st[n]
                                       ELSE NextOnTimeout(st[n], at[n])]
      BY <1>13 DEF CheckTimeouts
    <2> HIDE DEF at, st
    <2>n. 0..DeadTimeout \subseteq Nat
      BY ControlAssumption
    <2>2. /\ state' \in [Nodes -> NodeStates]
          /\ \A n \in Nodes : state'[n] = "ABSENT" <=> state[n] = "ABSENT"
      BY <2>0, <2>1, <2>n, NextOnTimeoutType
    <2>3. TypeOK'
      BY <1>13, <1>t, <2>0, <2>1, <2>2 DEF CheckTimeouts, TypeOK
    <2>4. Origin' /\ OneAwaited' /\ StillAlone'
      BY <1>13 DEF CheckTimeouts, IInv, Origin, OneAwaited, StillAlone, Clear, Peers
    <2>5. Listed'
      BY <1>13, <2>2, ControlAssumption DEF CheckTimeouts, IInv, Listed
    <2> QED BY <2>3, <2>4, <2>5 DEF IInv
  <1>14. CASE MasterRestart
    BY <1>14, <1>t, ControlAssumption
       DEF MasterRestart, Fresh, IInv, TypeOK, Origin, OneAwaited, StillAlone, Clear,
           Peers, Listed, NodeStates
  <1>15. CASE Tick
    <2>1. TypeOK'
      BY <1>15, <1>t, ControlAssumption DEF Tick, TypeOK
    <2> QED
      BY <1>15, <2>1 DEF Tick, IInv, Origin, OneAwaited, StillAlone, Clear, Peers, Listed
  <1> QED
    BY <1>u, <1>1, <1>2, <1>3, <1>4, <1>5, <1>6, <1>7, <1>8, <1>9, <1>10, <1>11, <1>12,
       <1>13, <1>14, <1>15 DEF Next, AgentStep

\* The inductive invariant holds whatever processes, ids and timeouts there are.
THEOREM InvariantHolds == Spec => []IInv
  BY InitIInv, StepIInv, PTL DEF Spec

\* A process that heartbeats is listed, as itself, for any number of
\* processes, ids and calls in flight.
THEOREM ListsAsItself == Spec => []ListedAsItself
  <1>1. IInv => ListedAsItself
    BY DEF IInv, Listed, ListedAsItself
  <1> QED BY InvariantHolds, <1>1, PTL

\* Only a register call, or a Master that starts over, changes the state of a
\* node that was given up or is unknown.
THEOREM RevivedByRegister == Spec => OnlyRegisterRevives
  <1> DEFINE Kept == \A n \in Nodes :
               Refused(n) /\ state'[n] # state[n] =>
                   state'[n] \in {"ABSENT", "REGISTERED"} \/ restarts' # restarts
  <1>1. ASSUME IInv, [Next]_vars PROVE [Kept]_vars
    <2> SUFFICES ASSUME Next, NEW n \in Nodes, Refused(n), state'[n] # state[n],
                        restarts' = restarts
                 PROVE  state'[n] \in {"ABSENT", "REGISTERED"}
      BY <1>1
    <2>t. TypeOK
      BY <1>1 DEF IInv
    <2>1. ASSUME NEW p \in Procs,
                 Start(p) \/ AgentStep(p) \/ GiveUp(p) \/ Stop(p) \/ Crash(p)
          PROVE  FALSE
      BY <2>1 DEF Start, AgentStep, PostRegister, PostHeartbeat, LeaveReturns, GiveUp,
                  Stop, Crash, registryVars
    <2>2. ASSUME NEW c \in calls, ServeRegister(c) \/ ServeLeave(c)
          PROVE  state'[n] \in {"ABSENT", "REGISTERED"}
      BY <2>2, <2>t DEF ServeRegister, ServeLeave, registryVars, TypeOK
    <2>3. ASSUME NEW c \in calls, ServeAccepted(c) \/ ServeHeartbeat(c) \/ CallFails(c)
          PROVE  FALSE
      BY <2>3, <2>t DEF ServeAccepted, ServeHeartbeat, CallFails, ApplyHeartbeat, Refused,
                        registryVars, TypeOK
    <2>4. CASE CheckTimeouts
      <3>1. state'[n] = IF owner[n] = Master THEN state[n]
                        ELSE NextOnTimeout(state[n], last[n])
        BY <2>4 DEF CheckTimeouts, Refused
      <3>2. last[n] \in Nat /\ state[n] \in NodeStates
        BY <2>t, ControlAssumption DEF TypeOK
      <3> QED BY <3>1, <3>2, NextOnTimeoutType DEF Refused
    <2>5. CASE MasterRestart
      BY <2>5, <2>t, ControlAssumption DEF MasterRestart, TypeOK
    <2>6. CASE Tick
      BY <2>6 DEF Tick
    <2> QED BY <2>1, <2>2, <2>3, <2>4, <2>5, <2>6 DEF Next
  <1> QED
    BY InvariantHolds, <1>1, PTL DEF Spec, OnlyRegisterRevives
=============================================================================
