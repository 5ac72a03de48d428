---------------------------- MODULE ControlPlane ----------------------------
(***************************************************************************)
(* The inventory of processes: the Master's HTTP endpoints and monitor     *)
(* (internal/master) and the Agent inside every gateway and Logic process  *)
(* (internal/controlplane), which registers until it is accepted, then     *)
(* heartbeats, and leaves when its process is told to stop.                *)
(*                                                                         *)
(* A call the Agent gave up (its client times out after 3 s, Leave after   *)
(* 2 s) may still be served: it stays in calls, no longer awaited.  Two    *)
(* processes with one node id may overlap, the old one leaving while the   *)
(* new one registers, as in a restart.                                     *)
(*                                                                         *)
(* Instants are ages; the clock is read where the registry is locked (the  *)
(* gap between the two is in module Membership).  What a heartbeat says of *)
(* the load is left out.                                                   *)
(*                                                                         *)
(* The Master has an entry of its own, which its monitor refreshes and     *)
(* never times out and which nobody can remove.  Every process defaults to *)
(* node id 1, the Master too, so a process may carry the Master's id.      *)
(***************************************************************************)
EXTENDS Naturals, FiniteSets

CONSTANTS Nodes,           \* node ids
          Procs,           \* processes, each started once
          NodeOf,          \* the node id each process is configured with
          OwnIds,          \* node ids the Master may be configured with
          Master,          \* the Master, as the owner of an entry
          Nobody,          \* the owner where the map has no entry
          SuspectTimeout,
          DeadTimeout,
          MaxRestarts      \* bound: restarts of the Master

ASSUME ControlAssumption ==
    /\ NodeOf \in [Procs -> Nodes]
    /\ {Master, Nobody} \cap Procs = {} /\ Master # Nobody
    /\ SuspectTimeout \in Nat \ {0} /\ DeadTimeout \in Nat
    /\ SuspectTimeout < DeadTimeout /\ MaxRestarts \in Nat

\* An HTTP call in hand: stored is the point between the two halves of a
\* register's handler.
Call(k, p) == [kind |-> k, proc |-> p, awaited |-> TRUE, stored |-> FALSE]

VARIABLES
    self,      \* cfg.Node.NodeID of the Master
    state,     \* nodes[n].State at the Master, "ABSENT" when not in the map
    owner,     \* whose address, name and type nodes[n] holds
    last,      \* age of nodes[n].LastHeartbeatAt
    agent,     \* each Agent: down, register, beat, leave, gone
    calls,     \* HTTP calls not yet answered
    restarts,  \* restarts of the Master
    alone      \* history: the process that started when its predecessors and
               \* their calls were over and that no other followed yet

registryVars == <<state, owner, last>>
vars == <<self, registryVars, agent, calls, restarts, alone>>

\* master.Run: its own entry, made ACTIVE at once.
Fresh ==
    /\ state' = [n \in Nodes |-> IF n = self THEN "ACTIVE" ELSE "ABSENT"]
    /\ owner' = [n \in Nodes |-> IF n = self THEN Master ELSE Nobody]
    /\ last' = [n \in Nodes |-> 0]

Init ==
    /\ self \in OwnIds
    /\ state = [n \in Nodes |-> IF n = self THEN "ACTIVE" ELSE "ABSENT"]
    /\ owner = [n \in Nodes |-> IF n = self THEN Master ELSE Nobody]
    /\ last = [n \in Nodes |-> 0]
    /\ agent = [p \in Procs |-> "down"]
    /\ calls = {}
    /\ restarts = 0
    /\ alone = Nobody

-----------------------------------------------------------------------------
(* Agent.Run.                                                              *)

\* The Agent is inside postJSON.
Waiting(p) == \E c \in calls : c.proc = p /\ c.awaited

\* The other processes with p's node id, and whether they are out of the way.
Peers(p) == {q \in Procs \ {p} : NodeOf[q] = NodeOf[p]}
Clear(p) == /\ \A q \in Peers(p) : agent[q] \in {"down", "gone"}
            /\ \A c \in calls : c.proc \notin Peers(p)

Start(p) ==
    /\ agent[p] = "down"
    /\ agent' = [agent EXCEPT ![p] = "register"]
    /\ alone' = IF Clear(p) THEN p
                ELSE IF alone \in Peers(p) THEN Nobody ELSE alone
    /\ UNCHANGED <<self, registryVars, calls, restarts>>

\* The register loop: again after every failure.
PostRegister(p) ==
    /\ agent[p] = "register" /\ ~Waiting(p)
    /\ calls' = calls \cup {Call("register", p)}
    /\ UNCHANGED <<self, registryVars, agent, restarts, alone>>

\* The ticker; what comes of the call is logged and forgotten.
PostHeartbeat(p) ==
    /\ agent[p] = "beat" /\ ~Waiting(p)
    /\ calls' = calls \cup {Call("heartbeat", p)}
    /\ UNCHANGED <<self, registryVars, agent, restarts, alone>>

\* The calls once nobody waits for those of p.
Orphaned(p) ==
    {[c EXCEPT !.awaited = FALSE] : c \in {d \in calls : d.proc = p}}
      \cup {c \in calls : c.proc # p}

\* The client's timeout.
GiveUp(p) ==
    /\ Waiting(p)
    /\ calls' = Orphaned(p)
    /\ UNCHANGED <<self, registryVars, agent, restarts, alone>>

\* The context is done, which ends the call in hand: the deferred Leave, if
\* the Agent had registered.
Stop(p) ==
    /\ agent[p] \in {"register", "beat"}
    /\ agent' = [agent EXCEPT ![p] = IF @ = "beat" THEN "leave" ELSE "gone"]
    /\ calls' = Orphaned(p) \cup
                  (IF agent[p] = "beat" THEN {Call("leave", p)} ELSE {})
    /\ UNCHANGED <<self, registryVars, restarts, alone>>

\* Leave was answered, failed or timed out: Run returns all the same.
LeaveReturns(p) ==
    /\ agent[p] = "leave" /\ ~Waiting(p)
    /\ agent' = [agent EXCEPT ![p] = "gone"]
    /\ UNCHANGED <<self, registryVars, calls, restarts, alone>>

\* The process dies: its calls may have been sent.
Crash(p) ==
    /\ agent[p] \in {"register", "beat", "leave"}
    /\ agent' = [agent EXCEPT ![p] = "gone"]
    /\ calls' = Orphaned(p)
    /\ UNCHANGED <<self, registryVars, restarts, alone>>

-----------------------------------------------------------------------------
(* The Master.                                                             *)

\* NextOnHeartbeat errs for DEAD, the registry for a node it does not have.
Refused(n) == state[n] \in {"ABSENT", "DEAD"}

\* A slip: an entry that is there keeps its address, name and type.
ServeRegisterKeepsEntry(c) ==
    /\ c \in calls /\ c.kind = "register" /\ ~c.stored
    /\ LET n == NodeOf[c.proc] IN
         /\ state' = [state EXCEPT ![n] = "REGISTERED"]
         /\ owner' = [owner EXCEPT ![n] = IF @ = Nobody THEN c.proc ELSE @]
         /\ last' = [last EXCEPT ![n] = 0]
    /\ calls' = (calls \ {c}) \cup {[c EXCEPT !.stored = TRUE]}
    /\ UNCHANGED <<self, agent, restarts, alone>>

\* handleRegister, first half: Memory.Register.
ServeRegister(c) ==
    /\ c \in calls /\ c.kind = "register" /\ ~c.stored
    /\ LET n == NodeOf[c.proc] IN
         /\ state' = [state EXCEPT ![n] = "REGISTERED"]
         /\ owner' = [owner EXCEPT ![n] = c.proc]
         /\ last' = [last EXCEPT ![n] = 0]
    /\ calls' = (calls \ {c}) \cup {[c EXCEPT !.stored = TRUE]}
    /\ UNCHANGED <<self, agent, restarts, alone>>

\* ApplyHeartbeat, its error ignored by one caller and sent by the other.
ApplyHeartbeat(n) ==
    IF Refused(n) THEN UNCHANGED registryVars
    ELSE /\ state' = [state EXCEPT ![n] = "ACTIVE"]
         /\ last' = [last EXCEPT ![n] = 0]
         /\ UNCHANGED owner

\* A slip: the second half makes sure that the node is there.
ServeAcceptedPuts(c) ==
    /\ c \in calls /\ c.kind = "register" /\ c.stored
    /\ state' = [state EXCEPT ![NodeOf[c.proc]] = "ACTIVE"]
    /\ last' = [last EXCEPT ![NodeOf[c.proc]] = 0]
    /\ calls' = calls \ {c}
    /\ agent' = IF c.awaited THEN [agent EXCEPT ![c.proc] = "beat"] ELSE agent
    /\ UNCHANGED <<self, owner, restarts, alone>>

\* handleRegister, second half: ACTIVE at once, and the answer 200.
ServeAccepted(c) ==
    /\ c \in calls /\ c.kind = "register" /\ c.stored
    /\ ApplyHeartbeat(NodeOf[c.proc])
    /\ calls' = calls \ {c}
    /\ agent' = IF c.awaited THEN [agent EXCEPT ![c.proc] = "beat"] ELSE agent
    /\ UNCHANGED <<self, restarts, alone>>

\* handleHeartbeat: 200, 404 or 409, all one to the Agent.
ServeHeartbeat(c) ==
    /\ c \in calls /\ c.kind = "heartbeat"
    /\ ApplyHeartbeat(NodeOf[c.proc])
    /\ calls' = calls \ {c}
    /\ UNCHANGED <<self, agent, restarts, alone>>

\* handleLeave: whoever registered the id last, it goes; 400 for the Master's.
ServeLeave(c) ==
    /\ c \in calls /\ c.kind = "leave"
    /\ LET n == NodeOf[c.proc] IN
         IF n = self THEN UNCHANGED registryVars
         ELSE /\ state' = [state EXCEPT ![n] = "ABSENT"]
              /\ owner' = [owner EXCEPT ![n] = Nobody]
              /\ last' = [last EXCEPT ![n] = 0]
    /\ calls' = calls \ {c}
    /\ UNCHANGED <<self, agent, restarts, alone>>

\* The call never reaches a handler, or its answer never reaches the Agent.
CallFails(c) ==
    /\ c \in calls
    /\ calls' = calls \ {c}
    /\ UNCHANGED <<self, registryVars, agent, restarts, alone>>

\* A slip: a node that never heartbeat is not timed out.
NextOnTimeoutActiveOnly(s, elapsed) ==
    CASE s \in {"ABSENT", "DEAD", "REGISTERED"} -> s
      [] s \in {"ACTIVE", "SUSPECT"} /\ elapsed >= DeadTimeout -> "DEAD"
      [] s \in {"ACTIVE", "SUSPECT"} /\ elapsed < DeadTimeout ->
           IF elapsed >= SuspectTimeout THEN "SUSPECT" ELSE s

NextOnTimeout(s, elapsed) ==
    CASE s \in {"ABSENT", "DEAD"} -> s
      [] s \notin {"ABSENT", "DEAD"} /\ elapsed >= DeadTimeout -> "DEAD"
      [] s \notin {"ABSENT", "DEAD"} /\ elapsed < DeadTimeout ->
           IF elapsed >= SuspectTimeout THEN "SUSPECT" ELSE s

\* The monitor's tick: the Master's own entry is refreshed, by its id; then
\* every node but those of the Master's type is looked at, under one lock.
CheckTimeouts ==
    /\ LET at == [n \in Nodes |-> IF n = self /\ ~Refused(n) THEN 0 ELSE last[n]]
           st == [n \in Nodes |-> IF n = self /\ ~Refused(n) THEN "ACTIVE"
                                  ELSE state[n]]
       IN /\ last' = at
          /\ state' = [n \in Nodes |-> IF owner[n] = Master THEN st[n]
                                       ELSE NextOnTimeout(st[n], at[n])]
    /\ UNCHANGED <<self, owner, agent, calls, restarts, alone>>

\* The Master dies and comes back with an empty map; open connections end.
MasterRestart ==
    /\ restarts < MaxRestarts
    /\ restarts' = restarts + 1
    /\ Fresh
    /\ calls' = {}
    /\ UNCHANGED <<self, agent, alone>>

\* Time passes; beyond DeadTimeout nothing changes.
Tick ==
    /\ last' = [n \in Nodes |-> IF state[n] = "ABSENT" THEN 0
                                ELSE IF last[n] < DeadTimeout THEN last[n] + 1
                                ELSE last[n]]
    /\ UNCHANGED <<self, state, owner, agent, calls, restarts, alone>>

-----------------------------------------------------------------------------
AgentStep(p) == PostRegister(p) \/ PostHeartbeat(p) \/ LeaveReturns(p)

Next ==
    \/ \E p \in Procs :
         \/ Start(p) \/ AgentStep(p)
         \/ GiveUp(p) \/ Stop(p) \/ Crash(p)
    \/ \E c \in calls :
         \/ ServeRegister(c) \/ ServeAccepted(c)
         \/ ServeHeartbeat(c) \/ ServeLeave(c) \/ CallFails(c)
    \/ CheckTimeouts \/ MasterRestart \/ Tick

Spec == Init /\ [][Next]_vars

\* Time passes and the monitor runs.
FairSpec == Spec /\ WF_vars(CheckTimeouts) /\ WF_vars(Tick)

-----------------------------------------------------------------------------
(* Properties.                                                             *)

\* A node the Master gave up or forgot comes back by a register call and by
\* nothing else: not by a heartbeat, nor by the second half of a register
\* that a Leave, a restart or the monitor overtook.
OnlyRegisterRevives ==
    [][\A n \in Nodes :
         Refused(n) /\ state'[n] # state[n] =>
             state'[n] \in {"ABSENT", "REGISTERED"} \/ restarts' # restarts]_vars

\* A process that heartbeats is in the inventory, as itself and not as one of
\* its predecessors, if it started when those and their calls were over and
\* the Master has not restarted: the 200 comes after the node is stored, and
\* none of its own late or repeated calls undoes that.
ListedAsItself ==
    \A p \in Procs :
        p = alone /\ agent[p] = "beat" /\ restarts = 0
          => state[NodeOf[p]] # "ABSENT" /\ owner[NodeOf[p]] = p

\* Once the processes of a node are gone the Master gives the node up for
\* good, whichever of the calls they left behind are still served, and in
\* whatever order; unless they carried the Master's own id.
GoneIsGivenUp ==
    \A n \in Nodes :
        (n # self /\ \A p \in Procs : NodeOf[p] = n => agent[p] = "gone")
          ~> [](state[n] \in {"ABSENT", "DEAD"})
=============================================================================
