---------------------------- MODULE NodeLifecycle ----------------------------
(***************************************************************************)
(* What the gateway's registry promises about its nodes: the states a node *)
(* goes through and what may move it from one to another.  A step may move *)
(* several nodes, as a round of the monitor does.  Module Membership       *)
(* implements it.                                                          *)
(***************************************************************************)

CONSTANT Nodes

VARIABLE state  \* each node's state in the registry, "ABSENT" when unknown

NodeStates == {"ABSENT", "REGISTERED", "ACTIVE", "SUSPECT", "DEAD"}

Init == state = [n \in Nodes |-> "ABSENT"]

\* Registering is the only way in, and the only way out of DEAD.
Register(n) == state'[n] = "REGISTERED"

\* A known node that is not DEAD is heard.
Heard(n) == state[n] \notin {"ABSENT", "DEAD"} /\ state'[n] = "ACTIVE"

\* A silent node is doubted, then given up.
Doubt(n) == state[n] \in {"REGISTERED", "ACTIVE"} /\ state'[n] = "SUSPECT"
GiveUp(n) == state[n] \notin {"ABSENT", "DEAD"} /\ state'[n] = "DEAD"

\* The registry is in memory: a restart of the gateway forgets every node.
Restart == state' = [n \in Nodes |-> "ABSENT"]

Move ==
    /\ state' \in [Nodes -> NodeStates]
    /\ \A n \in Nodes :
         state'[n] = state[n] \/ Register(n) \/ Heard(n) \/ Doubt(n) \/ GiveUp(n)

Next == Move \/ Restart

Spec == Init /\ [][Next]_state
=============================================================================
