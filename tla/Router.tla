------------------------------- MODULE Router -------------------------------
(***************************************************************************)
(* The choice of the Logic node a DATA_REQUEST goes to (internal/router):  *)
(* the candidates of a snapshot of the registry, then one of two           *)
(* strategies.  ConsistentHash keeps the ring of the last candidate set it *)
(* saw, keyed by the node ids alone; RoundRobin keeps a counter.           *)
(*                                                                         *)
(* Calls are concurrent: another caller, or the registry, may move between *)
(* the snapshot of one call and its selection.  The registry is seen as    *)
(* the router sees it, a state and an address per node; what moves it is   *)
(* in module Membership.                                                   *)
(*                                                                         *)
(* FNV-1a is abstracted to the positions it gives: VHash for the virtual   *)
(* nodes, KHash for the keys; a fingerprint is the id set it is taken of.  *)
(***************************************************************************)
EXTENDS Naturals, FiniteSets, Sequences

CONSTANTS Nodes,      \* node ids, numbers
          Addrs,      \* addresses a node may register
          Msgs,       \* message ids
          Serves,     \* Serves[n]: message ids node n's services list
          Keys,       \* routing keys (session ids)
          Callers,    \* goroutines inside RouteExcluding
          VHash,      \* VHash[n]: ring positions of node n's virtual nodes
          KHash,      \* KHash[k]: ring position of key k
          MaxPicks,   \* bound: selections by RoundRobin (its counter has 64 bits)
          NoNode

ASSUME NodesAssumption == Nodes \subseteq Nat /\ NoNode \notin Nodes
ASSUME ServesAssumption == Serves \in [Nodes -> SUBSET Msgs]
ASSUME HashAssumption ==
    /\ VHash \in [Nodes -> SUBSET Nat] /\ KHash \in [Keys -> Nat]
    /\ \A n \in Nodes : VHash[n] # {}
ASSUME PicksAssumption == MaxPicks \in Nat

Strategies == {"consistent_hash", "round_robin"}

VARIABLES
    strategy, \* the strategy the router was made with
    active,   \* Logic nodes that are ACTIVE
    addr,     \* the address each node last registered
    cand,     \* each caller's candidates: id -> address, of its snapshot
    key,      \* each caller's routing key
    pc,       \* each caller: idle, listed, done
    picked,   \* the node each caller got: [id, addr]
    cachedFP, \* ConsistentHash.cachedFP: the ids the ring was built of
    ring,     \* ConsistentHash.ring: id -> the address its vnodes carry
    rr,       \* RoundRobin.n
    turns     \* history: [ids, seq], RoundRobin's latest picks out of ids

hashVars == <<cachedFP, ring>>
rrVars == <<rr, turns>>
vars == <<strategy, active, addr, cand, key, pc, picked, hashVars, rrVars>>

NoPick == [id |-> NoNode, addr |-> NoNode]
None == [n \in {} |-> NoNode]

Init ==
    /\ strategy \in Strategies
    /\ active = {}
    /\ addr \in [Nodes -> Addrs]
    /\ cand = [c \in Callers |-> None]
    /\ key \in [Callers -> Keys]
    /\ pc = [c \in Callers |-> "idle"]
    /\ picked = [c \in Callers |-> NoPick]
    /\ cachedFP = {}
    /\ ring = None
    /\ rr = 0
    /\ turns = [ids |-> {}, seq |-> <<>>]

-----------------------------------------------------------------------------
(* The registry, as List shows it.                                         *)

\* REGISTER: the metadata are overwritten, the node is not yet ACTIVE.
Register(n, a) ==
    /\ addr' = [addr EXCEPT ![n] = a]
    /\ active' = active \ {n}
    /\ UNCHANGED <<strategy, cand, key, pc, picked, hashVars, rrVars>>

\* A heartbeat makes the node ACTIVE.
Activate(n) ==
    /\ active' = active \cup {n}
    /\ UNCHANGED <<strategy, addr, cand, key, pc, picked, hashVars, rrVars>>

\* The monitor makes it SUSPECT or DEAD.
Deactivate(n) ==
    /\ n \in active
    /\ active' = active \ {n}
    /\ UNCHANGED <<strategy, addr, cand, key, pc, picked, hashVars, rrVars>>

-----------------------------------------------------------------------------
(* RouteExcluding.                                                         *)

\* List, eligible, and the nodes left after the excluded ones; none left is
\* ErrNoEligibleNode, before any strategy is asked.
List(c, k, m, exclude) ==
    /\ pc[c] # "listed"
    /\ key' = [key EXCEPT ![c] = k]
    /\ LET ids == {n \in active : m \in Serves[n]} \ exclude IN
         /\ cand' = [cand EXCEPT ![c] = [n \in ids |-> addr[n]]]
         /\ pc' = [pc EXCEPT ![c] = IF ids = {} THEN "idle" ELSE "listed"]
         /\ picked' = [picked EXCEPT ![c] = NoPick]
    /\ UNCHANGED <<strategy, active, addr, hashVars, rrVars>>

\* The vnodes of a ring built of the nodes ids, and their order.
Vnodes(ids) == UNION {{<<h, n>> : h \in VHash[n]} : n \in ids}
Precedes(p, q) == p[1] < q[1] \/ (p[1] = q[1] /\ p[2] <= q[2])
First(S) == CHOOSE p \in S : \A q \in S : Precedes(p, q)

\* The i-th of ids in increasing order, from 0.
Nth(ids, i) == CHOOSE n \in ids : Cardinality({m \in ids : m < n}) = i

\* A slip: the key's hash taken modulo the number of nodes, no ring.
OwnerModulo(ids, h) == Nth(ids, h % Cardinality(ids))

\* sort.Search for the first vnode at or after h; past the end, the first.
Owner(ids, h) ==
    LET after == {p \in Vnodes(ids) : p[1] >= h} IN
    First(IF after = {} THEN Vnodes(ids) ELSE after)[2]

\* What caller c is given: node n as the ring holds it.
Pick(c, n, a) ==
    /\ picked' = [picked EXCEPT ![c] = [id |-> n, addr |-> a]]
    /\ pc' = [pc EXCEPT ![c] = "done"]

\* A slip: the ring is rebuilt when the number of candidates changes.
SelectHashByCount(c) ==
    /\ strategy = "consistent_hash"
    /\ pc[c] = "listed"
    /\ LET ids == DOMAIN cand[c]
           r == IF Cardinality(ids) = Cardinality(cachedFP) THEN ring ELSE cand[c] IN
         /\ ring' = r /\ cachedFP' = DOMAIN r
         /\ LET n == Owner(DOMAIN r, KHash[key[c]]) IN Pick(c, n, r[n])
    /\ UNCHANGED <<strategy, active, addr, cand, key, rrVars>>

\* ConsistentHash.Select: rebuild under the lock if the ids differ, then
\* search the ring outside it (a ring is never written after it is built).
SelectHash(c) ==
    /\ strategy = "consistent_hash"
    /\ pc[c] = "listed"
    /\ LET ids == DOMAIN cand[c]
           r == IF ids = cachedFP THEN ring ELSE cand[c] IN
         /\ ring' = r
         /\ cachedFP' = ids
         /\ LET n == Owner(DOMAIN r, KHash[key[c]]) IN Pick(c, n, r[n])
    /\ UNCHANGED <<strategy, active, addr, cand, key, rrVars>>

\* The history of a run of picks out of one candidate set, its latest round.
Note(ids, n) ==
    LET old == IF turns.ids = ids THEN turns.seq ELSE <<>>
        kept == IF Len(old) < Cardinality(ids) THEN old ELSE Tail(old) IN
    turns' = [ids |-> ids, seq |-> Append(kept, n)]

\* A slip: two steps, a load and a store, so two callers may take one turn.
SelectRoundRobinStale(c) ==
    /\ strategy = "round_robin"
    /\ pc[c] = "listed"
    /\ rr < MaxPicks
    /\ rr' \in {rr, rr + 1}
    /\ LET ids == DOMAIN cand[c]
           n == Nth(ids, rr % Cardinality(ids)) IN
         Pick(c, n, cand[c][n]) /\ Note(ids, n)
    /\ UNCHANGED <<strategy, active, addr, cand, key, hashVars>>

\* RoundRobin.Select: an atomic add, the key is not looked at.
SelectRoundRobin(c) ==
    /\ strategy = "round_robin"
    /\ pc[c] = "listed"
    /\ rr < MaxPicks
    /\ rr' = rr + 1
    /\ LET ids == DOMAIN cand[c]
           n == Nth(ids, rr % Cardinality(ids)) IN
         Pick(c, n, cand[c][n]) /\ Note(ids, n)
    /\ UNCHANGED <<strategy, active, addr, cand, key, hashVars>>

-----------------------------------------------------------------------------
RegistryNext ==
    \E n \in Nodes :
        \/ \E a \in Addrs : Register(n, a)
        \/ Activate(n) \/ Deactivate(n)

\* transaction.Service excludes the one node its first Send failed to.
CallerNext ==
    \E c \in Callers :
        \/ \E k \in Keys, m \in Msgs, n \in Nodes \cup {NoNode} : List(c, k, m, {n})
        \/ SelectHash(c) \/ SelectRoundRobin(c)

Next == RegistryNext \/ CallerNext

Spec == Init /\ [][Next]_vars

-----------------------------------------------------------------------------
(* Properties.                                                             *)

Rings == UNION {[ids -> Addrs] : ids \in SUBSET Nodes}

\* Every variable has its type, and the cached ring is the one of cachedFP.
TypeOK ==
    /\ strategy \in Strategies
    /\ active \subseteq Nodes /\ addr \in [Nodes -> Addrs]
    /\ cand \in [Callers -> Rings] /\ key \in [Callers -> Keys]
    /\ pc \in [Callers -> {"idle", "listed", "done"}]
    /\ picked \in [Callers -> [id : Nodes, addr : Addrs] \cup {NoPick}]
    /\ cachedFP \subseteq Nodes /\ ring \in [cachedFP -> Addrs]
    /\ rr \in 0..MaxPicks
    /\ turns \in [ids : SUBSET Nodes, seq : Seq(Nodes)]

\* A caller is given a node of its own snapshot: ACTIVE and serving the
\* message when it listed, and not one it excluded, whatever ring another
\* caller left in the cache in between.
PicksCandidate ==
    \A c \in Callers : pc[c] = "done" => picked[c].id \in DOMAIN cand[c]

\* Sessions stick: of two calls with one key, the one that had fewer
\* candidates is given the node the other got if that node is among them.
\* A node that leaves moves only its own sessions.
MinimalDisruption ==
    \A c, d \in Callers :
        /\ strategy = "consistent_hash"
        /\ pc[c] = "done" /\ pc[d] = "done" /\ key[c] = key[d]
        /\ DOMAIN cand[d] \subseteq DOMAIN cand[c]
        /\ picked[c].id \in DOMAIN cand[d]
        => picked[d].id = picked[c].id

\* Out of a candidate set that stays the same, RoundRobin gives every node a
\* turn before any has two, whichever callers take them.
RoundRobinSpreads ==
    \A i, j \in DOMAIN turns.seq : i # j => turns.seq[i] # turns.seq[j]
=============================================================================
