---------------------------- MODULE RouterProofs ----------------------------
(***************************************************************************)
(* Proofs about Router: that a call is given a node of its own snapshot,   *)
(* that sessions stick to their node, and that RoundRobin gives every node *)
(* its turn; for any nodes, callers, keys and positions on the ring.       *)
(***************************************************************************)
EXTENDS Router, FiniteSetTheorems, TLAPS

-----------------------------------------------------------------------------
(* Sets of node ids and their order.                                       *)

\* The number of ids below n: its place in the sorted slice.
Rank(ids, n) == Cardinality({m \in ids : m < n})

\* Places are numbers below the size of the slice, and differ.
LEMMA Ranks ==
    ASSUME NEW ids \in SUBSET Nat, IsFiniteSet(ids)
    PROVE  /\ \A n \in ids : Rank(ids, n) \in 0..(Cardinality(ids) - 1)
           /\ \A m, n \in ids : m < n => Rank(ids, m) < Rank(ids, n)
  <1>1. ASSUME NEW S \in SUBSET ids, NEW T \in SUBSET ids, NEW x \in T, x \notin S,
               S \subseteq T
        PROVE  /\ Cardinality(S) \in Nat /\ Cardinality(T) \in Nat
               /\ Cardinality(S) < Cardinality(T)
    <2>1. IsFiniteSet(S) /\ IsFiniteSet(T)
      BY FS_Subset
    <2>2. /\ Cardinality(S) \in Nat /\ Cardinality(T) \in Nat
          /\ Cardinality(S) <= Cardinality(T) /\ (Cardinality(T) = Cardinality(S) => T = S)
      BY <1>1, <2>1, FS_Subset, FS_CardinalityType
    <2> QED BY <1>1, <2>2
  <1>2. ASSUME NEW n \in ids PROVE Rank(ids, n) \in 0..(Cardinality(ids) - 1)
    <2> DEFINE S == {m \in ids : m < n}
    <2>1. S \in SUBSET ids /\ n \notin S
      OBVIOUS
    <2> HIDE DEF S
    <2>2. /\ Cardinality(S) \in Nat /\ Cardinality(ids) \in Nat
          /\ Cardinality(S) < Cardinality(ids)
      BY <1>1, <2>1
    <2>3. Rank(ids, n) = Cardinality(S)
      BY DEF Rank, S
    <2> QED BY <2>2, <2>3
  <1>3. ASSUME NEW m \in ids, NEW n \in ids, m < n PROVE Rank(ids, m) < Rank(ids, n)
    <2> DEFINE S == {k \in ids : k < m}
               T == {k \in ids : k < n}
    <2>1. S \in SUBSET ids /\ T \in SUBSET ids /\ m \in T /\ m \notin S
      BY <1>3
    <2>s. S \subseteq T
      <3> SUFFICES ASSUME NEW k \in ids, k < m PROVE k < n
        OBVIOUS
      <3>1. k \in Nat /\ m \in Nat /\ n \in Nat
        OBVIOUS
      <3> QED BY <1>3, <3>1
    <2> HIDE DEF S, T
    <2>2. Cardinality(S) < Cardinality(T)
      BY <1>1, <2>1, <2>s
    <2> QED BY <2>2 DEF Rank, S, T
  <1> QED BY <1>2, <1>3

\* There is a node at every place, so Nth finds it (the slice is sorted, and
\* the index is below its length).
LEMMA NthIsThere ==
    ASSUME NEW ids \in SUBSET Nat, IsFiniteSet(ids), NEW i \in 0..(Cardinality(ids) - 1)
    PROVE  Nth(ids, i) \in ids /\ Rank(ids, Nth(ids, i)) = i
  <1> DEFINE f == [n \in ids |-> Rank(ids, n)]
             T == 0..(Cardinality(ids) - 1)
  <1>1. Cardinality(ids) \in Nat
    BY FS_CardinalityType
  <1>2. f \in Injection(ids, T)
    <2>1. f \in [ids -> T]
      BY Ranks
    <2>2. ASSUME NEW m \in ids, NEW n \in ids, f[m] = f[n] PROVE m = n
      <3>1. Rank(ids, m) \in Int /\ Rank(ids, n) \in Int /\ Rank(ids, m) = Rank(ids, n)
        BY <1>1, <2>2, Ranks
      <3>2. ~(m < n) /\ ~(n < m)
        BY <3>1, Ranks
      <3> QED BY <3>2
    <2> QED BY <2>1, <2>2 DEF Injection, IsInjective
  <1>3. IsFiniteSet(T) /\ Cardinality(T) = Cardinality(ids)
    BY <1>1, FS_Interval
  <1>4. f \in Surjection(ids, T)
    BY <1>2, <1>3, FS_Injection
  <1>5. \E n \in ids : Rank(ids, n) = i
    BY <1>4 DEF Surjection
  <1> QED BY <1>5 DEF Nth, Rank

\* A nonempty set of numbers has a least one.
LEMMA Least ==
    ASSUME NEW S \in SUBSET Nat, S # {}
    PROVE  \E x \in S : \A y \in S : x <= y
  <1>1. PICK b \in S : TRUE
    OBVIOUS
  <1> DEFINE T == {x \in S : x <= b}
  <1>b. b \in Nat /\ b <= b
    OBVIOUS
  <1>2. T \in SUBSET Nat /\ b \in T /\ \A x \in T : x <= b
    BY <1>b
  <1> HIDE DEF T
  <1>3. IsFiniteSet(T)
    BY <1>b, <1>2, FS_BoundedSetOfNaturals
  <1>4. Cardinality(T) \in Nat /\ Cardinality(T) # 0
    BY <1>2, <1>3, FS_CardinalityType, FS_EmptySet
  <1>5. PICK x \in T : Rank(T, x) = 0
    <2>1. 0 \in 0..(Cardinality(T) - 1)
      BY <1>4
    <2> QED BY <1>2, <1>3, <2>1, NthIsThere
  <1>6. \A y \in T : ~(y < x)
    <2>1. IsFiniteSet({y \in T : y < x})
      BY <1>3, FS_Subset
    <2>2. {y \in T : y < x} = {}
      BY <1>5, <2>1, FS_EmptySet DEF Rank
    <2> QED BY <2>2
  <1> QED BY <1>b, <1>2, <1>6 DEF T

\* Turns less than a round apart are turns of different places.
LEMMA Residues ==
    ASSUME NEW c \in Nat \ {0}, NEW a \in Nat, NEW b \in Nat, a < b, b - a < c
    PROVE  a % c # b % c
  <1> SUFFICES ASSUME a % c = b % c PROVE FALSE
    OBVIOUS
  <1>1. PICK p \in Int, q \in Int, r \in Int : a = c * p + r /\ b = c * q + r
    <2>0. c \in Nat /\ c > 0
      OBVIOUS
    <2>1. a = c * (a \div c) + (a % c)
      BY <2>0
    <2>2. b = c * (b \div c) + (b % c)
      BY <2>0
    <2>3. a \div c \in Int /\ b \div c \in Int /\ a % c \in Int
      BY <2>0
    <2> QED BY <2>1, <2>2, <2>3
  <1>2. b - a = c * (q - p) /\ q - p \in Int
    BY <1>1
  <1>3. CASE q - p <= 0
    BY <1>2, <1>3
  <1>4. CASE q - p >= 1
    BY <1>2, <1>4
  <1> QED BY <1>2, <1>3, <1>4

\* A turn is a place of the slice.
LEMMA Residue ==
    ASSUME NEW c \in Nat \ {0}, NEW a \in Nat
    PROVE  a % c \in 0..(c - 1)
  OBVIOUS

-----------------------------------------------------------------------------
(* The ring.                                                               *)

\* A nonempty ring has one first vnode.
LEMMA FirstIsThere ==
    ASSUME NEW S \in SUBSET (Nat \X Nat), S # {}
    PROVE  First(S) \in S /\ \A q \in S : Precedes(First(S), q)
  <1>0. \A p \in S : p[1] \in Nat /\ p[2] \in Nat /\ p = <<p[1], p[2]>>
    OBVIOUS
  <1>1. PICK x \in {p[1] : p \in S} : \A y \in {p[1] : p \in S} : x <= y
    <2>1. {p[1] : p \in S} \in SUBSET Nat /\ {p[1] : p \in S} # {}
      BY <1>0
    <2> QED BY <2>1, Least
  <1> DEFINE T == {p \in S : p[1] = x}
  <1>2. PICK y \in {p[2] : p \in T} : \A z \in {p[2] : p \in T} : y <= z
    <2>1. {p[2] : p \in T} \in SUBSET Nat /\ {p[2] : p \in T} # {}
      BY <1>0, <1>1
    <2> QED BY <2>1, Least
  <1>3. PICK p \in S : p[1] = x /\ p[2] = y
    BY <1>2
  <1>4. ASSUME NEW q \in S PROVE Precedes(p, q)
    <2>1. x <= q[1] /\ x \in Nat /\ q[1] \in Nat
      BY <1>0, <1>1
    <2>2. q[1] = x => y <= q[2]
      BY <1>2
    <2> QED BY <1>3, <2>1, <2>2 DEF Precedes
  <1> QED BY <1>3, <1>4 DEF First

\* The order of vnodes is total: two firsts are one.
LEMMA FirstIsOne ==
    ASSUME NEW S \in SUBSET (Nat \X Nat), NEW p \in S, \A q \in S : Precedes(p, q)
    PROVE  First(S) = p
  <1> DEFINE f == First(S)
  <1>1. f \in S /\ Precedes(f, p)
    BY FirstIsThere
  <1>2. Precedes(p, f)
    BY <1>1
  <1> HIDE DEF f
  <1>3. /\ f[1] \in Nat /\ f[2] \in Nat /\ f = <<f[1], f[2]>>
        /\ p[1] \in Nat /\ p[2] \in Nat /\ p = <<p[1], p[2]>>
    BY <1>1
  <1>4. f[1] = p[1] /\ f[2] = p[2]
    BY <1>1, <1>2, <1>3 DEF Precedes
  <1>5. f = p
    BY <1>3, <1>4
  <1> QED BY <1>5 DEF f

\* A ring of some nodes has vnodes, and each is of a node it was built of.
LEMMA VnodesOf ==
    ASSUME NEW ids \in SUBSET Nodes
    PROVE  /\ Vnodes(ids) \in SUBSET (Nat \X Nat)
           /\ \A p \in Vnodes(ids) : p[2] \in ids
           /\ \A p : p \in Vnodes(ids) <=> \E n \in ids : \E h \in VHash[n] : p = <<h, n>>
           /\ ids # {} => Vnodes(ids) # {}
  <1>1. \A p : p \in Vnodes(ids) <=> \E n \in ids : \E h \in VHash[n] : p = <<h, n>>
    BY DEF Vnodes
  <1>2. \A n \in ids : n \in Nat /\ VHash[n] \in SUBSET Nat /\ VHash[n] # {}
    BY NodesAssumption, HashAssumption
  <1>3. ids # {} => Vnodes(ids) # {}
    BY <1>1, <1>2
  <1>4. Vnodes(ids) \in SUBSET (Nat \X Nat) /\ \A p \in Vnodes(ids) : p[2] \in ids
    BY <1>1, <1>2
  <1> QED BY <1>1, <1>3, <1>4

\* The vnodes the search is made among.
Ahead(ids, h) == {p \in Vnodes(ids) : p[1] >= h}
Searched(ids, h) == IF Ahead(ids, h) = {} THEN Vnodes(ids) ELSE Ahead(ids, h)

\* The owner of a key is a node of the ring: that of the first vnode searched.
LEMMA OwnerIsThere ==
    ASSUME NEW ids \in SUBSET Nodes, ids # {}, NEW h \in Nat
    PROVE  /\ Searched(ids, h) \in SUBSET (Nat \X Nat) /\ Searched(ids, h) # {}
           /\ Searched(ids, h) \subseteq Vnodes(ids)
           /\ Owner(ids, h) = First(Searched(ids, h))[2]
           /\ Owner(ids, h) \in ids
  <1>1. /\ Searched(ids, h) \in SUBSET (Nat \X Nat) /\ Searched(ids, h) # {}
        /\ Searched(ids, h) \subseteq Vnodes(ids)
    BY VnodesOf DEF Searched, Ahead
  <1>2. Owner(ids, h) = First(Searched(ids, h))[2]
    BY DEF Owner, Searched, Ahead
  <1>3. First(Searched(ids, h)) \in Vnodes(ids)
    BY <1>1, FirstIsThere
  <1> QED BY <1>1, <1>2, <1>3, VnodesOf

\* Nodes that leave the ring move only the keys they owned.
LEMMA OwnerStays ==
    ASSUME NEW C \in SUBSET Nodes, NEW D \in SUBSET C, NEW h \in Nat, Owner(C, h) \in D
    PROVE  Owner(D, h) = Owner(C, h)
  <1> DEFINE p == First(Searched(C, h))
  <1>1. /\ Searched(C, h) \in SUBSET (Nat \X Nat) /\ Searched(C, h) # {}
        /\ Searched(C, h) \subseteq Vnodes(C) /\ Owner(C, h) = p[2]
    BY OwnerIsThere
  <1>2. /\ Searched(D, h) \in SUBSET (Nat \X Nat)
        /\ Owner(D, h) = First(Searched(D, h))[2]
    BY OwnerIsThere
  <1>3. p \in Searched(C, h) /\ \A q \in Searched(C, h) : Precedes(p, q)
    BY <1>1, FirstIsThere
  <1> HIDE DEF p
  <1>4. Vnodes(D) \subseteq Vnodes(C)
    BY VnodesOf
  <1>5. p \in Vnodes(D)
    <2>1. PICK n \in C : \E x \in VHash[n] : p = <<x, n>>
      BY <1>1, <1>3, VnodesOf
    <2> QED BY <1>1, <2>1, VnodesOf
  <1>6. p \in Searched(D, h) /\ Searched(D, h) \subseteq Searched(C, h)
    BY <1>3, <1>4, <1>5 DEF Searched, Ahead
  <1>7. First(Searched(D, h)) = p
    BY <1>2, <1>3, <1>6, FirstIsOne
  <1> QED BY <1>1, <1>2, <1>7

-----------------------------------------------------------------------------
(* The turns of RoundRobin.                                                *)

\* s are the latest picks out of ids, at the counter r: at most one round of
\* them, each the node of its turn.
Fits(s, ids, r) ==
    /\ s \in Seq(ids)
    /\ Len(s) <= Cardinality(ids) /\ Len(s) <= r
    /\ \A i \in 1..Len(s) : Rank(ids, s[i]) = (r - Len(s) + i - 1) % Cardinality(ids)

\* The picks of one round are of different nodes.
LEMMA FitsSpreads ==
    ASSUME NEW ids \in SUBSET Nat, IsFiniteSet(ids), NEW s, NEW r \in Nat, Fits(s, ids, r)
    PROVE  \A i, j \in DOMAIN s : i # j => s[i] # s[j]
  <1> DEFINE c == Cardinality(ids)
             turn(i) == r - Len(s) + i - 1
  <1>1. c \in Nat /\ Len(s) \in Nat /\ DOMAIN s = 1..Len(s)
    BY FS_CardinalityType DEF Fits
  <1>2. ASSUME NEW i \in 1..Len(s), NEW j \in 1..Len(s), i < j PROVE s[i] # s[j]
    <2>1. Len(s) <= c /\ Len(s) <= r
      BY DEF Fits
    <2> HIDE DEF c
    <2>2. /\ c \in Nat \ {0} /\ turn(i) \in Nat /\ turn(j) \in Nat
          /\ turn(i) < turn(j) /\ turn(j) - turn(i) < c
      BY <1>1, <1>2, <2>1
    <2> HIDE DEF turn
    <2>3. turn(i) % c # turn(j) % c
      BY <2>2, Residues
    <2> QED BY <2>3 DEF Fits, turn, c
  <1>3. ASSUME NEW i \in 1..Len(s), NEW j \in 1..Len(s), i # j PROVE i < j \/ j < i
    BY <1>1, <1>3
  <1> QED BY <1>1, <1>2, <1>3

\* No picks yet; and the oldest forgotten.
LEMMA FitsFewer ==
    ASSUME NEW ids \in SUBSET Nat, IsFiniteSet(ids), NEW r \in Nat
    PROVE  /\ Fits(<<>>, ids, r) /\ Len(<<>>) = 0
           /\ \A s : Fits(s, ids, r) /\ s # <<>> =>
                Fits(Tail(s), ids, r) /\ Len(Tail(s)) = Len(s) - 1
  <1>0. Cardinality(ids) \in Nat
    BY FS_CardinalityType
  <1>1. Fits(<<>>, ids, r) /\ Len(<<>>) = 0
    BY <1>0 DEF Fits
  <1>2. ASSUME NEW s, Fits(s, ids, r), s # <<>>
        PROVE  Fits(Tail(s), ids, r) /\ Len(Tail(s)) = Len(s) - 1
    <2>1. /\ Len(s) \in Nat /\ Len(s) > 0 /\ Tail(s) \in Seq(ids)
          /\ Len(Tail(s)) = Len(s) - 1
          /\ \A i \in 1..(Len(s) - 1) : Tail(s)[i] = s[i + 1]
      BY <1>2 DEF Fits
    <2>2. ASSUME NEW i \in 1..(Len(s) - 1)
          PROVE  Rank(ids, Tail(s)[i]) = (r - Len(Tail(s)) + i - 1) % Cardinality(ids)
      <3>1. i + 1 \in 1..Len(s)
        BY <2>1
      <3>2. r - Len(Tail(s)) + i - 1 = r - Len(s) + (i + 1) - 1
        BY <2>1
      <3> QED BY <1>2, <2>1, <3>1, <3>2 DEF Fits
    <2> QED BY <1>0, <1>2, <2>1, <2>2 DEF Fits
  <1> QED BY <1>1, <1>2

\* The next pick.
LEMMA FitsMore ==
    ASSUME NEW ids \in SUBSET Nat, IsFiniteSet(ids), ids # {}, NEW r \in Nat,
           NEW s, Fits(s, ids, r), Len(s) < Cardinality(ids)
    PROVE  /\ Nth(ids, r % Cardinality(ids)) \in ids
           /\ Fits(Append(s, Nth(ids, r % Cardinality(ids))), ids, r + 1)
  <1> DEFINE c == Cardinality(ids)
             n == Nth(ids, r % c)
             t == Append(s, n)
  <1>0. c \in Nat \ {0}
    BY FS_CardinalityType, FS_EmptySet
  <1>1. r % c \in 0..(c - 1)
    BY <1>0, Residue
  <1>2. n \in ids /\ Rank(ids, n) = r % c
    BY <1>1, NthIsThere
  <1> HIDE DEF n
  <1>3. /\ Len(s) \in Nat /\ t \in Seq(ids) /\ Len(t) = Len(s) + 1
        /\ \A i \in 1..Len(s) : t[i] = s[i]
        /\ t[Len(s) + 1] = n
    BY <1>2 DEF Fits
  <1> HIDE DEF t
  <1>4. ASSUME NEW i \in 1..Len(t)
        PROVE  Rank(ids, t[i]) = (r + 1 - Len(t) + i - 1) % Cardinality(ids)
    <2>1. CASE i \in 1..Len(s)
      <3>1. r + 1 - Len(t) + i - 1 = r - Len(s) + i - 1
        BY <1>3
      <3> QED BY <1>3, <2>1, <3>1 DEF Fits
    <2>2. CASE i = Len(s) + 1
      <3>1. r + 1 - Len(t) + i - 1 = r
        BY <1>3, <2>2
      <3> QED BY <1>2, <1>3, <2>2, <3>1
    <2> QED BY <1>3, <2>1, <2>2
  <1>5. Len(t) <= Cardinality(ids) /\ Len(t) <= r + 1
    BY <1>0, <1>3 DEF Fits
  <1>6. Fits(t, ids, r + 1)
    BY <1>3, <1>4, <1>5 DEF Fits
  <1> QED BY <1>2, <1>6 DEF t, n

-----------------------------------------------------------------------------
(* The inductive invariant, in named parts.                                *)

\* A caller that listed has candidates, finitely many.
Candidates ==
    /\ IsFiniteSet(active)
    /\ \A c \in Callers :
         IsFiniteSet(DOMAIN cand[c]) /\ (pc[c] # "idle" => DOMAIN cand[c] # {})

\* A node that was given is a candidate, with the hash the owner of the key.
Chosen ==
    \A c \in Callers : pc[c] = "done" =>
        /\ picked[c].id \in DOMAIN cand[c]
        /\ strategy = "consistent_hash" =>
             picked[c].id = Owner(DOMAIN cand[c], KHash[key[c]])

\* The latest picks of RoundRobin are those of its counter.
Turns == IsFiniteSet(turns.ids) /\ Fits(turns.seq, turns.ids, rr)

IInv == TypeOK /\ Candidates /\ Chosen /\ Turns

\* What the type of a candidate list says.
LEMMA RingsAre ==
    /\ \A f \in Rings : DOMAIN f \in SUBSET Nodes /\ f \in [DOMAIN f -> Addrs]
    /\ \A S \in SUBSET Nodes : \A f \in [S -> Addrs] : f \in Rings
  BY DEF Rings

\* The invariant holds at the start.
LEMMA InitIInv == Init => IInv
  <1> SUFFICES ASSUME Init PROVE IInv
    OBVIOUS
  <1>0. None \in Rings /\ DOMAIN None = {} /\ None \in [{} -> Addrs]
    BY RingsAre DEF None
  <1>1. TypeOK
    <2>1. turns \in [ids : SUBSET Nodes, seq : Seq(Nodes)]
      BY DEF Init
    <2> QED BY <1>0, <2>1, PicksAssumption DEF Init, TypeOK
  <1>2. Candidates /\ Chosen
    <2>1. IsFiniteSet({})
      BY FS_EmptySet
    <2> QED BY <1>0, <2>1 DEF Init, Candidates, Chosen
  <1>3. Turns
    <2>1. turns.ids = {} /\ turns.seq = <<>> /\ rr = 0 /\ IsFiniteSet({})
      BY FS_EmptySet DEF Init
    <2>2. Fits(<<>>, {}, 0)
      BY <2>1, FitsFewer
    <2> QED BY <2>1, <2>2 DEF Turns
  <1> QED BY <1>1, <1>2, <1>3 DEF IInv

\* The registry moves nothing of the router's.
LEMMA RegistryStep == IInv /\ RegistryNext => IInv'
  <1> SUFFICES ASSUME IInv, NEW n \in Nodes,
                      (\E a \in Addrs : Register(n, a)) \/ Activate(n) \/ Deactivate(n)
               PROVE  IInv'
    BY DEF RegistryNext
  <1>1. UNCHANGED <<strategy, cand, key, pc, picked, cachedFP, ring, rr, turns>>
    BY DEF Register, Activate, Deactivate, hashVars, rrVars
  <1>2. active' \in {active \ {n}, active \cup {n}} /\ addr' \in [Nodes -> Addrs]
    BY DEF Register, Activate, Deactivate, IInv, TypeOK
  <1>3. IsFiniteSet(active')
    BY <1>2, FS_AddElement, FS_RemoveElement DEF IInv, Candidates
  <1>4. TypeOK'
    BY <1>1, <1>2 DEF IInv, TypeOK
  <1>5. Candidates' /\ Chosen' /\ Turns'
    BY <1>1, <1>3 DEF IInv, Candidates, Chosen, Turns
  <1> QED BY <1>4, <1>5 DEF IInv

\* A call takes its snapshot.
LEMMA ListStep ==
    ASSUME IInv, NEW c \in Callers, NEW k \in Keys, NEW m \in Msgs, NEW exclude,
           List(c, k, m, exclude)
    PROVE  IInv'
  <1> DEFINE ids == {n \in active : m \in Serves[n]} \ exclude
             f == [n \in ids |-> addr[n]]
  <1>t. TypeOK /\ ids \in SUBSET active /\ ids \in SUBSET Nodes
    BY DEF IInv, TypeOK
  <1>r. /\ key' = [key EXCEPT ![c] = k] /\ cand' = [cand EXCEPT ![c] = f]
        /\ pc' = [pc EXCEPT ![c] = IF ids = {} THEN "idle" ELSE "listed"]
        /\ picked' = [picked EXCEPT ![c] = NoPick]
        /\ UNCHANGED <<strategy, active, addr, cachedFP, ring, rr, turns>>
    BY DEF List, hashVars, rrVars
  <1> HIDE DEF ids
  <1>f. f \in [ids -> Addrs] /\ f \in Rings /\ DOMAIN f = ids /\ IsFiniteSet(ids)
    <2>1. f \in [ids -> Addrs] /\ DOMAIN f = ids
      BY <1>t DEF TypeOK
    <2>2. IsFiniteSet(ids)
      BY <1>t, FS_Subset DEF IInv, Candidates
    <2> QED BY <1>t, <2>1, <2>2, RingsAre
  <1> HIDE DEF f
  <1>1. TypeOK'
    BY <1>t, <1>r, <1>f DEF TypeOK
  <1>2. /\ cand'[c] = f /\ pc'[c] = (IF ids = {} THEN "idle" ELSE "listed")
        /\ \A d \in Callers \ {c} : cand'[d] = cand[d] /\ pc'[d] = pc[d]
                                      /\ picked'[d] = picked[d] /\ key'[d] = key[d]
    BY <1>t, <1>r DEF TypeOK
  <1>3. Candidates'
    BY <1>r, <1>f, <1>2 DEF IInv, Candidates
  <1>4. Chosen'
    BY <1>r, <1>2 DEF IInv, Chosen
  <1>5. Turns'
    BY <1>r DEF IInv, Turns
  <1> QED BY <1>1, <1>3, <1>4, <1>5 DEF IInv

\* What a selection that gives a caller one of its candidates keeps.
LEMMA PickKeeps ==
    ASSUME IInv, NEW c \in Callers, pc[c] = "listed", NEW n \in DOMAIN cand[c],
           NEW a \in Addrs, Pick(c, n, a),
           strategy = "consistent_hash" => n = Owner(DOMAIN cand[c], KHash[key[c]]),
           UNCHANGED <<strategy, active, addr, cand, key>>
    PROVE  /\ pc' \in [Callers -> {"idle", "listed", "done"}]
           /\ picked' \in [Callers -> [id : Nodes, addr : Addrs] \cup {NoPick}]
           /\ Candidates' /\ Chosen'
  <1>t. TypeOK
    BY DEF IInv
  <1>0. n \in Nodes
    BY <1>t, RingsAre DEF TypeOK
  <1>r. /\ picked' = [picked EXCEPT ![c] = [id |-> n, addr |-> a]]
        /\ pc' = [pc EXCEPT ![c] = "done"]
    BY DEF Pick
  <1>1. pc' \in [Callers -> {"idle", "listed", "done"}]
    BY <1>t, <1>r DEF TypeOK
  <1>2. picked' \in [Callers -> [id : Nodes, addr : Addrs] \cup {NoPick}]
    BY <1>t, <1>r, <1>0 DEF TypeOK
  <1>3. /\ picked'[c] = [id |-> n, addr |-> a] /\ pc'[c] = "done"
        /\ \A d \in Callers \ {c} : picked'[d] = picked[d] /\ pc'[d] = pc[d]
    BY <1>t, <1>r DEF TypeOK
  <1>4. Candidates'
    BY <1>3 DEF IInv, Candidates
  <1>5. Chosen'
    <2>1. picked'[c].id = n
      BY <1>3
    <2> QED BY <1>3, <2>1 DEF IInv, Chosen
  <1> QED BY <1>1, <1>2, <1>4, <1>5

\* ConsistentHash.Select: the ring it searches is one of its own candidates,
\* built by itself or by a caller that saw the same ids.
LEMMA SelectHashStep ==
    ASSUME IInv, NEW c \in Callers, SelectHash(c)
    PROVE  IInv'
  <1> DEFINE ids == DOMAIN cand[c]
             r == IF ids = cachedFP THEN ring ELSE cand[c]
             n == Owner(DOMAIN r, KHash[key[c]])
  <1>t. TypeOK /\ pc[c] = "listed"
    BY DEF IInv, SelectHash
  <1>r. /\ ring' = r /\ cachedFP' = ids /\ Pick(c, n, r[n])
        /\ UNCHANGED <<strategy, active, addr, cand, key, rr, turns>>
    BY DEF SelectHash, rrVars
  <1>1. /\ ids \in SUBSET Nodes /\ cand[c] \in [ids -> Addrs] /\ ids # {}
    BY <1>t, RingsAre DEF TypeOK, IInv, Candidates
  <1>2. r \in [ids -> Addrs] /\ DOMAIN r = ids
    BY <1>t, <1>1 DEF TypeOK
  <1> HIDE DEF r
  <1>3. KHash[key[c]] \in Nat
    BY <1>t, HashAssumption DEF TypeOK
  <1>4. n \in ids /\ n = Owner(ids, KHash[key[c]])
    BY <1>1, <1>2, <1>3, OwnerIsThere
  <1> HIDE DEF n
  <1>5. r[n] \in Addrs
    BY <1>2, <1>4
  <1>6. /\ pc' \in [Callers -> {"idle", "listed", "done"}]
        /\ picked' \in [Callers -> [id : Nodes, addr : Addrs] \cup {NoPick}]
        /\ Candidates' /\ Chosen'
    BY <1>t, <1>r, <1>4, <1>5, PickKeeps
  <1>7. TypeOK'
    BY <1>t, <1>r, <1>1, <1>2, <1>6 DEF TypeOK
  <1>8. Turns'
    BY <1>r DEF IInv, Turns
  <1> QED BY <1>6, <1>7, <1>8 DEF IInv

\* RoundRobin.Select: the node whose turn it is.
LEMMA SelectRoundRobinStep ==
    ASSUME IInv, NEW c \in Callers, SelectRoundRobin(c)
    PROVE  IInv'
  <1> DEFINE ids == DOMAIN cand[c]
             n == Nth(ids, rr % Cardinality(ids))
             old == IF turns.ids = ids THEN turns.seq ELSE <<>>
             kept == IF Len(old) < Cardinality(ids) THEN old ELSE Tail(old)
  <1>t. TypeOK /\ pc[c] = "listed" /\ strategy = "round_robin"
    BY DEF IInv, SelectRoundRobin
  <1>r. /\ rr' = rr + 1 /\ rr < MaxPicks /\ Pick(c, n, cand[c][n])
        /\ turns' = [ids |-> ids, seq |-> Append(kept, n)]
        /\ UNCHANGED <<strategy, active, addr, cand, key, cachedFP, ring>>
    BY DEF SelectRoundRobin, Note, hashVars
  <1>1. /\ ids \in SUBSET Nodes /\ cand[c] \in [ids -> Addrs] /\ ids # {}
        /\ IsFiniteSet(ids)
    BY <1>t, RingsAre DEF TypeOK, IInv, Candidates
  <1>2. ids \in SUBSET Nat /\ rr \in Nat /\ Cardinality(ids) \in Nat /\ Cardinality(ids) # 0
    BY <1>t, <1>1, NodesAssumption, PicksAssumption, FS_CardinalityType, FS_EmptySet
       DEF TypeOK
  <1>3. Fits(old, ids, rr)
    BY <1>1, <1>2, FitsFewer DEF IInv, Turns
  <1> HIDE DEF old, ids
  <1>4. Fits(kept, ids, rr) /\ Len(kept) < Cardinality(ids)
    <2>1. Len(old) \in Nat /\ Len(old) <= Cardinality(ids)
      BY <1>3 DEF Fits
    <2>2. CASE Len(old) < Cardinality(ids)
      BY <1>3, <2>2
    <2>3. CASE ~(Len(old) < Cardinality(ids))
      <3>1. Len(old) = Cardinality(ids) /\ old # <<>>
        BY <1>2, <2>1, <2>3, FitsFewer
      <3>2. Fits(Tail(old), ids, rr) /\ Len(Tail(old)) = Len(old) - 1
        BY <1>1, <1>2, <1>3, <3>1, FitsFewer
      <3>3. kept = Tail(old)
        BY <2>3
      <3> QED BY <1>2, <3>1, <3>2, <3>3
    <2> QED BY <2>2, <2>3
  <1> HIDE DEF kept
  <1>5. n \in ids /\ Fits(Append(kept, n), ids, rr + 1)
    BY <1>1, <1>2, <1>4, FitsMore
  <1> HIDE DEF n
  <1>6. cand[c][n] \in Addrs
    BY <1>1, <1>5
  <1>7. /\ pc' \in [Callers -> {"idle", "listed", "done"}]
        /\ picked' \in [Callers -> [id : Nodes, addr : Addrs] \cup {NoPick}]
        /\ Candidates' /\ Chosen'
    BY <1>t, <1>r, <1>5, <1>6, PickKeeps DEF ids
  <1>8. turns'.ids = ids /\ turns'.seq = Append(kept, n)
    BY <1>r
  <1>9. Turns'
    BY <1>r, <1>1, <1>5, <1>8 DEF Turns
  <1>10. TypeOK'
    <2>1. Append(kept, n) \in Seq(Nodes)
      <3>1. Append(kept, n) \in Seq(ids)
        BY <1>5 DEF Fits
      <3> QED BY <1>1, <3>1
    <2>2. turns' \in [ids : SUBSET Nodes, seq : Seq(Nodes)]
      BY <1>r, <1>1, <2>1
    <2>3. rr' \in 0..MaxPicks
      BY <1>r, <1>2, PicksAssumption
    <2> QED BY <1>t, <1>r, <1>7, <2>2, <2>3 DEF TypeOK
  <1> QED BY <1>7, <1>9, <1>10 DEF IInv

\* Every step keeps the invariant.
LEMMA StepIInv == IInv /\ [Next]_vars => IInv'
  <1> SUFFICES ASSUME IInv, [Next]_vars PROVE IInv'
    OBVIOUS
  <1>1. CASE RegistryNext
    BY <1>1, RegistryStep
  <1>2. CASE CallerNext
    BY <1>2, ListStep, SelectHashStep, SelectRoundRobinStep DEF CallerNext
  <1>3. CASE UNCHANGED vars
    BY <1>3 DEF vars, hashVars, rrVars, IInv, TypeOK, Candidates, Chosen, Turns
  <1> QED BY <1>1, <1>2, <1>3 DEF Next

-----------------------------------------------------------------------------
(* The theorems.                                                           *)

\* The inductive invariant holds in every reachable state.
THEOREM InvariantHolds == Spec => []IInv
  <1> QED BY InitIInv, StepIInv, PTL DEF Spec

\* Every variable keeps its type; the cached ring is always that of cachedFP.
THEOREM TypeCorrect == Spec => []TypeOK
  <1>1. IInv => TypeOK
    BY DEF IInv
  <1> QED BY <1>1, InvariantHolds, PTL

\* RouteExcluding gives a call a node of the call's own snapshot, whatever ring
\* another caller left in the cache.
THEOREM PicksItsCandidate == Spec => []PicksCandidate
  <1>1. IInv => PicksCandidate
    BY DEF IInv, Chosen, PicksCandidate
  <1> QED BY <1>1, InvariantHolds, PTL

\* Consistent hashing keeps sessions where they are: of two calls with one key
\* the one with fewer candidates is given the other's node if it is among them.
THEOREM SessionsStick == Spec => []MinimalDisruption
  <1>1. ASSUME IInv PROVE MinimalDisruption
    <2> SUFFICES ASSUME NEW c \in Callers, NEW d \in Callers,
                        strategy = "consistent_hash", pc[c] = "done", pc[d] = "done",
                        key[c] = key[d], DOMAIN cand[d] \subseteq DOMAIN cand[c],
                        picked[c].id \in DOMAIN cand[d]
                 PROVE  picked[d].id = picked[c].id
      BY DEF MinimalDisruption
    <2>1. DOMAIN cand[c] \in SUBSET Nodes /\ KHash[key[c]] \in Nat
      BY <1>1, RingsAre, HashAssumption DEF IInv, TypeOK
    <2>2. /\ picked[c].id = Owner(DOMAIN cand[c], KHash[key[c]])
          /\ picked[d].id = Owner(DOMAIN cand[d], KHash[key[c]])
      BY <1>1 DEF IInv, Chosen
    <2> QED BY <2>1, <2>2, OwnerStays
  <1> QED BY <1>1, InvariantHolds, PTL

\* RoundRobin gives every node of an unchanging candidate set a turn before any
\* has two, whichever callers take them.
THEOREM SpreadsEvenly == Spec => []RoundRobinSpreads
  <1>1. ASSUME IInv PROVE RoundRobinSpreads
    <2>1. turns.ids \in SUBSET Nat /\ rr \in Nat
      <3>1. turns \in [ids : SUBSET Nodes, seq : Seq(Nodes)] /\ rr \in 0..MaxPicks
        BY <1>1 DEF IInv, TypeOK
      <3>2. turns.ids \in SUBSET Nodes
        BY <3>1
      <3>3. rr \in Nat
        BY <3>1, PicksAssumption
      <3> QED BY <3>2, <3>3, NodesAssumption
    <2>2. IsFiniteSet(turns.ids) /\ Fits(turns.seq, turns.ids, rr)
      BY <1>1 DEF IInv, Turns
    <2>3. \A i, j \in DOMAIN turns.seq : i # j => turns.seq[i] # turns.seq[j]
      BY <2>1, <2>2, FitsSpreads
    <2> QED BY <2>3 DEF RoundRobinSpreads
  <1> QED BY <1>1, InvariantHolds, PTL
=============================================================================
