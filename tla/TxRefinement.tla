---------------------------- MODULE TxRefinement ----------------------------
(***************************************************************************)
(* TxManager implements TxTable as long as no waiter is recycled under a   *)
(* delivery.  A transaction is open from the insertion into the map until  *)
(* its call returns; it has its result from the moment tryDeliver sets     *)
(* done, first in the hands of the goroutine that delivers, then in the    *)
(* channel, then in the Wait that received it.                             *)
(***************************************************************************)
EXTENDS TxManager

InFlight == {r \in Requesters : pc[r] \notin {"idle", "acquire"}}

Given(r) ==
    ({got[r], ch[at[r]]}
       \cup {val[t] : t \in {u \in Threads : pc[u] = "send" /\ at[u] = at[r]}})
      \ {NoResult}

Answer(i) == [kind |-> "response", id |-> i]

Table == INSTANCE TxTable WITH
    Errors <- {Failure("ctx"), Failure("canceled")},
    Closed <- Failure("closed"),
    used <- (1..nextID) \ {txn[r] : r \in {q \in Requesters : pc[q] = "acquire"}},
    open <- {txn[r] : r \in InFlight},
    settled <- UNION {{<<txn[r], x>> : x \in Given(r)} : r \in InFlight}

\* Until a waiter is recycled under a delivery every step of the Manager is a
\* step of the table, or none: no id is handed out twice, no transaction gets
\* a second result or the result of another, none ends without its result
\* unless Close came, whatever requests, late and repeated responses, timeouts
\* and Close do to waiters they share through the pool.
ImplementsTable ==
    Table!Init /\ [][~raced' => [Table!Next]_(Table!vars)]_vars
=============================================================================
