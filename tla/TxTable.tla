------------------------------ MODULE TxTable ------------------------------
(***************************************************************************)
(* What transaction.Manager promises its callers, without waiters, pool,   *)
(* locks or channels: an id is handed out once; an open transaction gets   *)
(* one result, the first that comes, which is an answer to that very id or *)
(* an error of the manager; it ends when its result has been taken, or     *)
(* when the manager is closed; and nothing is opened after Close.          *)
(***************************************************************************)
CONSTANTS Ids,        \* transaction ids
          Answer(_),  \* the answer of a peer to each
          Errors,     \* the errors of a context that ended and of Cancel
          Closed      \* ErrManagerClosed

VARIABLES closed,     \* Close was called
          used,       \* ids handed out
          open,       \* transactions in flight
          settled     \* pairs <<id, result>> of those that have their result

vars == <<closed, used, open, settled>>

Init == closed = FALSE /\ used = {} /\ open = {} /\ settled = {}

HasResult(i) == \E p \in settled : p[1] = i

Create(i) ==
    /\ ~closed /\ i \notin used
    /\ used' = used \cup {i}
    /\ open' = open \cup {i}
    /\ UNCHANGED <<closed, settled>>

\* Complete, Fail, the end of a Wait's context, Cancel, Close.
Settle(i, x) ==
    /\ i \in open /\ ~HasResult(i)
    /\ x = Closed => closed
    /\ settled' = settled \cup {<<i, x>>}
    /\ UNCHANGED <<closed, used, open>>

End(i) ==
    /\ i \in open /\ (HasResult(i) \/ closed)
    /\ open' = open \ {i}
    /\ settled' = {p \in settled : p[1] # i}
    /\ UNCHANGED <<closed, used>>

Close ==
    /\ ~closed /\ closed' = TRUE
    /\ UNCHANGED <<used, open, settled>>

Next ==
    \/ \E i \in Ids :
         \/ Create(i) \/ End(i)
         \/ \E x \in {Answer(i), Closed} \cup Errors : Settle(i, x)
    \/ Close

Spec == Init /\ [][Next]_vars
=============================================================================
