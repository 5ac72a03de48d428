---------------------------- MODULE MCTxManager ----------------------------
(***************************************************************************)
(* TxManager for TLC: goroutines of one kind, and waiters, are alike.      *)
(***************************************************************************)
EXTENDS TxRefinement, TLC

Symmetry == Permutations(Requesters) \cup Permutations(Workers)
            \cup Permutations(Slots)
=============================================================================
