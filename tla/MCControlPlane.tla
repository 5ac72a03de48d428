--------------------------- MODULE MCControlPlane ---------------------------
(* Instances of ControlPlane for TLC: processes that share one node id,     *)
(* which is the Master's or not.                                            *)
EXTENDS ControlPlane

CONSTANTS n1, m1

MCNodeOf == [p \in Procs |-> n1]
MCOwnIds == {n1, m1}
=============================================================================
