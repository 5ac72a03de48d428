------------------------------ MODULE MCRouter ------------------------------
(* Instances of Router for TLC: positions that interleave, with a virtual   *)
(* node of every node on both sides of a key and two that coincide.         *)
EXTENDS Router, TLC

MCVHash == 1 :> {1, 6} @@ 2 :> {3, 6} @@ 3 :> {2, 5}
MCKHash == "k1" :> 2 @@ "k2" :> 7

\* Node 3 serves one of the two messages only.
MCServes == 1 :> {"m1", "m2"} @@ 2 :> {"m1", "m2"} @@ 3 :> {"m1"}
=============================================================================
