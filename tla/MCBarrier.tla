------------------------------ MODULE MCBarrier ------------------------------
(* Two ranks, two threads on the first and one or two on the second; calls   *)
(* of both kinds, an in_node call between two operator() calls.              *)
EXTENDS Barrier, TLC

CONSTANTS r1, r2, t1, t2, t3, t4

MCRankOf3 == t1 :> r1 @@ t2 :> r1 @@ t3 :> r2
MCRankOf4 == t1 :> r1 @@ t2 :> r1 @@ t3 :> r1 @@ t4 :> r2
=============================================================================
