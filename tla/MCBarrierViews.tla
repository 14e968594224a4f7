--------------------------- MODULE MCBarrierViews ---------------------------
(* One rank with three threads and a single in_node call: enough for a       *)
(* thread that is neither the first nor the second leader.                   *)
EXTENDS BarrierViews

CONSTANTS r1

MCRankOf == [t \in Threads |-> r1]
=============================================================================
