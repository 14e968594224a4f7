--------------------------- MODULE MCBulkExchange ---------------------------
(* Three communication objects: a and b share memory and exchange halos both *)
(* ways, a may also fill a halo of its own (a periodic domain), c is on      *)
(* another node and gets a halo from b in messages.                          *)
EXTENDS BulkExchange, TLC

CONSTANTS a, b, c, aa, ab, ba, bc

MCSrc == [l \in Links |-> (aa :> a @@ ab :> a @@ ba :> b @@ bc :> b)[l]]
MCDst == [l \in Links |-> (aa :> a @@ ab :> b @@ ba :> a @@ bc :> c)[l]]
=============================================================================
