---------------------------- MODULE AccessEpochs ----------------------------
(***************************************************************************)
(* What an access guard promises (access_guard.hpp:26-35, 92-100): the     *)
(* owner of a halo (the target) and its source take turns in accessing it, *)
(* and neither enters before the other has handed the halo over.           *)
(***************************************************************************)
VARIABLES turn,   \* whose epoch may start next
          inside  \* the party in its epoch, or "nobody"

vars == <<turn, inside>>

Other(p) == IF p = "target" THEN "source" ELSE "target"

\* The halo is created in the hands of the source.
Init == turn = "source" /\ inside = "source"

Start(p) == turn = p /\ inside = "nobody" /\ inside' = p /\ UNCHANGED turn

End(p) == inside = p /\ inside' = "nobody" /\ turn' = Other(p)

Next == \E p \in {"target", "source"} : Start(p) \/ End(p)

Spec == Init /\ [][Next]_vars
=============================================================================
