---------------------------- MODULE MCCommObject ----------------------------
(* Two domains da and db, exchanged by thread t1 of rank 1, have domain dc   *)
(* of rank 2 as their neighbour in pattern A; pattern B joins db and dc only. *)
(* Fields f (bound to A) and g (to B) share calls, in both orders; field h    *)
(* (to B) is exchanged with another object while the first is open.           *)
(* The definitions that end in Threads give db to a thread of its own, t3,    *)
(* and exchange f and then g in two calls on every thread.                    *)
EXTENDS CommObject, TLC

CONSTANTS t1, t2, t3, da, db, dc, A, B, f, g, h, x1, x2, x3, y1, y2

MCRankOf == t1 :> 1 @@ t3 :> 1 @@ t2 :> 2
MCOwnerOf == da :> t1 @@ db :> t1 @@ dc :> t2
MCHalosOf == A :> {<<da, dc>>, <<db, dc>>, <<dc, da>>, <<dc, db>>} @@ B :> {<<db, dc>>, <<dc, db>>}
MCTagOf == A :> (<<da, dc>> :> 0 @@ <<db, dc>> :> 1 @@ <<dc, da>> :> 0 @@ <<dc, db>> :> 1)
           @@ B :> (<<db, dc>> :> 0 @@ <<dc, db>> :> 0)
MCMaxTagOf == A :> 1 @@ B :> 0
MCPatternOf == f :> A @@ g :> B @@ h :> B
MCThreadOf == x1 :> t1 @@ y1 :> t1 @@ x2 :> t2 @@ y2 :> t2 @@ x3 :> t3
MCProgram ==
  t1 :> << [co |-> x1, args |-> << <<f, da>>, <<f, db>>, <<g, db>> >>],
           [co |-> y1, args |-> << <<h, db>> >>],
           [co |-> x1, args |-> << <<g, db>>, <<f, da>>, <<f, db>> >>] >>
  @@ t2 :> << [co |-> x2, args |-> << <<f, dc>>, <<g, dc>> >>],
              [co |-> y2, args |-> << <<h, dc>> >>],
              [co |-> x2, args |-> << <<g, dc>>, <<f, dc>> >>] >>

MCOwnerOfThreads == da :> t1 @@ db :> t3 @@ dc :> t2
MCProgramThreads ==
  t1 :> << [co |-> x1, args |-> << <<f, da>> >>] >>
  @@ t3 :> << [co |-> x3, args |-> << <<f, db>> >>], [co |-> x3, args |-> << <<g, db>> >>] >>
  @@ t2 :> << [co |-> x2, args |-> << <<f, dc>> >>], [co |-> x2, args |-> << <<g, dc>> >>] >>

\* With one thread per rank the programs fit.
ASSUME (\A s, t \in Threads : RankOf[s] = RankOf[t] => s = t) => ProgramsFit
=============================================================================
