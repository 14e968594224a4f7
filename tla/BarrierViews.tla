---------------------------- MODULE BarrierViews ----------------------------
(***************************************************************************)
(* What a thread may read after the barrier: Barrier with the happens-     *)
(* before relation of the C++ memory model.  The counters are incremented  *)
(* and decremented with memory_order_relaxed (barrier.hpp:125, 141); their *)
(* loads acquire and their stores release (the default order).  A relaxed  *)
(* read-modify-write continues the release sequence of the store before it *)
(* and adds nothing of its own.                                            *)
(***************************************************************************)
EXTENDS Barrier

VARIABLES view,   \* view[t][u]: the last call of u whose start happens before
                  \* where t is now
          head1,  \* head1[r]: the view released by the last store to b_count
          head2   \* head2[r]: the view released by the last store to b_count2

viewVars == <<view, head1, head2>>

NoView == [u \in Threads |-> 0]

Join(v, w) == [u \in Threads |-> IF v[u] >= w[u] THEN v[u] ELSE w[u]]

ViewInit == /\ Init
            /\ view = [t \in Threads |-> NoView]
            /\ head1 = [r \in Ranks |-> NoView]
            /\ head2 = [r \in Ranks |-> NoView]

\* An acquiring load by t of a counter whose last releasing store left h.
Acquire(t, h) == /\ view' = [view EXCEPT ![t] = Join(@, h)]
                 /\ UNCHANGED <<head1, head2>>

\* t starts a call: what it has written so far is numbered with the call.
ViewEnter(t) ==
    /\ Enter(t)
    /\ view' = [view EXCEPT ![t] = [Join(@, head1[RankOf[t]]) EXCEPT ![t] = done[t] + 1]]
    /\ UNCHANGED <<head1, head2>>

\* The compare_exchange itself is relaxed; only the reload after a failure acquires.
ViewCas1(t) == /\ Cas1(t)
               /\ IF b_count[RankOf[t]] = ex[t]
                  THEN UNCHANGED viewVars
                  ELSE Acquire(t, head1[RankOf[t]])

ViewReset1(t) == /\ Reset1(t)
                 /\ head1' = [head1 EXCEPT ![RankOf[t]] = view[t]]
                 /\ UNCHANGED <<view, head2>>

ViewSpin1(t) == Spin1(t) /\ Acquire(t, head1[RankOf[t]])

ViewRanks(t) == (Ibarrier(t) \/ TestIbarrier(t)) /\ UNCHANGED viewVars

ViewLoad2(t) == (Gate(t) \/ Load2(t)) /\ Acquire(t, head2[RankOf[t]])

ViewCas2(t) == /\ Cas2(t)
               /\ IF b_count2[RankOf[t]] = ex[t]
                  THEN UNCHANGED viewVars
                  ELSE Acquire(t, head2[RankOf[t]])

ViewReset2(t) == /\ Reset2(t)
                 /\ head2' = [head2 EXCEPT ![RankOf[t]] = view[t]]
                 /\ UNCHANGED <<view, head1>>

ViewSpin2(t) == Spin2(t) /\ Acquire(t, head2[RankOf[t]])

ViewNext ==
    \/ \E t \in Threads :
          \/ ViewEnter(t) \/ ViewCas1(t) \/ ViewReset1(t) \/ ViewSpin1(t)
          \/ ViewRanks(t) \/ ViewLoad2(t) \/ ViewCas2(t) \/ ViewReset2(t)
          \/ ViewSpin2(t)
    \/ Finished /\ UNCHANGED viewVars

ViewSpec == ViewInit /\ [][ViewNext]_<<vars, viewVars>>
-----------------------------------------------------------------------------
(***************************************************************************)
(* "This function synchronize the threads in a rank" (barrier.hpp:107):    *)
(* what a thread wrote before a call can be read, without a data race, by  *)
(* every thread of its rank that has returned from that call.              *)
(***************************************************************************)
ReturnHappensAfterAllArrivals ==
    \A t, u \in Threads : RankOf[t] = RankOf[u] => view[t][u] >= done[t]
=============================================================================
