--------------------------- MODULE BarrierAbstract ---------------------------
(***************************************************************************)
(* What a barrier promises, with no counters, leaders or messages: nobody  *)
(* returns from its k-th call before everybody of the group that the call  *)
(* synchronizes has made its own k-th call.  A call of kind "full"         *)
(* (barrier_t::operator()) synchronizes the threads of all the ranks, any  *)
(* other call (barrier_t::in_node) the threads of the caller's rank.       *)
(***************************************************************************)
EXTENDS Naturals

CONSTANTS Threads,     \* the threads of the whole job
          RankOf,      \* RankOf[t]: the rank of thread t
          FullRounds,  \* the calls that are operator(), not in_node
          MaxRound     \* bound: how many barrier calls a thread makes

VARIABLES arrived,     \* arrived[t]: how many calls t has announced
          left         \* left[t]: from how many of them t has returned

vars == <<arrived, left>>

\* The threads that t's k-th call waits for.
Group(t, k) ==
    IF k \in FullRounds THEN Threads ELSE {u \in Threads : RankOf[u] = RankOf[t]}

Init == /\ arrived = [t \in Threads |-> 0]
        /\ left = [t \in Threads |-> 0]

Arrive(t) == /\ arrived[t] = left[t]
             /\ left[t] < MaxRound
             /\ arrived' = [arrived EXCEPT ![t] = @ + 1]
             /\ UNCHANGED left

Leave(t) == /\ arrived[t] = left[t] + 1
            /\ \A u \in Group(t, arrived[t]) : arrived[u] >= arrived[t]
            /\ left' = [left EXCEPT ![t] = @ + 1]
            /\ UNCHANGED arrived

Next == \E t \in Threads : Arrive(t) \/ Leave(t)

\* The callers keep calling, and whoever may leave does leave.
Fairness == \A t \in Threads : WF_vars(Arrive(t) \/ Leave(t))

Spec == Init /\ [][Next]_vars /\ Fairness
=============================================================================
