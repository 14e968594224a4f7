------------------------------- MODULE Barrier -------------------------------
(***************************************************************************)
(* barrier_t of transport_layer/util/barrier.hpp: a barrier for the        *)
(* threads of a rank (in_node) or of all ranks (operator()), built from an *)
(* up-counter b_count, a down-counter b_count2 and, for the ranks, one     *)
(* MPI_Ibarrier posted by the last thread of each rank to arrive.          *)
(*                                                                         *)
(* Every atomic access of the code is a step of its own.  A failed         *)
(* compare_exchange and the reload that follows are one step; its spurious *)
(* failures only repeat the reload and are left out.  progress() calls in  *)
(* the waiting loops do not touch the barrier and are left out as well.    *)
(***************************************************************************)
EXTENDS Integers, FiniteSets

CONSTANTS Threads,     \* the threads of the whole job
          Ranks,       \* the MPI ranks; each has one barrier_t
          RankOf,      \* RankOf[t]: the rank of thread t
          FullRounds,  \* the calls that are operator(), the others are in_node
          MaxRound     \* bound: how many barrier calls a thread makes

ASSUME BarrierAssumption ==
    /\ IsFiniteSet(Threads)
    /\ RankOf \in [Threads -> Ranks]
    /\ \A r \in Ranks : \E t \in Threads : RankOf[t] = r
    /\ FullRounds \subseteq Nat \ {0}
    /\ MaxRound \in Nat

VARIABLES b_count,     \* b_count[r]: threads of r that have arrived, counted up
          b_count2,    \* b_count2[r]: threads of r still to leave, counted down
          pc,          \* pc[t]: where t is in the call
          ex,          \* ex[t]: the local variable of the compare_exchange loops
          posted,      \* posted[r]: MPI_Ibarriers that r has started
          done,        \* done[t]: calls t has returned from
          opened1,     \* history: how often b_count[r] was reset
          opened2      \* history: how often b_count2[r] was reset

vars == <<b_count, b_count2, pc, ex, posted, done, opened1, opened2>>

Team(r) == {t \in Threads : RankOf[t] = r}
m_threads(r) == Cardinality(Team(r))

\* Is the call that t is in, or makes next, operator()?
Full(t) == done[t] + 1 \in FullRounds

PCs == {"out", "cas1", "reset1", "spin1", "ibarrier", "test", "gate",
        "load2", "cas2", "reset2", "spin2"}

TypeOK ==
    /\ b_count \in [Ranks -> Nat]
    /\ b_count2 \in [Ranks -> Nat]
    /\ pc \in [Threads -> PCs]
    /\ ex \in [Threads -> Nat]
    /\ posted \in [Ranks -> Nat]
    /\ done \in [Threads -> Nat]
    /\ opened1 \in [Ranks -> Nat]
    /\ opened2 \in [Ranks -> Nat]
-----------------------------------------------------------------------------
Init == /\ b_count = [r \in Ranks |-> 0]
        /\ b_count2 = [r \in Ranks |-> m_threads(r)]
        /\ pc = [t \in Threads |-> "out"]
        /\ ex = [t \in Threads |-> 0]
        /\ posted = [r \in Ranks |-> 0]
        /\ done = [t \in Threads |-> 0]
        /\ opened1 = [r \in Ranks |-> 0]
        /\ opened2 = [r \in Ranks |-> 0]

Goto(t, label) == pc' = [pc EXCEPT ![t] = label]

\* The call starts: in_node1 loads b_count.
Enter(t) == /\ pc[t] = "out"
            /\ done[t] < MaxRound
            /\ ex' = [ex EXCEPT ![t] = b_count[RankOf[t]]]
            /\ Goto(t, "cas1")
            /\ UNCHANGED <<b_count, b_count2, posted, done, opened1, opened2>>

\* Mutant of Cas1: the last but one to arrive is the leader.
Cas1EarlyLeader(t) == LET r == RankOf[t] IN
    /\ pc[t] = "cas1"
    /\ IF b_count[r] = ex[t]
       THEN /\ b_count' = [b_count EXCEPT ![r] = ex[t] + 1]
            /\ Goto(t, IF ex[t] >= m_threads(r) - 2 THEN "reset1" ELSE "spin1")
            /\ UNCHANGED ex
       ELSE /\ ex' = [ex EXCEPT ![t] = b_count[r]]
            /\ UNCHANGED <<b_count, pc>>
    /\ UNCHANGED <<b_count2, posted, done, opened1, opened2>>

\* in_node1's compare_exchange.  Whoever takes the count to m_threads is the
\* leader of the round, the thread in_node1 returns true to.
Cas1(t) == LET r == RankOf[t] IN
    /\ pc[t] = "cas1"
    /\ IF b_count[r] = ex[t]
       THEN /\ b_count' = [b_count EXCEPT ![r] = ex[t] + 1]
            /\ Goto(t, IF ex[t] = m_threads(r) - 1 THEN "reset1" ELSE "spin1")
            /\ UNCHANGED ex
       ELSE /\ ex' = [ex EXCEPT ![t] = b_count[r]]
            /\ UNCHANGED <<b_count, pc>>
    /\ UNCHANGED <<b_count2, posted, done, opened1, opened2>>

\* The leader opens the first door.
Reset1(t) == LET r == RankOf[t] IN
    /\ pc[t] = "reset1"
    /\ b_count' = [b_count EXCEPT ![r] = 0]
    /\ opened1' = [opened1 EXCEPT ![r] = @ + 1]
    /\ Goto(t, IF Full(t) THEN "ibarrier" ELSE "load2")
    /\ UNCHANGED <<b_count2, ex, posted, done, opened2>>

\* The others leave in_node1's loop; operator() makes them wait on b_count2.
Spin1(t) ==
    /\ pc[t] = "spin1"
    /\ b_count[RankOf[t]] = 0
    /\ Goto(t, IF Full(t) THEN "gate" ELSE "load2")
    /\ UNCHANGED <<b_count, b_count2, ex, posted, done, opened1, opened2>>

\* rank_barrier: the leader starts the rank's next MPI_Ibarrier ...
Ibarrier(t) ==
    /\ pc[t] = "ibarrier"
    /\ posted' = [posted EXCEPT ![RankOf[t]] = @ + 1]
    /\ Goto(t, "test")
    /\ UNCHANGED <<b_count, b_count2, ex, done, opened1, opened2>>

\* ... and polls it.  The n-th MPI_Ibarrier of a rank completes once every
\* rank has started its n-th one.
IbarrierComplete(r) == \A q \in Ranks : posted[q] >= posted[r]

\* Mutant of TestIbarrier: the leader does not wait for the other ranks.
TestIbarrierIgnoresFlag(t) ==
    /\ pc[t] = "test"
    /\ Goto(t, "load2")
    /\ UNCHANGED <<b_count, b_count2, ex, posted, done, opened1, opened2>>

TestIbarrier(t) ==
    /\ pc[t] = "test"
    /\ IbarrierComplete(RankOf[t])
    /\ Goto(t, "load2")
    /\ UNCHANGED <<b_count, b_count2, ex, posted, done, opened1, opened2>>

\* operator(): the others wait until the leader has started the down-count.
Gate(t) ==
    /\ pc[t] = "gate"
    /\ b_count2[RankOf[t]] # m_threads(RankOf[t])
    /\ Goto(t, "load2")
    /\ UNCHANGED <<b_count, b_count2, ex, posted, done, opened1, opened2>>

\* in_node2 loads b_count2 ...
Load2(t) ==
    /\ pc[t] = "load2"
    /\ ex' = [ex EXCEPT ![t] = b_count2[RankOf[t]]]
    /\ Goto(t, "cas2")
    /\ UNCHANGED <<b_count, b_count2, posted, done, opened1, opened2>>

\* ... and decrements it.
Cas2(t) == LET r == RankOf[t] IN
    /\ pc[t] = "cas2"
    /\ IF b_count2[r] = ex[t]
       THEN /\ b_count2' = [b_count2 EXCEPT ![r] = ex[t] - 1]
            /\ Goto(t, IF ex[t] = 1 THEN "reset2" ELSE "spin2")
            /\ UNCHANGED ex
       ELSE /\ ex' = [ex EXCEPT ![t] = b_count2[r]]
            /\ UNCHANGED <<b_count2, pc>>
    /\ UNCHANGED <<b_count, posted, done, opened1, opened2>>

\* Mutant of Reset2: the last thread does not refill the down-counter.
Reset2NoRefill(t) ==
    /\ pc[t] = "reset2"
    /\ opened2' = [opened2 EXCEPT ![RankOf[t]] = @ + 1]
    /\ done' = [done EXCEPT ![t] = @ + 1]
    /\ Goto(t, "out")
    /\ UNCHANGED <<b_count, b_count2, ex, posted, opened1>>

\* The last thread opens the second door and returns.
Reset2(t) == LET r == RankOf[t] IN
    /\ pc[t] = "reset2"
    /\ b_count2' = [b_count2 EXCEPT ![r] = m_threads(r)]
    /\ opened2' = [opened2 EXCEPT ![r] = @ + 1]
    /\ done' = [done EXCEPT ![t] = @ + 1]
    /\ Goto(t, "out")
    /\ UNCHANGED <<b_count, ex, posted, opened1>>

\* Mutant of Spin2: nobody waits for the second door.
Spin2NoWait(t) ==
    /\ pc[t] = "spin2"
    /\ done' = [done EXCEPT ![t] = @ + 1]
    /\ Goto(t, "out")
    /\ UNCHANGED <<b_count, b_count2, ex, posted, opened1, opened2>>

\* The others see the second door open and return.
Spin2(t) ==
    /\ pc[t] = "spin2"
    /\ b_count2[RankOf[t]] = m_threads(RankOf[t])
    /\ done' = [done EXCEPT ![t] = @ + 1]
    /\ Goto(t, "out")
    /\ UNCHANGED <<b_count, b_count2, ex, posted, opened1, opened2>>

Step(t) == \/ Enter(t) \/ Cas1(t) \/ Reset1(t) \/ Spin1(t)
           \/ Ibarrier(t) \/ TestIbarrier(t) \/ Gate(t)
           \/ Load2(t) \/ Cas2(t) \/ Reset2(t) \/ Spin2(t)

\* All calls made: the program is over.
Finished == /\ \A t \in Threads : pc[t] = "out" /\ done[t] = MaxRound
            /\ UNCHANGED vars

Next == (\E t \in Threads : Step(t)) \/ Finished

\* Every thread is scheduled, and makes its calls.
Fairness == \A t \in Threads : WF_vars(Step(t))

Spec == Init /\ [][Next]_vars /\ Fairness
-----------------------------------------------------------------------------
\* Calls announced by t: those whose up-count it has made.
Arrived(t) == IF pc[t] \in {"out", "cas1"} THEN done[t] ELSE done[t] + 1

\* Calls whose down-count t has made.
Counted(t) == IF pc[t] \in {"spin2", "reset2"} THEN done[t] + 1 ELSE done[t]

(***************************************************************************)
(* Nobody returns from a call before every thread of its rank has arrived  *)
(* at that call, nor from operator() before every thread of every rank has *)
(* (barrier.hpp:67-83, 106-118): a fast thread that goes round again never *)
(* laps a slow one through the reused counters.                            *)
(***************************************************************************)
Synchronized ==
    \A t, u \in Threads : \A k \in 1 .. done[t] :
        (RankOf[t] = RankOf[u] \/ k \in FullRounds) => Arrived(u) >= k

(***************************************************************************)
(* in_node1 elects exactly one leader per round (barrier.hpp:35-41): a     *)
(* rank has started one MPI_Ibarrier for each operator() round it is       *)
(* through, so that the n-th one of each rank belongs to the same round.   *)
(***************************************************************************)
FullUpTo(n) == Cardinality(FullRounds \cap 1 .. n)

Leading(r) == {t \in Team(r) : pc[t] \in {"reset1", "ibarrier", "test"}}

OneIbarrierPerRound ==
    \A r \in Ranks :
        /\ Cardinality(Leading(r)) <= 1
        /\ \A t \in Team(r) : /\ posted[r] >= FullUpTo(done[t])
                              /\ posted[r] <= FullUpTo(Arrived(t))

(***************************************************************************)
(* Every call returns (barrier.hpp:73-83): nobody is left behind in a      *)
(* waiting loop because the counter it watches was reused before it looked.*)
(***************************************************************************)
AllCallsReturn == \A t \in Threads : <>(done[t] = MaxRound)

(***************************************************************************)
(* The inductive invariant behind Synchronized.  opened1[r] and opened2[r] *)
(* number the rounds; each counter counts the threads that have taken part *)
(* in the round its door has not opened yet, and a thread is never more    *)
(* than one round away from either door.                                   *)
(***************************************************************************)
Waiting1(r) == {t \in Team(r) : Arrived(t) = opened1[r] + 1}
Waiting2(r) == {t \in Team(r) : Counted(t) = opened2[r] + 1}

Closing(r) == {t \in Team(r) : pc[t] = "reset2"}

Through1 == {"ibarrier", "test", "gate", "load2", "cas2", "spin2", "reset2"}
Through2 == {"load2", "cas2", "spin2", "reset2"}

\* Every rank has opened the first door of round k.
AllOpened(k) == \A q \in Ranks : opened1[q] >= k

CountersInv ==
    \A r \in Ranks :
        /\ b_count[r] = Cardinality(Waiting1(r))
        /\ b_count2[r] = m_threads(r) - Cardinality(Waiting2(r))
        /\ opened1[r] \in {opened2[r], opened2[r] + 1}

ThreadInv(t) == LET r == RankOf[t] IN
    /\ Arrived(t) \in {opened1[r], opened1[r] + 1}
    /\ Counted(t) \in {opened2[r], opened2[r] + 1}
    /\ pc[t] \in Through1 => done[t] + 1 = opened1[r]
    /\ pc[t] \notin {"spin2", "reset2"} => done[t] = opened2[r]
    /\ pc[t] = "reset1" => b_count[r] = m_threads(r)
    /\ pc[t] = "reset2" => b_count2[r] = 0
    /\ pc[t] \in {"ibarrier", "test", "gate"} => Full(t)
    /\ pc[t] \in Through2 /\ Full(t) => AllOpened(done[t] + 1)
    /\ pc[t] # "out" => done[t] < MaxRound

RanksInv ==
    \A r \in Ranks :
        /\ \A t, u \in Leading(r) : t = u
        /\ \A t, u \in Closing(r) : t = u
        /\ posted[r] + (IF \E t \in Team(r) : pc[t] = "ibarrier" THEN 1 ELSE 0)
              = FullUpTo(opened1[r])
        /\ \A k \in 1 .. opened2[r] : k \in FullRounds => AllOpened(k)

BarrierInv == TypeOK /\ CountersInv /\ (\A t \in Threads : ThreadInv(t)) /\ RanksInv

(***************************************************************************)
(* The counters implement the abstract barrier, a thread arriving with its *)
(* up-count and leaving when it returns.                                   *)
(***************************************************************************)
A == INSTANCE BarrierAbstract
     WITH arrived <- [t \in Threads |-> Arrived(t)],
          left <- done

ImplementsBarrier == A!Spec
=============================================================================
