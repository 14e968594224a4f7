---------------------------- MODULE BarrierProofs ----------------------------
(***************************************************************************)
(* Proofs about Barrier for any number of ranks, threads and calls: the    *)
(* inductive invariant BarrierInv, the synchronization it entails and the  *)
(* step simulation of BarrierAbstract.                                     *)
(***************************************************************************)
EXTENDS Barrier, FiniteSetTheorems, TLAPS

\* A thread belongs to the team of its rank; teams are finite.
LEMMA TeamFacts ==
    /\ \A t \in Threads : RankOf[t] \in Ranks /\ t \in Team(RankOf[t])
    /\ \A r \in Ranks : IsFiniteSet(Team(r)) /\ m_threads(r) \in Nat
<1>1. \A t \in Threads : RankOf[t] \in Ranks /\ t \in Team(RankOf[t])
  BY BarrierAssumption DEF Team
<1>2. ASSUME NEW r \in Ranks
      PROVE  IsFiniteSet(Team(r)) /\ m_threads(r) \in Nat
  <2>1. Team(r) \in SUBSET Threads  BY DEF Team
  <2>2. IsFiniteSet(Team(r))  BY <2>1, FS_Subset, BarrierAssumption
  <2>3. QED  BY <2>2, FS_CardinalityType DEF m_threads
<1>3. QED  BY <1>1, <1>2

\* The sets of threads that the counters count are finite.
LEMMA WaitingFinite ==
    ASSUME NEW r \in Ranks
    PROVE  /\ IsFiniteSet(Waiting1(r)) /\ Cardinality(Waiting1(r)) \in Nat
           /\ IsFiniteSet(Waiting2(r)) /\ Cardinality(Waiting2(r)) \in Nat
           /\ Cardinality(Waiting1(r)) <= m_threads(r)
           /\ Cardinality(Waiting2(r)) <= m_threads(r)
           /\ Cardinality(Waiting1(r)) = m_threads(r) => Waiting1(r) = Team(r)
           /\ Cardinality(Waiting2(r)) = m_threads(r) => Waiting2(r) = Team(r)
<1>1. IsFiniteSet(Team(r))  BY TeamFacts
<1>2. Waiting1(r) \in SUBSET Team(r) /\ Waiting2(r) \in SUBSET Team(r)
  BY DEF Waiting1, Waiting2
<1>3. /\ IsFiniteSet(Waiting1(r)) /\ IsFiniteSet(Waiting2(r))
      /\ Cardinality(Waiting1(r)) <= Cardinality(Team(r))
      /\ Cardinality(Waiting2(r)) <= Cardinality(Team(r))
      /\ Cardinality(Team(r)) = Cardinality(Waiting1(r)) => Team(r) = Waiting1(r)
      /\ Cardinality(Team(r)) = Cardinality(Waiting2(r)) => Team(r) = Waiting2(r)
  BY <1>1, <1>2, FS_Subset
<1>4. QED  BY <1>3, FS_CardinalityType DEF m_threads

\* FullUpTo counts the operator() rounds: it grows by one at each of them.
LEMMA FullUpToFacts ==
    /\ \A n \in Nat : /\ FullUpTo(n) \in Nat
                      /\ FullUpTo(n + 1) = IF n + 1 \in FullRounds
                                           THEN FullUpTo(n) + 1 ELSE FullUpTo(n)
    /\ \A m, n \in Nat : m <= n => FullUpTo(m) <= FullUpTo(n)
    /\ FullUpTo(0) = 0
<1> DEFINE F(n) == FullRounds \cap 1 .. n
<1>1. ASSUME NEW n \in Nat  PROVE IsFiniteSet(F(n))
  <2>1. IsFiniteSet(1 .. n)  BY FS_Interval
  <2>2. F(n) \in SUBSET (1 .. n)  OBVIOUS
  <2>3. QED  BY <2>1, <2>2, FS_Subset
<1>2. \A n \in Nat : FullUpTo(n) \in Nat
  BY <1>1, FS_CardinalityType DEF FullUpTo
<1>3. ASSUME NEW n \in Nat, n + 1 \in FullRounds
      PROVE  FullUpTo(n + 1) = FullUpTo(n) + 1
  <2>1. F(n + 1) = F(n) \cup {n + 1}  BY <1>3
  <2>2. n + 1 \notin F(n)  OBVIOUS
  <2>3. QED  BY <1>1, <2>1, <2>2, FS_AddElement DEF FullUpTo
<1>4. ASSUME NEW n \in Nat, n + 1 \notin FullRounds
      PROVE  FullUpTo(n + 1) = FullUpTo(n)
  <2>1. F(n + 1) = F(n)  BY <1>4
  <2>2. QED  BY <2>1 DEF FullUpTo
<1>5. ASSUME NEW m \in Nat, NEW n \in Nat, m <= n
      PROVE  FullUpTo(m) <= FullUpTo(n)
  <2>1. F(m) \in SUBSET F(n)  BY <1>5
  <2>2. QED  BY <1>1, <2>1, FS_Subset DEF FullUpTo
<1>6. FullUpTo(0) = 0
  <2>1. F(0) = {}  OBVIOUS
  <2>2. QED  BY <2>1, FS_EmptySet DEF FullUpTo
<1>7. QED  BY <1>2, <1>3, <1>4, <1>5, <1>6
-----------------------------------------------------------------------------
\* The program starts with all threads outside and both doors closed.
LEMMA InitInv == Init => BarrierInv
<1> SUFFICES ASSUME Init PROVE BarrierInv  OBVIOUS
<1>1. TypeOK  BY TeamFacts DEF Init, TypeOK, PCs
<1>2. ASSUME NEW r \in Ranks
      PROVE  /\ b_count[r] = Cardinality(Waiting1(r))
             /\ b_count2[r] = m_threads(r) - Cardinality(Waiting2(r))
             /\ opened1[r] \in {opened2[r], opened2[r] + 1}
  <2>1. Waiting1(r) = {} /\ Waiting2(r) = {}
    BY DEF Init, Waiting1, Waiting2, Arrived, Counted, Team
  <2>2. QED  BY <2>1, FS_EmptySet, TeamFacts DEF Init
<1>3. ASSUME NEW t \in Threads  PROVE ThreadInv(t)
  BY TeamFacts DEF Init, ThreadInv, Arrived, Counted, Through1, Through2
<1>4. RanksInv
  BY FullUpToFacts DEF Init, RanksInv, Leading, Closing, Team
<1>5. QED  BY <1>1, <1>2, <1>3, <1>4 DEF BarrierInv, CountersInv
-----------------------------------------------------------------------------
\* Steps that leave the counters, the doors and the progress of every thread
\* alone keep the counting part of the invariant.
LEMMA CountersStable ==
    ASSUME CountersInv,
           UNCHANGED <<b_count, b_count2, opened1, opened2>>,
           \A u \in Threads : Arrived(u)' = Arrived(u) /\ Counted(u)' = Counted(u)
    PROVE  CountersInv'
<1>1. ASSUME NEW r \in Ranks
      PROVE  Waiting1(r)' = Waiting1(r) /\ Waiting2(r)' = Waiting2(r)
  BY DEF Waiting1, Waiting2, Team
<1>2. QED  BY <1>1 DEF CountersInv, m_threads, Team

\* A thread that does not move keeps its part of the invariant when the doors
\* of its team stay as they are and no rank's first door closes again.
LEMMA ThreadInvStable ==
    ASSUME NEW u \in Threads, ThreadInv(u),
           pc'[u] = pc[u], done'[u] = done[u],
           opened1'[RankOf[u]] = opened1[RankOf[u]],
           opened2'[RankOf[u]] = opened2[RankOf[u]],
           pc[u] = "reset1" => b_count'[RankOf[u]] = b_count[RankOf[u]],
           pc[u] = "reset2" => b_count2'[RankOf[u]] = b_count2[RankOf[u]],
           AllOpened(done[u] + 1) => AllOpened(done[u] + 1)'
    PROVE  ThreadInv(u)'
<1>1. /\ Arrived(u)' = Arrived(u) /\ Counted(u)' = Counted(u)
      /\ Full(u)' = Full(u) /\ m_threads(RankOf[u])' = m_threads(RankOf[u])
      /\ AllOpened(done[u] + 1)' <=> \A q \in Ranks : opened1'[q] >= done[u] + 1
  BY DEF Arrived, Counted, Full, m_threads, Team, AllOpened
<1>2. AllOpened(done[u] + 1) => \A q \in Ranks : opened1'[q] >= done'[u] + 1
  BY <1>1
<1>3. QED  BY <1>1, <1>2 DEF ThreadInv, AllOpened

\* What is left to show for the ranks when opened2 does not change.
LEMMA RanksInvIntro ==
    ASSUME RanksInv, TypeOK, UNCHANGED opened2,
           \A q \in Ranks : opened1'[q] \in Nat /\ opened1'[q] >= opened1[q],
           \A q \in Ranks : Leading(q)' \subseteq Leading(q)
                            \/ \A u, v \in Leading(q)' : u = v,
           \A q \in Ranks : Closing(q)' \subseteq Closing(q)
                            \/ \A u, v \in Closing(q)' : u = v,
           \A q \in Ranks :
               posted'[q] + (IF \E u \in Team(q) : pc'[u] = "ibarrier" THEN 1 ELSE 0)
                  = FullUpTo(opened1'[q])
    PROVE  RanksInv'
<1>1. ASSUME NEW q \in Ranks
      PROVE  (\A u, v \in Leading(q)' : u = v) /\ (\A u, v \in Closing(q)' : u = v)
  BY DEF RanksInv
<1>2. ASSUME NEW q \in Ranks, NEW k \in 1 .. opened2'[q], k \in FullRounds,
             NEW p \in Ranks
      PROVE  opened1'[p] >= k
  <2>1. k \in 1 .. opened2[q]  BY <1>2
  <2>2. opened1[p] >= k  BY <1>2, <2>1 DEF RanksInv, AllOpened
  <2>3. opened1[p] \in Nat /\ opened1'[p] \in Nat /\ opened2[q] \in Nat
    BY DEF TypeOK
  <2>4. QED  BY <1>2, <2>1, <2>2, <2>3
<1>3. QED  BY <1>1, <1>2 DEF RanksInv, AllOpened, FullUpTo, Team

\* Steps of t that change nothing but its pc and its local variable, and keep
\* it on its side of the counters.
LEMMA MoveInv ==
    ASSUME BarrierInv, NEW t \in Threads,
           UNCHANGED <<b_count, b_count2, posted, done, opened1, opened2>>,
           TypeOK',
           NEW label, label \in PCs,
           pc' = [pc EXCEPT ![t] = label],
           Arrived(t)' = Arrived(t), Counted(t)' = Counted(t),
           ThreadInv(t)',
           pc[t] # "ibarrier", label \notin {"reset1", "ibarrier", "reset2"},
           label = "test" => pc[t] = "test"
    PROVE  BarrierInv'
<1> USE DEF BarrierInv, TypeOK
<1>1. \A u \in Threads : u # t => pc'[u] = pc[u]  OBVIOUS
<1>2. \A u \in Threads : Arrived(u)' = Arrived(u) /\ Counted(u)' = Counted(u)
  BY <1>1 DEF Arrived, Counted
<1>3. CountersInv'  BY <1>2, CountersStable
<1>4. ASSUME NEW u \in Threads, u # t  PROVE ThreadInv(u)'
  <2>1. ThreadInv(u)  OBVIOUS
  <2>2. QED  BY <2>1, <1>1, <1>4, ThreadInvStable DEF AllOpened
<1>5. RanksInv'
  <2>1. RanksInv  OBVIOUS
  <2>2. pc'[t] = label  OBVIOUS
  <2>3. \A r \in Ranks : \A u \in Team(r) : pc'[u] = "ibarrier" <=> pc[u] = "ibarrier"
    BY <1>1, <2>2 DEF Team
  <2>4. \A r \in Ranks : Leading(r)' \subseteq Leading(r) /\ Closing(r)' \subseteq Closing(r)
    BY <1>1, <2>2 DEF Leading, Closing, Team
  <2>5. QED  BY <2>1, <2>3, <2>4 DEF RanksInv, Team, AllOpened, FullUpTo
<1>6. QED  BY <1>3, <1>4, <1>5

LEMMA EnterInv == ASSUME BarrierInv, NEW t \in Threads, Enter(t)  PROVE BarrierInv'
<1> USE DEF BarrierInv, TypeOK, Enter, Goto
<1>1. TypeOK'  BY TeamFacts DEF PCs
<1>2. Arrived(t)' = Arrived(t) /\ Counted(t)' = Counted(t)
  BY DEF Arrived, Counted
<1>3. ThreadInv(t)'
  <2>1. ThreadInv(t)  OBVIOUS
  <2>2. QED  BY <1>2, <2>1, TeamFacts DEF ThreadInv, Through1, Through2
<1>4. QED  BY <1>1, <1>2, <1>3, MoveInv DEF PCs

\* A thread in the first loop sees b_count at 0 only if its own round's door
\* has been opened: otherwise it is itself counted.
LEMMA Spin1Inv == ASSUME BarrierInv, NEW t \in Threads, Spin1(t)  PROVE BarrierInv'
<1> USE DEF BarrierInv, TypeOK, Spin1, Goto
<1> DEFINE r == RankOf[t]
<1>1. TypeOK'  BY DEF PCs
<1>2. Arrived(t)' = Arrived(t) /\ Counted(t)' = Counted(t)
  BY DEF Arrived, Counted, Full
<1>3. done[t] + 1 = opened1[r]
  <2>1. r \in Ranks /\ t \in Team(r)  BY TeamFacts
  <2>2. Cardinality(Waiting1(r)) = 0  BY <2>1 DEF CountersInv
  <2>3. Waiting1(r) = {}  BY <2>1, <2>2, WaitingFinite, FS_EmptySet
  <2>4. Arrived(t) # opened1[r] + 1  BY <2>1, <2>3 DEF Waiting1
  <2>5. ThreadInv(t)  OBVIOUS
  <2>6. QED  BY <2>4, <2>5 DEF ThreadInv, Arrived
<1>4. ThreadInv(t)'
  <2>1. ThreadInv(t)  OBVIOUS
  <2>2. Full(t)' = Full(t)  BY DEF Full
  <2>3. ~Full(t) => done[t] + 1 \notin FullRounds  BY DEF Full
  <2>4. QED  BY <1>2, <1>3, <2>1, <2>2, TeamFacts DEF ThreadInv, Through1, Through2
<1>5. QED  BY <1>1, <1>2, <1>4, MoveInv DEF PCs

\* rank_barrier ends only when every rank has started the MPI_Ibarrier of the
\* same operator() round, so every rank has opened its first door.
LEMMA TestIbarrierInv ==
    ASSUME BarrierInv, NEW t \in Threads, TestIbarrier(t)  PROVE BarrierInv'
<1> USE DEF BarrierInv, TypeOK, TestIbarrier, Goto
<1> DEFINE r == RankOf[t]
           k == done[t] + 1
<1>1. TypeOK'  BY DEF PCs
<1>2. Arrived(t)' = Arrived(t) /\ Counted(t)' = Counted(t)
  BY DEF Arrived, Counted
<1>3. r \in Ranks /\ t \in Team(r) /\ k \in Nat  BY TeamFacts
<1>4. ThreadInv(t)  OBVIOUS
<1>5. k = opened1[r] /\ k \in FullRounds
  BY <1>4 DEF ThreadInv, Through1, Full
<1>6. posted[r] = FullUpTo(k)
  <2>1. \A u \in Team(r) : pc[u] # "ibarrier"
    <3>1. ASSUME NEW u \in Team(r), pc[u] = "ibarrier"  PROVE FALSE
      <4>1. u \in Leading(r) /\ t \in Leading(r)  BY <1>3, <3>1 DEF Leading
      <4>2. u = t  BY <1>3, <4>1 DEF RanksInv
      <4>3. QED  BY <3>1, <4>2
    <3>2. QED  BY <3>1
  <2>2. FullUpTo(k) \in Nat  BY <1>3, FullUpToFacts
  <2>3. QED  BY <1>3, <1>5, <2>1, <2>2 DEF RanksInv
<1>7. AllOpened(k)
  <2>1. ASSUME NEW q \in Ranks, opened1[q] < k  PROVE FALSE
    <3>1. FullUpTo(opened1[q]) >= posted[q]
      <4>1. opened1[q] \in Nat /\ FullUpTo(opened1[q]) \in Nat
        BY FullUpToFacts
      <4>2. QED  BY <4>1 DEF RanksInv
    <3>2. posted[q] >= FullUpTo(k)  BY <1>3, <1>6 DEF IbarrierComplete
    <3>3. FullUpTo(opened1[q]) <= FullUpTo(k - 1) /\ k - 1 \in Nat
      <4>1. opened1[q] \in Nat /\ k - 1 \in Nat /\ opened1[q] <= k - 1
        BY <1>3, <2>1
      <4>2. QED  BY <4>1, FullUpToFacts
    <3>4. FullUpTo((k - 1) + 1) = FullUpTo(k - 1) + 1
      <4>1. (k - 1) + 1 \in FullRounds  BY <1>3, <1>5
      <4>2. QED  BY <3>3, <4>1, FullUpToFacts
    <3>5. (k - 1) + 1 = k  BY <1>3
    <3>6. FullUpTo(k) = FullUpTo(k - 1) + 1  BY <3>4, <3>5
    <3>7. FullUpTo(k - 1) \in Nat /\ FullUpTo(opened1[q]) \in Nat /\ posted[q] \in Nat
      BY <3>3, FullUpToFacts
    <3>8. QED  BY <3>1, <3>2, <3>3, <3>6, <3>7
  <2>2. QED  BY <2>1, <1>3 DEF AllOpened
<1>8. ThreadInv(t)'
  BY <1>2, <1>4, <1>7, TeamFacts DEF ThreadInv, Through1, Through2, Full, AllOpened
<1>9. QED  BY <1>1, <1>2, <1>8, MoveInv DEF PCs

\* Someone has started the down-count of the caller's round; in operator()
\* that someone has passed the rank barrier, so the caller may go on.
LEMMA GateInv == ASSUME BarrierInv, NEW t \in Threads, Gate(t)  PROVE BarrierInv'
<1> USE DEF BarrierInv, TypeOK, Gate, Goto
<1> DEFINE r == RankOf[t]
<1>1. TypeOK'  BY DEF PCs
<1>2. Arrived(t)' = Arrived(t) /\ Counted(t)' = Counted(t)
  BY DEF Arrived, Counted
<1>3. r \in Ranks /\ t \in Team(r)  BY TeamFacts
<1>4. ThreadInv(t)  OBVIOUS
<1>5. PICK u \in Team(r) : Counted(u) = opened2[r] + 1
  <2>1. Cardinality(Waiting2(r)) # 0  BY <1>3, TeamFacts DEF CountersInv
  <2>2. Waiting2(r) # {}  BY <1>3, <2>1, WaitingFinite, FS_EmptySet
  <2>3. QED  BY <2>2 DEF Waiting2
<1>6. u \in Threads /\ RankOf[u] = r /\ ThreadInv(u)  BY <1>5 DEF Team
<1>7. pc[u] \in {"spin2", "reset2"} /\ done[u] = opened2[r]
  BY <1>3, <1>5, <1>6 DEF ThreadInv, Counted
<1>8. done[t] = opened2[r] /\ Full(t)  BY <1>4 DEF ThreadInv
<1>9. AllOpened(done[t] + 1)
  BY <1>6, <1>7, <1>8 DEF ThreadInv, Through2, Full
<1>10. ThreadInv(t)'
  BY <1>2, <1>4, <1>9, TeamFacts DEF ThreadInv, Through1, Through2, Full, AllOpened
<1>11. QED  BY <1>1, <1>2, <1>10, MoveInv DEF PCs

LEMMA Load2Inv == ASSUME BarrierInv, NEW t \in Threads, Load2(t)  PROVE BarrierInv'
<1> USE DEF BarrierInv, TypeOK, Load2, Goto
<1>1. TypeOK'  BY TeamFacts DEF PCs
<1>2. Arrived(t)' = Arrived(t) /\ Counted(t)' = Counted(t)
  BY DEF Arrived, Counted
<1>3. ThreadInv(t)'
  <2>1. ThreadInv(t)  OBVIOUS
  <2>2. QED  BY <1>2, <2>1, TeamFacts
             DEF ThreadInv, Through1, Through2, Full, AllOpened
<1>4. QED  BY <1>1, <1>2, <1>3, MoveInv DEF PCs

\* The leader starts the MPI_Ibarrier it owed for this round.
LEMMA IbarrierInv == ASSUME BarrierInv, NEW t \in Threads, Ibarrier(t)  PROVE BarrierInv'
<1> USE DEF BarrierInv, TypeOK, Ibarrier, Goto
<1> DEFINE r == RankOf[t]
<1>1. TypeOK'  BY TeamFacts DEF PCs
<1>2. \A u \in Threads : Arrived(u)' = Arrived(u) /\ Counted(u)' = Counted(u)
  BY DEF Arrived, Counted
<1>3. CountersInv'  BY <1>2, CountersStable
<1>4. r \in Ranks /\ t \in Team(r)  BY TeamFacts
<1>5. ASSUME NEW u \in Threads  PROVE ThreadInv(u)'
  <2>1. ThreadInv(u)  OBVIOUS
  <2>2. u # t => pc'[u] = pc[u]  OBVIOUS
  <2>3. QED  BY <1>2, <2>1, <2>2
             DEF ThreadInv, Through1, Through2, m_threads, Team, Full, AllOpened
<1>6. ASSUME NEW q \in Ranks
      PROVE  /\ \A u, v \in Leading(q)' : u = v
             /\ \A u, v \in Closing(q)' : u = v
             /\ posted'[q] + (IF \E u \in Team(q) : pc'[u] = "ibarrier" THEN 1 ELSE 0)
                  = FullUpTo(opened1[q])
  <2>1. Leading(q)' = Leading(q) /\ Closing(q)' = Closing(q)
    BY DEF Leading, Closing, Team
  <2>2. /\ \A u, v \in Leading(q) : u = v
        /\ \A u, v \in Closing(q) : u = v
    BY DEF RanksInv
  <2>3. CASE q = r
    <3>1. \A u \in Team(r) : pc[u] = "ibarrier" => u = t
      BY <1>4, <2>2, <2>3 DEF Leading
    <3>2. ~ \E u \in Team(r) : pc'[u] = "ibarrier"
      BY <3>1 DEF Team
    <3>3. posted[r] + 1 = FullUpTo(opened1[r])  BY <1>4 DEF RanksInv
    <3>4. QED  BY <1>4, <2>1, <2>2, <2>3, <3>2, <3>3
  <2>4. CASE q # r
    <3>1. \A u \in Team(q) : pc'[u] = pc[u]  BY <2>4 DEF Team
    <3>2. posted'[q] = posted[q]  BY <2>4
    <3>3. QED  BY <2>1, <2>2, <3>1, <3>2 DEF RanksInv
  <2>5. QED  BY <2>3, <2>4
<1>7. RanksInv'  BY <1>6 DEF RanksInv, AllOpened, FullUpTo, Team
<1>8. QED  BY <1>1, <1>3, <1>5, <1>7

\* The up-count: the caller joins the threads waiting for the first door, and
\* the one that completes the team becomes the leader.
LEMMA Cas1Inv == ASSUME BarrierInv, NEW t \in Threads, Cas1(t)  PROVE BarrierInv'
<1> USE DEF BarrierInv, TypeOK, Cas1, Goto
<1> DEFINE r == RankOf[t]
<1>1. r \in Ranks /\ t \in Team(r) /\ m_threads(r) \in Nat  BY TeamFacts
<1>2. ThreadInv(t)  OBVIOUS
<1>3. CASE b_count[r] # ex[t]
  <2>1. TypeOK' /\ pc' = [pc EXCEPT ![t] = "cas1"]  BY <1>1, <1>3 DEF PCs
  <2>2. Arrived(t)' = Arrived(t) /\ Counted(t)' = Counted(t)
    BY <1>3 DEF Arrived, Counted
  <2>3. ThreadInv(t)'
    BY <1>2, <1>3, <2>2 DEF ThreadInv, Through1, Through2
  <2>4. QED  BY <1>3, <2>1, <2>2, <2>3, MoveInv DEF PCs
<1>4. CASE b_count[r] = ex[t]
  <2> DEFINE last == ex[t] = m_threads(r) - 1
  <2>1. /\ TypeOK'
        /\ b_count' = [b_count EXCEPT ![r] = @ + 1]
        /\ pc' = [pc EXCEPT ![t] = IF last THEN "reset1" ELSE "spin1"]
        /\ UNCHANGED <<b_count2, posted, done, opened1, opened2>>
    BY <1>1, <1>4 DEF PCs
  <2>2. \A u \in Threads : /\ Counted(u)' = Counted(u)
                           /\ Arrived(u)' = IF u = t THEN Arrived(u) + 1 ELSE Arrived(u)
                           /\ u # t => pc'[u] = pc[u]
    BY <2>1 DEF Arrived, Counted
  <2>3. Arrived(t) = opened1[r] /\ done[t] = opened2[r]
    BY <1>1, <1>2 DEF ThreadInv, Arrived, CountersInv
  <2>4. /\ t \notin Waiting1(r)
        /\ Waiting1(r)' = Waiting1(r) \cup {t}
    BY <1>1, <2>1, <2>2, <2>3 DEF Waiting1, Team
  <2>5. b_count[r] = Cardinality(Waiting1(r)) /\ b_count[r] < m_threads(r)
    <3>1. b_count[r] = Cardinality(Waiting1(r))  BY <1>1 DEF CountersInv
    <3>2. QED  BY <1>1, <2>4, <3>1, WaitingFinite
  <2>10. Cardinality(Waiting1(r) \cup {t}) = Cardinality(Waiting1(r)) + 1
    <3>1. IsFiniteSet(Waiting1(r))  BY <1>1, WaitingFinite
    <3>2. QED  BY <2>4, <3>1, FS_AddElement
  <2>6. CountersInv'
    <3>1. ASSUME NEW q \in Ranks
          PROVE  Waiting2(q)' = Waiting2(q) /\ (q # r => Waiting1(q)' = Waiting1(q))
      BY <2>1, <2>2 DEF Waiting1, Waiting2, Team
    <3>2. Cardinality(Waiting1(r)') = b_count[r] + 1
      BY <2>4, <2>5, <2>10
    <3>3. QED  BY <1>1, <2>1, <3>1, <3>2, SMTT(20) DEF CountersInv, m_threads, Team
  <2>7. ASSUME NEW u \in Threads  PROVE ThreadInv(u)'
    <3>1. CASE u = t
      BY <1>1, <1>2, <1>4, <2>1, <2>2, <2>3, <2>5, <3>1
      DEF ThreadInv, Through1, Through2, m_threads, Team
    <3>2. CASE u # t
      <4>1. ThreadInv(u)  OBVIOUS
      <4>2. pc[u] = "reset1" => RankOf[u] # r
        BY <1>1, <2>5, <4>1 DEF ThreadInv
      <4>3. /\ pc'[u] = pc[u]
            /\ pc[u] = "reset1" => b_count'[RankOf[u]] = b_count[RankOf[u]]
        BY <1>1, <2>1, <2>2, <3>2, <4>2, TeamFacts
      <4>4. AllOpened(done[u] + 1) => AllOpened(done[u] + 1)'
        BY <2>1 DEF AllOpened
      <4>5. QED  BY <2>1, <4>1, <4>3, <4>4, ThreadInvStable
    <3>3. QED  BY <3>1, <3>2
  <2>8. RanksInv'
    <3>1. ASSUME NEW q \in Ranks
          PROVE  \A u, v \in Leading(q)' : u = v
      <4>1. CASE q # r \/ ~last
        <5>1. Leading(q)' \subseteq Leading(q)  BY <2>1, <2>2, <4>1 DEF Leading, Team
        <5>2. QED  BY <5>1 DEF RanksInv
      <4>2. CASE q = r /\ last
        <5>1. Cardinality(Waiting1(r)') = m_threads(r)
          <6>1. Cardinality(Waiting1(r)') = b_count[r] + 1  BY <2>4, <2>5, <2>10
          <6>2. b_count[r] = m_threads(r) - 1  BY <1>4, <4>2
          <6>3. QED  BY <1>1, <6>1, <6>2
        <5>2. Waiting1(r)' \in SUBSET Team(r)  BY DEF Waiting1, Team
        <5>3. Waiting1(r)' = Team(r)
          <6>1. IsFiniteSet(Team(r))  BY <1>1, TeamFacts
          <6>2. QED  BY <5>1, <5>2, <6>1, FS_Subset DEF m_threads
        <5>4. \A u \in Team(r) : u # t => Arrived(u) = opened1[r] + 1
          BY <2>1, <2>2, <5>3 DEF Waiting1, Team
        <5>5. ASSUME NEW u \in Team(r), u # t  PROVE u \notin Leading(r)
          <6>1. ThreadInv(u) /\ RankOf[u] = r /\ u \in Threads  BY DEF Team
          <6>2. Arrived(u) = opened1[r] + 1  BY <5>4, <5>5
          <6>3. pc[u] \notin Through1
            <7>1. ASSUME pc[u] \in Through1  PROVE FALSE
              <8>1. done[u] + 1 = opened1[r]  BY <6>1, <7>1 DEF ThreadInv
              <8>2. Arrived(u) = done[u] + 1  BY <7>1 DEF Arrived, Through1
              <8>3. QED  BY <1>1, <6>1, <6>2, <8>1, <8>2
            <7>2. QED  BY <7>1
          <6>4. pc[u] # "reset1"  BY <1>1, <2>5, <6>1 DEF ThreadInv
          <6>5. QED  BY <6>3, <6>4 DEF Leading, Through1
        <5>6. \A u \in Leading(r)' : u = t
          BY <2>1, <2>2, <5>5 DEF Leading, Team
        <5>7. QED  BY <4>2, <5>6
      <4>3. QED  BY <4>1, <4>2
    <3>2. \A q \in Ranks : \A u \in Team(q) : pc'[u] = "ibarrier" <=> pc[u] = "ibarrier"
      BY <1>1, <2>1, <2>2 DEF Team
    <3>3. \A q \in Ranks : Closing(q)' = Closing(q)
      BY <1>1, <2>1, <2>2 DEF Closing, Team
    <3>4. ASSUME NEW q \in Ranks
          PROVE posted'[q] + (IF \E u \in Team(q) : pc'[u] = "ibarrier" THEN 1 ELSE 0)
                  = FullUpTo(opened1'[q])
      BY <2>1, <3>2 DEF RanksInv
    <3>5. QED  BY <2>1, <3>1, <3>3, <3>4, RanksInvIntro
  <2>9. QED  BY <2>1, <2>6, <2>7, <2>8
<1>5. QED  BY <1>3, <1>4

\* The leader opens the first door: everybody of the team has arrived and
\* nobody of it is through yet.
LEMMA Reset1Inv == ASSUME BarrierInv, NEW t \in Threads, Reset1(t)  PROVE BarrierInv'
<1> USE DEF BarrierInv, TypeOK, Reset1, Goto
<1> DEFINE r == RankOf[t]
<1>1. r \in Ranks /\ t \in Team(r) /\ m_threads(r) \in Nat /\ IsFiniteSet(Team(r))
  BY TeamFacts
<1>2. TypeOK'  BY <1>1 DEF PCs
<1>3. \A u \in Threads : Arrived(u)' = Arrived(u) /\ Counted(u)' = Counted(u)
  BY DEF Arrived, Counted
<1>4. \A u \in Team(r) : u \in Threads /\ Arrived(u) = opened1[r] + 1
  <2>1. Cardinality(Waiting1(r)) = m_threads(r)
    <3>1. ThreadInv(t)  OBVIOUS
    <3>2. b_count[r] = m_threads(r)  BY <3>1 DEF ThreadInv
    <3>3. QED  BY <1>1, <3>2 DEF CountersInv
  <2>2. Waiting1(r) = Team(r)  BY <1>1, <2>1, WaitingFinite
  <2>3. QED  BY <2>2 DEF Waiting1, Team
<1>5. done[t] = opened1[r] /\ opened1[r] = opened2[r]
  <2>1. ThreadInv(t)  OBVIOUS
  <2>2. Arrived(t) = done[t] + 1 /\ done[t] = opened2[r]
    BY <2>1 DEF ThreadInv, Arrived
  <2>3. QED  BY <1>1, <1>4, <2>2
<1>6. \A u \in Team(r) : u # t => u \notin Leading(r) /\ pc[u] \notin Through1
  <2>1. ASSUME NEW u \in Team(r), u # t, pc[u] \in Through1  PROVE FALSE
    <3>1. ThreadInv(u) /\ RankOf[u] = r /\ u \in Threads  BY DEF Team
    <3>2. done[u] + 1 = opened1[r]  BY <2>1, <3>1 DEF ThreadInv
    <3>3. Arrived(u) = done[u] + 1  BY <2>1 DEF Arrived, Through1
    <3>4. Arrived(u) = opened1[r] + 1  BY <1>4
    <3>5. QED  BY <1>1, <3>1, <3>2, <3>3, <3>4
  <2>2. ASSUME NEW u \in Leading(r)  PROVE u = t
    <3>1. t \in Leading(r)  BY <1>1 DEF Leading
    <3>2. QED  BY <1>1, <3>1 DEF RanksInv
  <2>3. QED  BY <2>1, <2>2
<1>7. opened1' = [opened1 EXCEPT ![r] = opened1[r] + 1] /\ opened1[r] \in Nat
  BY <1>1
<1>8. CountersInv'
  <2>1. ASSUME NEW q \in Ranks
        PROVE  Waiting2(q)' = Waiting2(q) /\ (q # r => Waiting1(q)' = Waiting1(q))
    BY <1>3, <1>7 DEF Waiting1, Waiting2, Team
  <2>2. Waiting1(r)' = {}
    <3>1. ASSUME NEW u \in Waiting1(r)'  PROVE FALSE
      <4>1. u \in Team(r) /\ Arrived(u)' = opened1'[r] + 1
        BY DEF Waiting1, Team
      <4>2. Arrived(u) = opened1[r] + 1 /\ Arrived(u)' = Arrived(u)
        BY <1>3, <1>4, <4>1
      <4>3. opened1'[r] = opened1[r] + 1  BY <1>1, <1>7
      <4>4. QED  BY <1>7, <4>1, <4>2, <4>3
    <3>2. QED  BY <3>1
  <2>3. ASSUME NEW q \in Ranks
        PROVE  /\ b_count'[q] = Cardinality(Waiting1(q)')
               /\ b_count2'[q] = m_threads(q) - Cardinality(Waiting2(q)')
               /\ opened1'[q] \in {opened2'[q], opened2'[q] + 1}
    <3>1. CASE q = r
      <4>1. b_count'[r] = 0 /\ Cardinality(Waiting1(r)') = 0
        BY <1>1, <2>2, FS_EmptySet
      <4>2. opened1'[r] = opened2'[r] + 1  BY <1>1, <1>5, <1>7
      <4>3. QED  BY <1>1, <2>1, <3>1, <4>1, <4>2 DEF CountersInv
    <3>2. CASE q # r
      BY <1>7, <2>1, <3>2 DEF CountersInv
    <3>3. QED  BY <3>1, <3>2
  <2>4. QED  BY <2>3 DEF CountersInv, m_threads, Team
<1>9. \A k \in Nat : AllOpened(k) => AllOpened(k)'
  BY <1>1, <1>7 DEF AllOpened
<1>10. ASSUME NEW u \in Threads  PROVE ThreadInv(u)'
  <2>1. ThreadInv(u)  OBVIOUS
  <2>2. CASE u = t
    <3>1. pc'[t] = IF Full(t) THEN "ibarrier" ELSE "load2"  OBVIOUS
    <3>2. Arrived(t)' = opened1'[r] /\ Counted(t)' = opened2'[r] /\ done'[t] = opened2'[r]
      BY <1>1, <1>3, <1>4, <1>5, <1>7 DEF Counted
    <3>3. done[t] + 1 = opened1'[r]  BY <1>1, <1>5, <1>7
    <3>4. QED  BY <1>1, <1>2, <2>1, <2>2, <3>1, <3>2, <3>3
               DEF ThreadInv, Through1, Through2, Full
  <2>3. CASE u # t /\ u \in Team(r)
    <3>1. pc'[u] = pc[u] /\ pc[u] \notin Through1 /\ pc[u] # "reset1"
      BY <1>6, <2>3 DEF Leading
    <3>2. Arrived(u)' = opened1'[r] /\ Counted(u)' = Counted(u) /\ RankOf[u] = r
      BY <1>1, <1>3, <1>4, <1>7, <2>3 DEF Team
    <3>3. QED  BY <1>1, <2>1, <3>1, <3>2 DEF ThreadInv, Through1, Through2
  <2>4. CASE u \notin Team(r)
    <3>1. RankOf[u] # r /\ u # t  BY <1>1, <2>4 DEF Team
    <3>2. pc'[u] = pc[u] /\ opened1'[RankOf[u]] = opened1[RankOf[u]]
      BY <1>7, <3>1, TeamFacts
    <3>3. Arrived(u)' = Arrived(u) /\ Counted(u)' = Counted(u)  BY <1>3
    <3>4. Full(u)' = Full(u) /\ done[u] + 1 \in Nat  BY DEF Full
    <3>5. QED  BY <1>9, <2>1, <3>1, <3>2, <3>3, <3>4
               DEF ThreadInv, m_threads, Team
  <2>5. QED  BY <2>2, <2>3, <2>4
<1>11. RanksInv'
  <2>1. ASSUME NEW q \in Ranks
        PROVE  Leading(q)' \subseteq Leading(q) /\ Closing(q)' = Closing(q)
    BY DEF Leading, Closing, Team
  <2>2. ASSUME NEW q \in Ranks
        PROVE posted[q] + (IF \E u \in Team(q) : pc'[u] = "ibarrier" THEN 1 ELSE 0)
                 = FullUpTo(opened1'[q])
    <3>1. CASE q = r
      <4>1. \A u \in Team(r) : pc[u] # "ibarrier"  BY <1>6 DEF Through1
      <4>2. posted[r] = FullUpTo(opened1[r])  BY <1>1, <4>1 DEF RanksInv
      <4>3. FullUpTo(opened1[r] + 1) = IF Full(t) THEN FullUpTo(opened1[r]) + 1
                                                  ELSE FullUpTo(opened1[r])
        BY <1>5, <1>7, FullUpToFacts DEF Full
      <4>4. (\E u \in Team(r) : pc'[u] = "ibarrier") <=> Full(t)
        BY <1>1, <4>1 DEF Team
      <4>5. opened1'[r] = opened1[r] + 1  BY <1>1, <1>7
      <4>6. QED  BY <1>1, <3>1, <4>2, <4>3, <4>4, <4>5
    <3>2. CASE q # r
      <4>1. \A u \in Team(q) : pc'[u] = pc[u]  BY <3>2 DEF Team
      <4>2. QED  BY <1>7, <3>2, <4>1 DEF RanksInv
    <3>3. QED  BY <3>1, <3>2
  <2>3. UNCHANGED <<opened2, posted>>  OBVIOUS
  <2>4. \A q \in Ranks : opened1'[q] \in Nat /\ opened1'[q] >= opened1[q]
    BY <1>7
  <2>5. QED  BY <2>1, <2>2, <2>3, <2>4, RanksInvIntro
<1>12. QED  BY <1>2, <1>8, <1>10, <1>11

\* The down-count: nobody takes part twice in a round, so the counter never
\* goes below zero and reaches it only with the last thread of the team.
LEMMA Cas2Inv == ASSUME BarrierInv, NEW t \in Threads, Cas2(t)  PROVE BarrierInv'
<1> USE DEF BarrierInv, TypeOK, Cas2, Goto
<1> DEFINE r == RankOf[t]
<1>1. r \in Ranks /\ t \in Team(r) /\ m_threads(r) \in Nat  BY TeamFacts
<1>2. ThreadInv(t)  OBVIOUS
<1>3. CASE b_count2[r] # ex[t]
  <2>1. TypeOK' /\ pc' = [pc EXCEPT ![t] = "cas2"]  BY <1>1, <1>3 DEF PCs
  <2>2. Arrived(t)' = Arrived(t) /\ Counted(t)' = Counted(t)
    BY <1>3 DEF Arrived, Counted
  <2>3. ThreadInv(t)'
    BY <1>2, <1>3, <2>2 DEF ThreadInv, Through1, Through2, Full, AllOpened
  <2>4. QED  BY <1>3, <2>1, <2>2, <2>3, MoveInv DEF PCs
<1>4. CASE b_count2[r] = ex[t]
  <2>1. Counted(t) = opened2[r] /\ done[t] = opened2[r] /\ opened2[r] \in Nat
    BY <1>1, <1>2 DEF ThreadInv, Counted
  <2>2. t \notin Waiting2(r)  BY <2>1 DEF Waiting2
  <2>3. /\ b_count2[r] = m_threads(r) - Cardinality(Waiting2(r))
        /\ Cardinality(Waiting2(r)) < m_threads(r)
        /\ Cardinality(Waiting2(r)) \in Nat
    <3>1. b_count2[r] = m_threads(r) - Cardinality(Waiting2(r))
      BY <1>1 DEF CountersInv
    <3>2. QED  BY <1>1, <2>2, <3>1, WaitingFinite
  <2>4. b_count2[r] \in Nat \ {0}  BY <1>1, <2>3
  <2> DEFINE label == IF b_count2[r] = 1 THEN "reset2" ELSE "spin2"
  <2>5. /\ TypeOK'
        /\ b_count2' = [b_count2 EXCEPT ![r] = @ - 1]
        /\ pc' = [pc EXCEPT ![t] = label]
        /\ UNCHANGED <<b_count, posted, done, opened1, opened2>>
    BY <1>1, <1>4, <2>4 DEF PCs
  <2>6. \A u \in Threads : /\ Arrived(u)' = Arrived(u)
                           /\ Counted(u)' = IF u = t THEN Counted(u) + 1 ELSE Counted(u)
                           /\ u # t => pc'[u] = pc[u]
    BY <2>5 DEF Arrived, Counted
  <2>7. Waiting2(r)' = Waiting2(r) \cup {t}
    BY <1>1, <2>1, <2>5, <2>6 DEF Waiting2, Team
  <2>8. Cardinality(Waiting2(r) \cup {t}) = Cardinality(Waiting2(r)) + 1
    <3>1. IsFiniteSet(Waiting2(r))  BY <1>1, WaitingFinite
    <3>2. QED  BY <2>2, <3>1, FS_AddElement
  <2>9. CountersInv'
    <3>1. ASSUME NEW q \in Ranks
          PROVE  Waiting1(q)' = Waiting1(q) /\ (q # r => Waiting2(q)' = Waiting2(q))
      BY <2>5, <2>6 DEF Waiting1, Waiting2, Team
    <3>2. b_count2'[r] = m_threads(r) - Cardinality(Waiting2(r)')
      BY <1>1, <2>3, <2>5, <2>7, <2>8
    <3>3. ASSUME NEW q \in Ranks
          PROVE  /\ b_count'[q] = Cardinality(Waiting1(q)')
                 /\ b_count2'[q] = m_threads(q) - Cardinality(Waiting2(q)')
                 /\ opened1'[q] \in {opened2'[q], opened2'[q] + 1}
      <4>1. CASE q = r  BY <2>5, <3>1, <3>2, <4>1 DEF CountersInv
      <4>2. CASE q # r  BY <2>5, <3>1, <4>2 DEF CountersInv
      <4>3. QED  BY <4>1, <4>2
    <3>4. QED  BY <3>3 DEF CountersInv, m_threads, Team
  <2>10. \A u \in Team(r) : pc[u] # "reset2"
    <3>1. ASSUME NEW u \in Team(r), pc[u] = "reset2"  PROVE FALSE
      <4>1. ThreadInv(u) /\ RankOf[u] = r  BY DEF Team
      <4>2. b_count2[r] = 0  BY <3>1, <4>1 DEF ThreadInv
      <4>3. QED  BY <2>4, <4>2
    <3>2. QED  BY <3>1
  <2>11. ASSUME NEW u \in Threads  PROVE ThreadInv(u)'
    <3>1. CASE u = t
      <4>1. pc'[t] = label /\ (label = "reset2" => b_count2'[r] = 0)
        BY <1>1, <2>4, <2>5
      <4>2. Arrived(t)' = Arrived(t) /\ Counted(t)' = opened2'[r] + 1
        BY <1>1, <2>1, <2>5, <2>6
      <4>3. QED  BY <1>1, <1>2, <2>1, <2>5, <3>1, <4>1, <4>2
                 DEF ThreadInv, Through1, Through2, Full, AllOpened
    <3>2. CASE u # t
      <4>1. ThreadInv(u)  OBVIOUS
      <4>2. /\ pc'[u] = pc[u]
            /\ pc[u] = "reset2" => b_count2'[RankOf[u]] = b_count2[RankOf[u]]
        BY <1>1, <2>5, <2>6, <2>10, <3>2, TeamFacts
      <4>3. AllOpened(done[u] + 1) => AllOpened(done[u] + 1)'
        BY <2>5 DEF AllOpened
      <4>4. QED  BY <2>5, <4>1, <4>2, <4>3, ThreadInvStable
    <3>3. QED  BY <3>1, <3>2
  <2>12. RanksInv'
    <3>1. ASSUME NEW q \in Ranks  PROVE Leading(q)' \subseteq Leading(q)
      BY <2>5, <2>6 DEF Leading, Team
    <3>2. ASSUME NEW q \in Ranks
          PROVE  Closing(q)' \subseteq Closing(q) \/ \A u, v \in Closing(q)' : u = v
      <4>1. CASE q # r  BY <2>5, <2>6, <4>1 DEF Closing, Team
      <4>2. CASE q = r
        <5>1. \A u \in Closing(r)' : u = t  BY <2>6, <2>10 DEF Closing, Team
        <5>2. QED  BY <4>2, <5>1
      <4>3. QED  BY <4>1, <4>2
    <3>3. ASSUME NEW q \in Ranks
          PROVE posted'[q] + (IF \E u \in Team(q) : pc'[u] = "ibarrier" THEN 1 ELSE 0)
                  = FullUpTo(opened1'[q])
      <4>1. \A u \in Team(q) : pc'[u] = "ibarrier" <=> pc[u] = "ibarrier"
        BY <2>5, <2>6 DEF Team
      <4>2. QED  BY <2>5, <4>1 DEF RanksInv
    <3>4. QED  BY <2>5, <3>1, <3>2, <3>3, RanksInvIntro
  <2>13. QED  BY <2>5, <2>9, <2>11, <2>12
<1>5. QED  BY <1>3, <1>4

\* The last thread opens the second door: everybody of the team has counted
\* down and the next round can begin.
LEMMA Reset2Inv == ASSUME BarrierInv, NEW t \in Threads, Reset2(t)  PROVE BarrierInv'
<1> USE DEF BarrierInv, TypeOK, Reset2, Goto
<1> DEFINE r == RankOf[t]
<1>1. r \in Ranks /\ t \in Team(r) /\ m_threads(r) \in Nat
  BY TeamFacts
<1>2. TypeOK'  BY <1>1 DEF PCs
<1>3. \A u \in Threads : Arrived(u)' = Arrived(u) /\ Counted(u)' = Counted(u)
  BY DEF Arrived, Counted
<1>4. ThreadInv(t)  OBVIOUS
<1>5. \A u \in Team(r) : u \in Threads /\ Counted(u) = opened2[r] + 1
  <2>1. b_count2[r] = 0  BY <1>4 DEF ThreadInv
  <2>2. Cardinality(Waiting2(r)) = m_threads(r)
    <3>1. b_count2[r] = m_threads(r) - Cardinality(Waiting2(r))
      BY <1>1 DEF CountersInv
    <3>2. Cardinality(Waiting2(r)) \in Nat  BY <1>1, WaitingFinite
    <3>3. QED  BY <1>1, <2>1, <3>1, <3>2
  <2>3. Waiting2(r) = Team(r)  BY <1>1, <2>2, WaitingFinite
  <2>4. QED  BY <2>3 DEF Waiting2, Team
<1>6. /\ opened1[r] \in Nat /\ opened2[r] \in Nat /\ done[t] = opened2[r]
      /\ opened1[r] = opened2[r] + 1 /\ done'[t] = done[t] + 1
      /\ opened2' = [opened2 EXCEPT ![r] = opened2[r] + 1]
  <2>1. Counted(t) = done[t] + 1  BY DEF Counted
  <2>2. done[t] + 1 = opened1[r]  BY <1>4 DEF ThreadInv, Through1
  <2>3. QED  BY <1>1, <1>5, <2>1, <2>2
<1>7. ASSUME NEW u \in Team(r)
      PROVE  pc[u] \in {"spin2", "reset2"} /\ (pc[u] = "reset2" => u = t)
  <2>1. ThreadInv(u) /\ RankOf[u] = r /\ u \in Threads  BY DEF Team
  <2>2. pc[u] \in {"spin2", "reset2"}
    <3>1. ASSUME pc[u] \notin {"spin2", "reset2"}  PROVE FALSE
      <4>1. done[u] = opened2[r]  BY <2>1, <3>1 DEF ThreadInv
      <4>2. Counted(u) = done[u]  BY <3>1 DEF Counted
      <4>3. QED  BY <1>5, <1>6, <4>1, <4>2
    <3>2. QED  BY <3>1
  <2>3. pc[u] = "reset2" => u = t
    <3>1. t \in Closing(r) /\ (pc[u] = "reset2" => u \in Closing(r))
      BY <1>1 DEF Closing
    <3>2. QED  BY <1>1, <3>1 DEF RanksInv
  <2>4. QED  BY <2>2, <2>3
<1>8. CountersInv'
  <2>1. ASSUME NEW q \in Ranks
        PROVE  Waiting1(q)' = Waiting1(q) /\ (q # r => Waiting2(q)' = Waiting2(q))
    BY <1>3, <1>6 DEF Waiting1, Waiting2, Team
  <2>2. Waiting2(r)' = {}
    <3>1. ASSUME NEW u \in Waiting2(r)'  PROVE FALSE
      <4>1. u \in Team(r) /\ Counted(u)' = opened2'[r] + 1
        BY DEF Waiting2, Team
      <4>2. Counted(u) = opened2[r] + 1 /\ Counted(u)' = Counted(u)
        BY <1>3, <1>5, <4>1
      <4>3. opened2'[r] = opened2[r] + 1  BY <1>1, <1>6
      <4>4. QED  BY <1>6, <4>1, <4>2, <4>3
    <3>2. QED  BY <3>1
  <2>3. ASSUME NEW q \in Ranks
        PROVE  /\ b_count'[q] = Cardinality(Waiting1(q)')
               /\ b_count2'[q] = m_threads(q) - Cardinality(Waiting2(q)')
               /\ opened1'[q] \in {opened2'[q], opened2'[q] + 1}
    <3>1. CASE q = r
      <4>1. b_count2'[r] = m_threads(r) /\ Cardinality(Waiting2(r)') = 0
        BY <1>1, <2>2, FS_EmptySet
      <4>2. opened1'[r] = opened2'[r]  BY <1>1, <1>6
      <4>3. b_count[r] = Cardinality(Waiting1(r))  BY <1>1 DEF CountersInv
      <4>4. QED  BY <1>1, <2>1, <3>1, <4>1, <4>2, <4>3
    <3>2. CASE q # r
      BY <1>6, <2>1, <3>2 DEF CountersInv
    <3>3. QED  BY <3>1, <3>2
  <2>4. QED  BY <2>3 DEF CountersInv, m_threads, Team
<1>9. ASSUME NEW u \in Threads  PROVE ThreadInv(u)'
  <2>1. ThreadInv(u)  OBVIOUS
  <2>2. CASE u = t
    <3>1. Arrived(t)' = Arrived(t) /\ Counted(t)' = opened2'[r]
      BY <1>1, <1>3, <1>5, <1>6
    <3>2. pc'[t] = "out" /\ done'[t] = opened2'[r]  BY <1>1, <1>6
    <3>3. QED  BY <1>1, <2>1, <2>2, <3>1, <3>2 DEF ThreadInv, Through1, Through2
  <2>3. CASE u # t /\ u \in Team(r)
    <3>1. pc'[u] = pc[u] /\ pc[u] = "spin2" /\ done'[u] = done[u]  BY <1>7, <2>3
    <3>2. Arrived(u)' = Arrived(u) /\ Counted(u)' = opened2'[r] /\ RankOf[u] = r
      BY <1>1, <1>3, <1>5, <1>6, <2>3 DEF Team
    <3>3. QED  BY <1>1, <2>1, <3>1, <3>2
               DEF ThreadInv, Through1, Through2, Full, AllOpened
  <2>4. CASE u \notin Team(r)
    <3>1. RankOf[u] # r /\ u # t  BY <1>1, <2>4 DEF Team
    <3>2. /\ pc'[u] = pc[u] /\ done'[u] = done[u]
          /\ opened2'[RankOf[u]] = opened2[RankOf[u]]
          /\ b_count2'[RankOf[u]] = b_count2[RankOf[u]]
      BY <1>6, <3>1, TeamFacts
    <3>3. AllOpened(done[u] + 1) => AllOpened(done[u] + 1)'  BY <3>2 DEF AllOpened
    <3>4. QED  BY <2>1, <3>2, <3>3, ThreadInvStable
  <2>5. QED  BY <2>2, <2>3, <2>4
<1>10. RanksInv'
  <2>1. ASSUME NEW q \in Ranks
        PROVE  Leading(q)' = Leading(q) /\ Closing(q)' \subseteq Closing(q)
    BY DEF Leading, Closing, Team
  <2>2. ASSUME NEW q \in Ranks, NEW k \in 1 .. opened2'[q], k \in FullRounds
        PROVE  AllOpened(k)
    <3>1. CASE q = r /\ k = opened2[r] + 1
      <4>1. Full(t)  BY <1>6, <2>2, <3>1 DEF Full
      <4>2. QED  BY <1>4, <1>6, <3>1, <4>1 DEF ThreadInv, Through2
    <3>2. CASE k \in 1 .. opened2[q]
      BY <2>2, <3>2 DEF RanksInv
    <3>3. QED  BY <1>1, <1>6, <2>2, <3>1, <3>2
  <2>3. ASSUME NEW q \in Ranks
        PROVE posted[q] + (IF \E u \in Team(q) : pc'[u] = "ibarrier" THEN 1 ELSE 0)
                = FullUpTo(opened1[q])
    <3>1. \A u \in Team(q) : pc'[u] = "ibarrier" <=> pc[u] = "ibarrier"
      BY DEF Team
    <3>2. QED  BY <3>1 DEF RanksInv
  <2>4. ASSUME NEW q \in Ranks
        PROVE  (\A u, v \in Leading(q)' : u = v) /\ (\A u, v \in Closing(q)' : u = v)
    BY <2>1 DEF RanksInv
  <2>5. QED  BY <2>2, <2>3, <2>4 DEF RanksInv, AllOpened, FullUpTo, Team
<1>11. QED  BY <1>2, <1>8, <1>9, <1>10

\* A thread in the last loop sees b_count2 refilled only after its own round's
\* second door was opened.
LEMMA Spin2Inv == ASSUME BarrierInv, NEW t \in Threads, Spin2(t)  PROVE BarrierInv'
<1> USE DEF BarrierInv, TypeOK, Spin2, Goto
<1> DEFINE r == RankOf[t]
<1>1. r \in Ranks /\ t \in Team(r) /\ m_threads(r) \in Nat  BY TeamFacts
<1>2. TypeOK'  BY <1>1 DEF PCs
<1>3. \A u \in Threads : Arrived(u)' = Arrived(u) /\ Counted(u)' = Counted(u)
  BY DEF Arrived, Counted
<1>4. CountersInv'  BY <1>3, CountersStable
<1>5. ThreadInv(t)  OBVIOUS
<1>6. done[t] + 1 = opened2[r]
  <2>1. Cardinality(Waiting2(r)) = 0
    <3>1. b_count2[r] = m_threads(r) - Cardinality(Waiting2(r))
      BY <1>1 DEF CountersInv
    <3>2. Cardinality(Waiting2(r)) \in Nat  BY <1>1, WaitingFinite
    <3>3. QED  BY <1>1, <3>1, <3>2
  <2>2. Waiting2(r) = {}  BY <1>1, <2>1, WaitingFinite, FS_EmptySet
  <2>3. Counted(t) # opened2[r] + 1  BY <1>1, <2>2 DEF Waiting2
  <2>4. QED  BY <1>5, <2>3 DEF ThreadInv, Counted
<1>7. ASSUME NEW u \in Threads  PROVE ThreadInv(u)'
  <2>1. ThreadInv(u)  OBVIOUS
  <2>2. CASE u = t
    <3>1. pc'[t] = "out" /\ done'[t] = opened2'[r]  BY <1>6
    <3>2. QED  BY <1>3, <2>1, <2>2, <3>1 DEF ThreadInv, Through1, Through2
  <2>3. CASE u # t
    <3>1. /\ pc'[u] = pc[u] /\ done'[u] = done[u]
          /\ UNCHANGED <<b_count, b_count2, opened1, opened2>>
      BY <2>3
    <3>2. AllOpened(done[u] + 1) => AllOpened(done[u] + 1)'
      BY <3>1 DEF AllOpened
    <3>3. QED  BY <2>1, <3>1, <3>2, ThreadInvStable
  <2>4. QED  BY <2>2, <2>3
<1>8. RanksInv'
  <2>1. ASSUME NEW q \in Ranks
        PROVE  Leading(q)' \subseteq Leading(q) /\ Closing(q)' \subseteq Closing(q)
    BY DEF Leading, Closing, Team
  <2>2. ASSUME NEW q \in Ranks
        PROVE posted'[q] + (IF \E u \in Team(q) : pc'[u] = "ibarrier" THEN 1 ELSE 0)
                = FullUpTo(opened1'[q])
    <3>1. \A u \in Team(q) : pc'[u] = "ibarrier" <=> pc[u] = "ibarrier"
      BY DEF Team
    <3>2. QED  BY <3>1 DEF RanksInv
  <2>3. QED  BY <2>1, <2>2, RanksInvIntro
<1>9. QED  BY <1>2, <1>4, <1>7, <1>8

\* Nothing changes: neither does the invariant.
LEMMA StutterInv == ASSUME BarrierInv, UNCHANGED vars  PROVE BarrierInv'
<1> USE DEF vars
<1>1. TypeOK'  BY DEF BarrierInv, TypeOK
<1>2. CountersInv'
  BY CountersStable DEF BarrierInv, Arrived, Counted
<1>3. ASSUME NEW u \in Threads  PROVE ThreadInv(u)'
  BY ThreadInvStable DEF BarrierInv, AllOpened
<1>4. RanksInv'
  BY ZenonT(40) DEF BarrierInv, RanksInv, Leading, Closing, Team, AllOpened, FullUpTo
<1>5. QED  BY <1>1, <1>2, <1>3, <1>4 DEF BarrierInv

LEMMA NextInv == BarrierInv /\ [Next]_vars => BarrierInv'
<1> SUFFICES ASSUME BarrierInv, [Next]_vars  PROVE BarrierInv'  OBVIOUS
<1>1. ASSUME NEW t \in Threads, Step(t)  PROVE BarrierInv'
  BY <1>1, EnterInv, Cas1Inv, Reset1Inv, Spin1Inv, IbarrierInv, TestIbarrierInv,
     GateInv, Load2Inv, Cas2Inv, Reset2Inv, Spin2Inv DEF Step
<1>2. CASE UNCHANGED vars  BY <1>2, StutterInv
<1>3. QED  BY <1>1, <1>2 DEF Next, Finished
-----------------------------------------------------------------------------
\* BarrierInv is an invariant of the barrier, for any ranks, threads and calls
\* (barrier.hpp:73-148); its first conjunct is type correctness, so in
\* particular neither counter ever goes below zero.
THEOREM BarrierInvariant == Spec => []BarrierInv
<1>1. QED  BY InitInv, NextInv, PTL DEF Spec

\* Type correctness of the barrier's counters and program counters.
THEOREM BarrierTypes == Spec => []TypeOK
<1>1. BarrierInv => TypeOK  BY DEF BarrierInv
<1>2. QED  BY <1>1, BarrierInvariant, PTL

\* A thread has returned from at most as many calls as second doors were opened.
LEMMA DoneBound ==
    ASSUME BarrierInv, NEW t \in Threads
    PROVE  /\ done[t] \in Nat /\ opened2[RankOf[t]] \in Nat /\ opened1[RankOf[t]] \in Nat
           /\ done[t] <= opened2[RankOf[t]]
           /\ opened2[RankOf[t]] <= opened1[RankOf[t]]
           /\ opened1[RankOf[t]] <= Arrived(t)
<1>1. ThreadInv(t) /\ RankOf[t] \in Ranks  BY TeamFacts DEF BarrierInv
<1>2. done[t] \in Nat /\ opened1[RankOf[t]] \in Nat /\ opened2[RankOf[t]] \in Nat
  BY <1>1 DEF BarrierInv, TypeOK
<1>3. opened1[RankOf[t]] \in {opened2[RankOf[t]], opened2[RankOf[t]] + 1}
  BY <1>1 DEF BarrierInv, CountersInv
<1>4. done[t] <= opened2[RankOf[t]]
  BY <1>1, <1>2 DEF ThreadInv, Counted
<1>5. opened1[RankOf[t]] <= Arrived(t)
  BY <1>1, <1>2 DEF ThreadInv
<1>6. QED  BY <1>2, <1>3, <1>4, <1>5

\* The barrier's promise: nobody returns from a call before everybody it
\* synchronizes with has arrived at it (barrier.hpp:67-83, 106-118).
THEOREM BarrierSynchronizes == Spec => []Synchronized
<1>1. BarrierInv => Synchronized
  <2> SUFFICES ASSUME BarrierInv, NEW t \in Threads, NEW u \in Threads,
                      NEW k \in 1 .. done[t],
                      RankOf[t] = RankOf[u] \/ k \in FullRounds
               PROVE  Arrived(u) >= k
    BY DEF Synchronized
  <2> DEFINE r == RankOf[t]
             q == RankOf[u]
  <2>1. done[t] \in Nat /\ opened2[r] \in Nat /\ k \in 1 .. opened2[r]
    BY DoneBound
  <2>2. Arrived(u) \in Nat /\ opened1[q] \in Nat /\ opened1[q] <= Arrived(u)
    <3>1. Arrived(u) \in Nat  BY DEF BarrierInv, TypeOK, Arrived
    <3>2. QED  BY <3>1, DoneBound
  <2>3. opened1[q] >= k
    <3>1. CASE r = q
      BY <2>1, <3>1, DoneBound
    <3>2. CASE k \in FullRounds
      <4>1. AllOpened(k)  BY <2>1, <3>2, TeamFacts DEF BarrierInv, RanksInv
      <4>2. QED  BY <4>1, TeamFacts DEF AllOpened
    <3>3. QED  BY <3>1, <3>2
  <2>4. QED  BY <2>1, <2>2, <2>3
<1>2. QED  BY <1>1, BarrierInvariant, PTL

\* One leader per rank and round, and one MPI_Ibarrier per rank and operator()
\* round (barrier.hpp:35-41, 75-76).
THEOREM BarrierElectsOneLeader == Spec => []OneIbarrierPerRound
<1>1. BarrierInv => OneIbarrierPerRound
  <2> SUFFICES ASSUME BarrierInv, NEW r \in Ranks
               PROVE  /\ Cardinality(Leading(r)) <= 1
                      /\ \A t \in Team(r) : /\ posted[r] >= FullUpTo(done[t])
                                            /\ posted[r] <= FullUpTo(Arrived(t))
    BY DEF OneIbarrierPerRound
  <2>1. Cardinality(Leading(r)) <= 1
    <3>1. CASE Leading(r) = {}  BY <3>1, FS_EmptySet
    <3>2. CASE Leading(r) # {}
      <4>1. PICK t \in Leading(r) : TRUE  BY <3>2
      <4>2. Leading(r) = {t}  BY <4>1 DEF BarrierInv, RanksInv
      <4>3. QED  BY <4>2, FS_Singleton
    <3>3. QED  BY <3>1, <3>2
  <2>2. ASSUME NEW t \in Team(r)
        PROVE  posted[r] >= FullUpTo(done[t]) /\ posted[r] <= FullUpTo(Arrived(t))
    <3>1. t \in Threads /\ RankOf[t] = r  BY DEF Team
    <3>2. /\ done[t] \in Nat /\ opened2[r] \in Nat /\ opened1[r] \in Nat
          /\ done[t] <= opened2[r] /\ opened2[r] <= opened1[r]
          /\ opened1[r] <= Arrived(t)
      BY <3>1, DoneBound
    <3>3. Arrived(t) \in Nat  BY <3>1, <3>2 DEF Arrived
    <3>4. /\ FullUpTo(done[t]) <= FullUpTo(opened2[r])
          /\ FullUpTo(opened2[r]) <= FullUpTo(opened1[r])
          /\ FullUpTo(opened1[r]) <= FullUpTo(Arrived(t))
      BY <3>2, <3>3, FullUpToFacts
    <3>5. /\ FullUpTo(done[t]) \in Nat /\ FullUpTo(opened2[r]) \in Nat
          /\ FullUpTo(opened1[r]) \in Nat /\ FullUpTo(Arrived(t)) \in Nat
      BY <3>2, <3>3, FullUpToFacts
    <3>6. posted[r] \in Nat  BY DEF BarrierInv, TypeOK
    <3>7. CASE \A u \in Team(r) : pc[u] # "ibarrier"
      <4>1. posted[r] = FullUpTo(opened1[r])
        BY <3>6, <3>7 DEF BarrierInv, RanksInv
      <4>2. QED  BY <3>4, <3>5, <4>1
    <3>8. CASE \E u \in Team(r) : pc[u] = "ibarrier"
      <4>1. PICK u \in Team(r) : pc[u] = "ibarrier"  BY <3>8
      <4>2. ThreadInv(u) /\ u \in Threads /\ RankOf[u] = r
        BY DEF BarrierInv, Team
      <4>3. opened1[r] = opened2[r] + 1 /\ opened2[r] + 1 \in FullRounds
        BY <4>1, <4>2 DEF ThreadInv, Through1, Full
      <4>4. FullUpTo(opened1[r]) = FullUpTo(opened2[r]) + 1
        BY <3>2, <4>3, FullUpToFacts
      <4>5. posted[r] + 1 = FullUpTo(opened1[r])
        BY <3>8 DEF BarrierInv, RanksInv
      <4>6. QED  BY <3>4, <3>5, <3>6, <4>4, <4>5
    <3>9. QED  BY <3>7, <3>8
  <2>3. QED  BY <2>1, <2>2
<1>2. QED  BY <1>1, BarrierInvariant, PTL

\* Every step of the barrier is a step of the abstract one, or none at all: the
\* safety part of ImplementsBarrier.
THEOREM BarrierRefines == Spec => A!Init /\ [][A!Next]_(A!vars)
<1>1. Init => A!Init
  BY DEF Init, A!Init, Arrived
<1>2. BarrierInv /\ [Next]_vars => [A!Next]_(A!vars)
  <2> SUFFICES ASSUME BarrierInv, [Next]_vars  PROVE [A!Next]_(A!vars)
    OBVIOUS
  <2> DEFINE arrived == [t \in Threads |-> Arrived(t)]
  <2>1. ASSUME NEW t \in Threads,
               Enter(t) \/ Reset1(t) \/ Spin1(t) \/ Ibarrier(t)
                 \/ TestIbarrier(t) \/ Gate(t) \/ Load2(t) \/ Cas2(t)
        PROVE  UNCHANGED A!vars
    <3>1. /\ done' = done
          /\ \A u \in Threads : Arrived(u)' = Arrived(u)
      BY <2>1 DEF Enter, Reset1, Spin1, Ibarrier, TestIbarrier, Gate, Load2, Cas2,
                  Goto, Arrived, BarrierInv, TypeOK
    <3>2. QED  BY <3>1 DEF A!vars
  <2>2. ASSUME NEW t \in Threads, Cas1(t)  PROVE [A!Next]_(A!vars)
    <3>1. CASE b_count[RankOf[t]] # ex[t]
      <4>1. UNCHANGED <<pc, done>>  BY <2>2, <3>1 DEF Cas1
      <4>2. QED  BY <4>1 DEF A!vars, Arrived
    <3>2. CASE b_count[RankOf[t]] = ex[t]
      <4>1. /\ done' = done
            /\ \A u \in Threads :
                 Arrived(u)' = IF u = t THEN Arrived(u) + 1 ELSE Arrived(u)
        BY <2>2, <3>2 DEF Cas1, Goto, Arrived, BarrierInv, TypeOK
      <4>2. Arrived(t) = done[t] /\ done[t] < MaxRound
        <5>1. ThreadInv(t)  BY DEF BarrierInv
        <5>2. QED  BY <2>2, <5>1 DEF Cas1, Arrived, ThreadInv
      <4>3. arrived' = [arrived EXCEPT ![t] = @ + 1]  BY <4>1
      <4>4. A!Arrive(t)  BY <4>1, <4>2, <4>3 DEF A!Arrive
      <4>5. QED  BY <4>4 DEF A!Next
    <3>3. QED  BY <3>1, <3>2
  <2>3. ASSUME NEW t \in Threads, Reset2(t) \/ Spin2(t)  PROVE [A!Next]_(A!vars)
    <3>1. /\ done' = [done EXCEPT ![t] = @ + 1]
          /\ \A u \in Threads : Arrived(u)' = Arrived(u)
      BY <2>3 DEF Reset2, Spin2, Goto, Arrived, BarrierInv, TypeOK
    <3>2. Arrived(t) = done[t] + 1 /\ pc[t] \in Through1 /\ pc[t] \in Through2
      BY <2>3 DEF Reset2, Spin2, Arrived, Through1, Through2
    <3>3. \A u \in A!Group(t, done[t] + 1) : u \in Threads /\ Arrived(u) >= done[t] + 1
      <4>1. ThreadInv(t)  BY DEF BarrierInv
      <4>2. ASSUME NEW u \in A!Group(t, done[t] + 1)
            PROVE  u \in Threads /\ opened1[RankOf[u]] >= done[t] + 1
        <5>1. CASE done[t] + 1 \in FullRounds
          <6>1. AllOpened(done[t] + 1)  BY <3>2, <4>1, <5>1 DEF ThreadInv, Full
          <6>2. u \in Threads  BY <5>1 DEF A!Group
          <6>3. QED  BY <6>1, <6>2, TeamFacts DEF AllOpened
        <5>2. CASE done[t] + 1 \notin FullRounds
          <6>1. u \in Threads /\ RankOf[u] = RankOf[t]  BY <5>2 DEF A!Group
          <6>2. done[t] + 1 = opened1[RankOf[t]]  BY <3>2, <4>1 DEF ThreadInv
          <6>3. QED  BY <6>1, <6>2, DoneBound
        <5>3. QED  BY <5>1, <5>2
      <4>3. ASSUME NEW u \in A!Group(t, done[t] + 1)
            PROVE  u \in Threads /\ Arrived(u) >= done[t] + 1
        <5>1. u \in Threads /\ opened1[RankOf[u]] >= done[t] + 1  BY <4>2
        <5>2. done[t] \in Nat /\ Arrived(u) \in Nat
          BY <5>1 DEF BarrierInv, TypeOK, Arrived
        <5>3. QED  BY <5>1, <5>2, DoneBound
      <4>4. QED  BY <4>3
    <3>4. A!Leave(t)
      <4>1. arrived' = arrived  BY <3>1
      <4>2. arrived[t] = done[t] + 1  BY <3>2
      <4>3. \A u \in A!Group(t, done[t] + 1) : arrived[u] >= done[t] + 1
        BY <3>3
      <4>4. QED  BY <3>1, <4>1, <4>2, <4>3 DEF A!Leave
    <3>5. QED  BY <3>4 DEF A!Next
  <2>4. CASE UNCHANGED vars
    BY <2>4 DEF vars, A!vars, Arrived
  <2>5. QED  BY <2>1, <2>2, <2>3, <2>4 DEF Next, Step, Finished
<1>3. QED  BY <1>1, <1>2, BarrierInvariant, PTL DEF Spec
=============================================================================
