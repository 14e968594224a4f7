SPECIFICATION Spec
CONSTANTS
  r1 = r1
  r2 = r2
  t1 = t1
  t2 = t2
  t3 = t3
  t4 = t4
  Ranks = {r1, r2}
  Threads = {t1, t2, t3, t4}
  RankOf <- MCRankOf4
  FullRounds = {1, 3}
  MaxRound = 3
INVARIANTS Synchronized OneIbarrierPerRound
PROPERTIES AllCallsReturn ImplementsBarrier
