SPECIFICATION ViewSpec
CONSTANTS
  r1 = r1
  Ranks = {r1}
  Threads = {t1, t2, t3}
  RankOf <- MCRankOf
  FullRounds = {}
  MaxRound = 1
INVARIANT ReturnHappensAfterAllArrivals
