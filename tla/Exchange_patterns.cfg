SPECIFICATION Spec
CONSTANTS
  t1 = t1
  t2 = t2
  t3 = t3
  da = da
  db = db
  dc = dc
  A = A
  B = B
  f = f
  g = g
  h = h
  x1 = x1
  x2 = x2
  x3 = x3
  y1 = y1
  y2 = y2
  Threads = {t1, t2}
  RankOf <- MCRankOf
  Domains = {da, db, dc}
  OwnerOf <- MCOwnerOf
  Patterns = {A, B}
  HalosOf <- MCHalosOf
  TagOf <- MCTagOf
  MaxTagOf <- MCMaxTagOf
  Fields = {f, g, h}
  PatternOf <- MCPatternOf
  COs = {x1, x2, y1, y2}
  ThreadOf <- MCThreadOf
  Program <- MCProgram
  MaxCalls = 3
  TagUB = 3
INVARIANTS MessagesMatch HaloFresh
PROPERTIES AllExchangesComplete ImplementsHaloRounds
