SPECIFICATION Spec
CONSTANTS
  t1 = t1
  t2 = t2
  t3 = t3
  da = da
  db = db
  dc = dc
  A = A
  B = B
  f = f
  g = g
  h = h
  x1 = x1
  x2 = x2
  x3 = x3
  y1 = y1
  y2 = y2
  Threads = {t1, t2, t3}
  RankOf <- MCRankOf
  Domains = {da, db, dc}
  OwnerOf <- MCOwnerOfThreads
  Patterns = {A, B}
  HalosOf <- MCHalosOf
  TagOf <- MCTagOf
  MaxTagOf <- MCMaxTagOf
  Fields = {f, g}
  PatternOf <- MCPatternOf
  COs = {x1, x2, x3}
  ThreadOf <- MCThreadOf
  Program <- MCProgramThreads
  MaxCalls = 2
  TagUB = 3
INVARIANT MessagesMatch
