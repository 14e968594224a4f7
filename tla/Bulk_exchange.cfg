SPECIFICATION Spec
CONSTANTS
  a = a
  b = b
  c = c
  aa = aa
  ab = ab
  ba = ba
  bc = bc
  COs = {a, b, c}
  Links = {ab, ba, bc}
  Local = {ab, ba}
  Src <- MCSrc
  Dst <- MCDst
  MaxRound = 2
  MaxVersion = 2
INVARIANTS HaloFresh ExclusiveAccess BulkInv
PROPERTIES AllRoundsComplete ImplementsHaloExchange
