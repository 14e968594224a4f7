CONSTANTS
  s1 = s1
  r1 = r1
  r2 = r2
  r3 = r3
  Sends <- MCSends
  Recvs <- MCRecvs
  CancelsUntested = FALSE
SPECIFICATION Spec
PROPERTIES EveryCompletionCallsBack
