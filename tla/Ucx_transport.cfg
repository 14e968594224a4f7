CONSTANTS
  t1 = t1
  t2 = t2
  s1 = s1
  s2 = s2
  s3 = s3
  r1 = r1
  r2 = r2
  r3 = r3
  a = a
  b = b
  d1 = d1
  None = None
  Threads <- MCThreads
  Sends <- MCSends
  Recvs <- MCRecvs
  Uses <- MCUses
  Poster <- MCPoster
  Parent <- MCParent
  Tag <- MCTag
  Multi <- MCMulti
  Slots <- MCSlots
  N = 2
  MaxWorkers = 1
SPECIFICATION MCSpec
INVARIANTS OneInWorker StorageBlank CountsEveryCompletion MultiNotifiesOnce EndpointsValid
PROPERTIES ImplementsCompletions CompletionsReturn DestructorsReturn
CHECK_DEADLOCK FALSE
