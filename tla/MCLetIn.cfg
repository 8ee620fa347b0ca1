SPECIFICATION FairSpec
CONSTANTS
  main = main
  a = a
  b = b
  c = c
  m = m
  n = n
  NULL = NULL
  Main = main
  Threads <- ABC
  ThreadList <- ABCList
  InitPrio <- RivalPrio
  Period <- RivalTicks
  MaxCost <- RivalTicks
  Locks <- RivalLocks
  Waits <- None
  Posts <- None
  Frees <- None
  Initialization <- RivalInit
  Sems = {m, n}
  Posted = {}
  Naps = {}
  ValueCap = 2
  TickMod = 2
  LastTick = 2
  MaxNest = 1
  UninitTicks = {0}
  UninitStatus = {"ACTIVE"}
PROPERTY LetIn
