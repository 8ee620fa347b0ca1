SPECIFICATION Spec
CONSTANTS
  main = main
  a = a
  b = b
  c = c
  m = m
  n = n
  NULL = NULL
  Main = main
  Threads <- ABC
  ThreadList <- ABCList
  InitPrio <- ABCPrio
  Period <- ABCTicks
  MaxCost <- ABCTicks
  Locks <- ABCLocks
  Waits <- ABCWaits
  Posts <- ABCPosts
  Frees <- ABCFrees
  Initialization <- ABCInit
  Sems = {m, n}
  Posted = {n}
  Naps = {1}
  ValueCap = 1
  TickMod = 5
  LastTick = 4
  MaxNest = 2
  UninitTicks = {0}
  UninitStatus = {"ACTIVE"}
INVARIANTS TypeOK BlockedIsListed NoIdleToken TokensConserved NobodyWaitsForFreed
