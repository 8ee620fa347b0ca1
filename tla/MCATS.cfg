SPECIFICATION FairSpec
CONSTANTS
  main = main
  s = s
  r = r
  Main = main
  Threads <- R
  ThreadList <- RList
  InitPrio <- RPrio
  Period <- RTicks
  MaxCost <- RTicks
  Targets <- RTargets
  Listeners = {r}
  Interrupts = {r}
  PendingMod = 4
  SentCap = 3
  TickMod = 1
  LastTick = 1
  MaxNest = 2
  UninitTicks = {0}
  UninitStatus = {"ACTIVE"}
INVARIANT TypeOK
PROPERTIES NoSignalLost SignalsHandled
