SPECIFICATION Spec
CONSTANTS
  main = main
  s = s
  r = r
  Main = main
  Threads <- SR
  ThreadList <- SRList
  InitPrio <- SRPrio
  Period <- SRTicks
  MaxCost <- SRTicks
  Targets <- SRTargets
  Listeners = {r}
  Interrupts = {}
  PendingMod = 4
  SentCap = 2
  TickMod = 1
  LastTick = 1
  MaxNest = 2
  UninitTicks = {0}
  UninitStatus = {"ACTIVE"}
INVARIANT NoSignalInvented
