SPECIFICATION Spec
CONSTANTS
  main = main
  p = p
  s = s
  a = a
  Main = main
  Threads <- S
  ThreadList <- SList
  InitPrio <- SPrio
  Kind <- SKind
  Period <- SPeriod
  Offset <- SOffset
  Deadline <- SDeadline
  MaxCost <- SMaxCost
  Handler <- SHandler
  MitPolicy <- SMit
  OverPolicy <- SOver
  QueueMax <- SQueueMax
  Targets <- STargets
  Interrupts = {s}
  PendingCap = 4
  TickMod = 4
  LastTick = 4
  MaxNest = 2
  UninitTicks = {0}
  UninitStatus = {"ACTIVE"}
PROPERTY AwakeAfterWrap
