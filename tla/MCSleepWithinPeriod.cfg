SPECIFICATION Spec
CONSTANTS
  main = main
  p = p
  s = s
  a = a
  Main = main
  Threads <- PS
  ThreadList <- PSList
  InitPrio <- PSPrio
  Kind <- PSKind
  Period <- PSPeriod
  Offset <- PSOffset
  Deadline <- PSDeadline
  MaxCost <- PSMaxCost
  Handler <- PSHandler
  MitPolicy <- PSMit
  OverPolicy <- PSOver
  QueueMax <- PSQueueMax
  Targets <- PSTargets
  Interrupts = {s}
  PendingCap = 4
  TickMod = 32
  LastTick = 5
  MaxNest = 2
  UninitTicks = {0}
  UninitStatus = {"ACTIVE"}
INVARIANT SleepWithinPeriod
