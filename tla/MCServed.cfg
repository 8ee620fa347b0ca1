SPECIFICATION FairSpec
CONSTANTS
  main = main
  p = p
  s = s
  a = a
  Main = main
  Threads <- PA
  ThreadList <- PAList
  InitPrio <- PAPrio
  Kind <- PAKind
  Period <- PAPeriod
  Offset <- PAOffset
  Deadline <- PADeadline
  MaxCost <- PAMaxCost
  Handler <- PAHandler
  MitPolicy <- PAMit
  OverPolicy <- PAOver
  QueueMax <- PAQueueMax
  Targets <- PATargets
  Interrupts = {p}
  PendingCap = 2
  TickMod = 2
  LastTick = 2
  MaxNest = 1
  UninitTicks = {0, 1}
  UninitStatus = {"SLEPT"}
PROPERTY SignalServed
INVARIANTS TypeOK NoSleeperOverdue QueueBound
