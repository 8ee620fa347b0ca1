SPECIFICATION Spec
CONSTANTS
  LastTick = 4
  MaxNest = 1
  EarlyTick = 8
  EarlyNest = 2
INVARIANTS TokensAccounted MutualExclusion SignalsServedOnce OwnSignalsHandled
  StoredInOrder RemovedStaysOut
  JobsInterruptible JobPerUnblock NoJobTooEarly
