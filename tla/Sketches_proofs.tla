-------------------------- MODULE Sketches_proofs ---------------------------
(***************************************************************************)
(* The invariants of Sketches, for the program that runs.  Chosen is any   *)
(* value at all; what is proved of the behaviours that run Chosen is so    *)
(* proved of all, as each runs one program, whatever it is.                *)
(*                                                                         *)
(* Sketches takes the program as a parameter of its instances, Runs(k) and *)
(* Switches(k), and the theorems of such an instance cannot be cited.      *)
(* Those of Lib and Own can: they are the same instances for one program.  *)
(* The first lemmas say that the definitions of the one are those of the   *)
(* other; unfolded to the end, the two sides are one formula.              *)
(***************************************************************************)
EXTENDS Sketches, TLAPS

CONSTANT Chosen

(* Runs(Chosen)                                                            *)
Lib == INSTANCE RTSketch_proofs WITH
  Main <- "main", Threads <- Chosen.Threads, ThreadList <- Chosen.ThreadList,
  InitPrio <- Chosen.InitPrio, Kind <- Chosen.Kind, Offset <- Chosen.Offset,
  Period <- Chosen.Period, Deadline <- Chosen.Deadline,
  MaxCost <- Chosen.MaxCost, OverPolicy <- Chosen.OverPolicy,
  MitPolicy <- Chosen.MitPolicy, QueueMax <- Chosen.QueueMax,
  Handler <- Chosen.Handler, Body <- Chosen.Body, Tokens <- Chosen.Tokens,
  QueueSize <- Chosen.QueueSize, Targets <- [t \in Chosen.Threads |-> {}],
  Interrupts <- {}, PendingCap <- TickMod, UninitTicks <- {0},
  UninitStatus <- {"ACTIVE"}, PendingMod <- 8, SentCap <- 7

(* Switches(Chosen)                                                        *)
Own == INSTANCE EarlySwitch_proofs WITH
  Main <- "main", Threads <- Chosen.Threads, ThreadList <- Chosen.ThreadList,
  InitPrio <- Chosen.InitPrio, Kind <- Chosen.Kind, Offset <- Chosen.Offset,
  Period <- Chosen.Period, Deadline <- Chosen.Deadline,
  MaxCost <- Chosen.MaxCost, Handler <- Chosen.Handler, Body <- Chosen.Body,
  Version <- Chosen.kernel, TickMod <- 2 * TickMod, LastTick <- EarlyTick,
  MaxNest <- EarlyNest, UninitTicks <- {0}, UninitStatus <- {"ACTIVE"}

-----------------------------------------------------------------------------
(* The program on the library                                              *)

(* Programs on the library start as RTSketch does with their parameters.   *)
LEMMA LibSketchInit == Runs(Chosen)!SketchInit => Lib!SketchInit
BY Zenon DEF
  Lib!SketchInit, Lib!Init, Lib!KernelInit, Lib!All, Lib!ACTIVE, Lib!NORM_PRIO,
  Lib!NotReleased, Lib!NULL, Lib!Q!Init, Lib!Q!Slots, Runs!SketchInit,
  Runs!Init, Runs!KernelInit, Runs!All, Runs!ACTIVE, Runs!NORM_PRIO,
  Runs!NotReleased, Runs!NULL, Runs!Q!Init, Runs!Q!Slots

(* Their steps are those of RTSketch.                                      *)
LEMMA LibSketchNext == Runs(Chosen)!SketchNext => Lib!SketchNext
BY Zenon DEF
  Lib!SketchNext, Lib!Interrupted, Lib!Tick, Lib!TimerInterrupt,
  Lib!ThreadYield, Lib!All, Lib!Awaken, Lib!SLEPT, Lib!CarryLeft, Lib!ACTIVE,
  Lib!CatchUp, Lib!BLOCKED, Lib!ChargeCurrent, Lib!DemoteOverrun,
  Lib!OVERRUN_PRIO, Lib!Candidate, Lib!Eligible, Lib!IsBest, Lib!ScanPos,
  Lib!ListPos, Lib!Suspend, Lib!patternVars, Lib!Leaves, Lib!Listeners,
  Lib!bodyVars, Lib!tokenVars, Lib!queueVars, Lib!signalVars, Lib!Idles,
  Lib!MainLoop, Lib!MainYield, Lib!Runs, Lib!clockVars, Lib!Returns,
  Lib!Return, Lib!ReturnFromBlock, Lib!YieldReturn, Lib!timerVars,
  Lib!costVars, Lib!TimerInterruptReturn, Lib!Activates, Lib!Executes,
  Lib!Signals, Lib!Performing, Lib!At, Lib!Advance, Lib!ThreadSignal,
  Lib!Counts, Lib!HasRoom, Lib!InTime, Lib!ThreadUnblock, Lib!Stamps,
  Lib!Argument, Lib!Unblocks, Lib!Takes, Lib!Gives, Lib!Gets, Lib!vars,
  Lib!kernelVars, Lib!Sets, Lib!Uses, Lib!Inputs, Lib!Enables, Lib!Disables,
  Lib!SignalsATS, Lib!Removes, Lib!Ends, Lib!ExecutorEnds, Lib!GoTo,
  Lib!Continues, Lib!Pattern, Lib!Entry, Lib!SleepOffset, Lib!TickSleep,
  Lib!Proceed, Lib!EventDriven, Lib!Await, Lib!ThreadBlock, Lib!AwaitOver,
  Lib!AwaitAgain, Lib!Release, Lib!Reset, Lib!Account, Lib!AfterJob,
  Lib!AfterTest, Lib!TestCost, Lib!SleepToNext, Lib!Decrement,
  Lib!YieldsInCall, Lib!SpinsForever, Lib!Spin, Lib!sketchVars, Lib!OnlyOnce,
  Lib!ThreadRemove, Lib!Behind, Lib!Linked, Lib!NULL, Lib!Q!Get, Lib!Q!MayRead,
  Lib!Q!Slots, Lib!Q!Set, Lib!Q!NextWrite, Lib!Sem!P, Lib!Sem!clockVars,
  Lib!Sem!ThreadYield, Lib!Sem!All, Lib!Sem!Awaken, Lib!Sem!SLEPT,
  Lib!Sem!CarryLeft, Lib!Sem!ACTIVE, Lib!Sem!CatchUp, Lib!Sem!BLOCKED,
  Lib!Sem!ChargeCurrent, Lib!Sem!DemoteOverrun, Lib!Sem!OVERRUN_PRIO,
  Lib!Sem!Candidate, Lib!Sem!Eligible, Lib!Sem!IsBest, Lib!Sem!ScanPos,
  Lib!Sem!ListPos, Lib!Sem!SEM_BLOCKED, Lib!Sem!Suspend, Lib!Sem!kernelVars,
  Lib!Sem!V, Lib!Sem!Waiting, Lib!Sem!Goes, Lib!Sem!Linked, Lib!Sem!Found,
  Lib!ATS!Resume, Lib!ATS!Check, Lib!ATS!Draining, Lib!ATS!Loop, Lib!ATS!GoOn,
  Lib!ATS!kernelVars, Lib!ATS!Return, Lib!ATS!YieldReturn, Lib!ATS!timerVars,
  Lib!ATS!costVars, Lib!ATS!clockVars, Lib!ATS!TimerInterruptReturn,
  Lib!ATS!Test, Lib!ATS!Load, Lib!ATS!Store, Lib!ATS!Handle,
  Lib!ATS!HandledCap, Lib!ATS!Enable, Lib!ATS!InCode, Lib!ATS!Runs,
  Lib!ATS!Disable, Lib!ATS!Signal, Lib!ATS!Counted, Lib!ATS!YieldInCall,
  Lib!ATS!ThreadYield, Lib!ATS!All, Lib!ATS!Awaken, Lib!ATS!SLEPT,
  Lib!ATS!CarryLeft, Lib!ATS!ACTIVE, Lib!ATS!CatchUp, Lib!ATS!BLOCKED,
  Lib!ATS!ChargeCurrent, Lib!ATS!DemoteOverrun, Lib!ATS!OVERRUN_PRIO,
  Lib!ATS!Candidate, Lib!ATS!Eligible, Lib!ATS!IsBest, Lib!ATS!ScanPos,
  Lib!ATS!ListPos, Lib!ATS!Suspend, Lib!ATS!Leave, Lib!ATS!Linked,
  Runs!SketchNext, Runs!Interrupted, Runs!Tick, Runs!TimerInterrupt,
  Runs!ThreadYield, Runs!All, Runs!Awaken, Runs!SLEPT, Runs!CarryLeft,
  Runs!ACTIVE, Runs!CatchUp, Runs!BLOCKED, Runs!ChargeCurrent,
  Runs!DemoteOverrun, Runs!OVERRUN_PRIO, Runs!Candidate, Runs!Eligible,
  Runs!IsBest, Runs!ScanPos, Runs!ListPos, Runs!Suspend, Runs!patternVars,
  Runs!Leaves, Runs!Listeners, Runs!bodyVars, Runs!tokenVars, Runs!queueVars,
  Runs!signalVars, Runs!Idles, Runs!MainLoop, Runs!MainYield, Runs!Runs,
  Runs!clockVars, Runs!Returns, Runs!Return, Runs!ReturnFromBlock,
  Runs!YieldReturn, Runs!timerVars, Runs!costVars, Runs!TimerInterruptReturn,
  Runs!Activates, Runs!Executes, Runs!Signals, Runs!Performing, Runs!At,
  Runs!Advance, Runs!ThreadSignal, Runs!Counts, Runs!HasRoom, Runs!InTime,
  Runs!ThreadUnblock, Runs!Stamps, Runs!Argument, Runs!Unblocks, Runs!Takes,
  Runs!Gives, Runs!Gets, Runs!vars, Runs!kernelVars, Runs!Sets, Runs!Uses,
  Runs!Inputs, Runs!Enables, Runs!Disables, Runs!SignalsATS, Runs!Removes,
  Runs!Ends, Runs!ExecutorEnds, Runs!GoTo, Runs!Continues, Runs!Pattern,
  Runs!Entry, Runs!SleepOffset, Runs!TickSleep, Runs!Proceed, Runs!EventDriven,
  Runs!Await, Runs!ThreadBlock, Runs!AwaitOver, Runs!AwaitAgain, Runs!Release,
  Runs!Reset, Runs!Account, Runs!AfterJob, Runs!AfterTest, Runs!TestCost,
  Runs!SleepToNext, Runs!Decrement, Runs!YieldsInCall, Runs!SpinsForever,
  Runs!Spin, Runs!sketchVars, Runs!OnlyOnce, Runs!ThreadRemove, Runs!Behind,
  Runs!Linked, Runs!NULL, Runs!Q!Get, Runs!Q!MayRead, Runs!Q!Slots, Runs!Q!Set,
  Runs!Q!NextWrite, Runs!Sem!P, Runs!Sem!clockVars, Runs!Sem!ThreadYield,
  Runs!Sem!All, Runs!Sem!Awaken, Runs!Sem!SLEPT, Runs!Sem!CarryLeft,
  Runs!Sem!ACTIVE, Runs!Sem!CatchUp, Runs!Sem!BLOCKED, Runs!Sem!ChargeCurrent,
  Runs!Sem!DemoteOverrun, Runs!Sem!OVERRUN_PRIO, Runs!Sem!Candidate,
  Runs!Sem!Eligible, Runs!Sem!IsBest, Runs!Sem!ScanPos, Runs!Sem!ListPos,
  Runs!Sem!SEM_BLOCKED, Runs!Sem!Suspend, Runs!Sem!kernelVars, Runs!Sem!V,
  Runs!Sem!Waiting, Runs!Sem!Goes, Runs!Sem!Linked, Runs!Sem!Found,
  Runs!ATS!Resume, Runs!ATS!Check, Runs!ATS!Draining, Runs!ATS!Loop,
  Runs!ATS!GoOn, Runs!ATS!kernelVars, Runs!ATS!Return, Runs!ATS!YieldReturn,
  Runs!ATS!timerVars, Runs!ATS!costVars, Runs!ATS!clockVars,
  Runs!ATS!TimerInterruptReturn, Runs!ATS!Test, Runs!ATS!Load, Runs!ATS!Store,
  Runs!ATS!Handle, Runs!ATS!HandledCap, Runs!ATS!Enable, Runs!ATS!InCode,
  Runs!ATS!Runs, Runs!ATS!Disable, Runs!ATS!Signal, Runs!ATS!Counted,
  Runs!ATS!YieldInCall, Runs!ATS!ThreadYield, Runs!ATS!All, Runs!ATS!Awaken,
  Runs!ATS!SLEPT, Runs!ATS!CarryLeft, Runs!ATS!ACTIVE, Runs!ATS!CatchUp,
  Runs!ATS!BLOCKED, Runs!ATS!ChargeCurrent, Runs!ATS!DemoteOverrun,
  Runs!ATS!OVERRUN_PRIO, Runs!ATS!Candidate, Runs!ATS!Eligible,
  Runs!ATS!IsBest, Runs!ATS!ScanPos, Runs!ATS!ListPos, Runs!ATS!Suspend,
  Runs!ATS!Leave, Runs!ATS!Linked

(* What RTSketch says of the tokens is what Sketches asks of the program.  *)
LEMMA LibTokensAccounted == Lib!TokensAccounted => Runs(Chosen)!TokensAccounted
BY Zenon DEF
  Lib!TokensAccounted, Lib!Sems, Lib!Total, Lib!Made, Lib!Cardinality,
  Lib!Sem!Waiting, Runs!TokensAccounted, Runs!Sems, Runs!Total, Runs!Made,
  Runs!Cardinality, Runs!Sem!Waiting

(* The same for the locks: at most one thread is between P and V.          *)
LEMMA LibMutualExclusion == Lib!MutualExclusion => Runs(Chosen)!MutualExclusion
BY Zenon DEF
  Lib!MutualExclusion, Lib!Sems, Lib!Between, Lib!Has, Lib!Depth, Lib!Times,
  Lib!Cardinality, Runs!MutualExclusion, Runs!Sems, Runs!Between, Runs!Has,
  Runs!Depth, Runs!Times, Runs!Cardinality

(* The same for the jobs and the signals they serve.                       *)
LEMMA LibSignalsServedOnce ==
  Lib!SignalsServedOnce => Runs(Chosen)!SignalsServedOnce
BY Zenon DEF
  Lib!SignalsServedOnce, Lib!EventDriven, Lib!Started, Lib!SavesAll,
  Lib!Served, Runs!SignalsServedOnce, Runs!EventDriven, Runs!Started,
  Runs!SavesAll, Runs!Served

(* The same for the asynchronous signals a thread sends itself.            *)
LEMMA LibOwnSignalsHandled ==
  Lib!OwnSignalsHandled => Runs(Chosen)!OwnSignalsHandled
BY Zenon DEF
  Lib!OwnSignalsHandled, Lib!Listeners, Lib!SignalsItself, Lib!Has, Lib!Runs,
  Runs!OwnSignalsHandled, Runs!Listeners, Runs!SignalsItself, Runs!Has,
  Runs!Runs

(* The same for the order of what the queue stores.                        *)
LEMMA LibStoredInOrder == Lib!StoredInOrder => Runs(Chosen)!StoredInOrder
BY Zenon DEF
  Lib!StoredInOrder, Runs!StoredInOrder

(* The same for the threads that were removed.                             *)
LEMMA LibRemovedStaysOut == Lib!RemovedStaysOut => Runs(Chosen)!RemovedStaysOut
BY Zenon DEF
  Lib!RemovedStaysOut, Lib!Linked, Lib!All, Lib!Removed, Lib!Made,
  Lib!ListInOrder, Runs!RemovedStaysOut, Runs!Linked, Runs!All, Runs!Removed,
  Runs!Made, Runs!ListInOrder

-----------------------------------------------------------------------------
(* The program with a kernel of its own                                    *)

(* The programs with a kernel of their own start as EarlySwitch does.      *)
LEMMA OwnEarlyInit == Switches(Chosen)!EarlyInit => Own!EarlyInit
BY Zenon DEF
  Own!EarlyInit, Own!KernelInit, Own!All, Own!ACTIVE, Own!NORM_PRIO,
  Switches!EarlyInit, Switches!KernelInit, Switches!All, Switches!ACTIVE,
  Switches!NORM_PRIO

(* Their steps are those of EarlySwitch.                                   *)
LEMMA OwnEarlyNext == Switches(Chosen)!EarlyNext => Own!EarlyNext
BY Zenon DEF
  Own!EarlyNext, Own!TimerTicks, Own!EarlyYield, Own!All, Own!Awaken,
  Own!SLEPT, Own!CarryLeft, Own!ACTIVE, Own!Charge, Own!ChargeCurrent,
  Own!DemoteOverrun, Own!OVERRUN_PRIO, Own!Candidate, Own!Eligible, Own!IsBest,
  Own!ScanPos, Own!ListPos, Own!Suspend, Own!patternVars, Own!Returns,
  Own!Innermost, Own!timerVars, Own!clockVars, Own!costVars, Own!Stores,
  Own!MainYields, Own!Runs, Own!Begins, Own!At, Own!GoTo, Own!SleepsOffset,
  Own!Sleeps, Own!IsReleased, Own!kernelVars, Own!Waits, Own!EventDriven,
  Own!Blocks, Own!BLOCKED, Own!Resets, Own!Calls, Own!Unblocks, Own!GetsCost,
  Own!Finishes, Own!Charges, Own!Tests, Own!Violated, Own!SleepsToNext,
  Own!Spins, Own!earlyVars, Own!Linked, Switches!EarlyNext,
  Switches!TimerTicks, Switches!EarlyYield, Switches!All, Switches!Awaken,
  Switches!SLEPT, Switches!CarryLeft, Switches!ACTIVE, Switches!Charge,
  Switches!ChargeCurrent, Switches!DemoteOverrun, Switches!OVERRUN_PRIO,
  Switches!Candidate, Switches!Eligible, Switches!IsBest, Switches!ScanPos,
  Switches!ListPos, Switches!Suspend, Switches!patternVars, Switches!Returns,
  Switches!Innermost, Switches!timerVars, Switches!clockVars,
  Switches!costVars, Switches!Stores, Switches!MainYields, Switches!Runs,
  Switches!Begins, Switches!At, Switches!GoTo, Switches!SleepsOffset,
  Switches!Sleeps, Switches!IsReleased, Switches!kernelVars, Switches!Waits,
  Switches!EventDriven, Switches!Blocks, Switches!BLOCKED, Switches!Resets,
  Switches!Calls, Switches!Unblocks, Switches!GetsCost, Switches!Finishes,
  Switches!Charges, Switches!Tests, Switches!Violated, Switches!SleepsToNext,
  Switches!Spins, Switches!earlyVars, Switches!Linked

(* What EarlySwitch says of interrupts in a job is what Sketches asks.     *)
LEMMA OwnJobsInterruptible ==
  Own!JobsInterruptible => Switches(Chosen)!JobsInterruptible
BY Zenon DEF
  Own!JobsInterruptible, Own!At, Own!Runs, Switches!JobsInterruptible,
  Switches!At, Switches!Runs

(* The same for the jobs and the unblocks they answer.                     *)
LEMMA OwnJobPerUnblock == Own!JobPerUnblock => Switches(Chosen)!JobPerUnblock
BY Zenon DEF
  Own!JobPerUnblock, Own!EventDriven, Own!Owes, Own!BLOCKED,
  Switches!JobPerUnblock, Switches!EventDriven, Switches!Owes, Switches!BLOCKED

(* The same for the time a job starts at.                                  *)
LEMMA OwnNoJobTooEarly == Own!NoJobTooEarly => Switches(Chosen)!NoJobTooEarly
BY Zenon DEF
  Own!NoJobTooEarly, Switches!NoJobTooEarly

-----------------------------------------------------------------------------
(* What the sketches are                                                   *)

(* A program is made for the library, until it is given another kernel.    *)
LEMMA KernelOfProgram ==
  ASSUME NEW order, NEW threads, NEW tokens, NEW size
  PROVE  /\ Program(order, threads, tokens, size).kernel = "rtthreads"
         /\ "kernel" \in DOMAIN Program(order, threads, tokens, size)
BY DEF Program

(* No sketch on the library says it has a kernel of its own,               *)
LEMMA KernelOfLibrary == \A k \in Library : k.kernel = "rtthreads"
<1>1. \A th1 : One(th1).kernel = "rtthreads"
  BY KernelOfProgram, Zenon DEF One
<1>2. \A th1, th2 : Two(th1, th2).kernel = "rtthreads"
  BY KernelOfProgram, Zenon DEF Two
<1>3. \A th1, th2, n : TwoWithSemaphore(th1, th2, n).kernel = "rtthreads"
  BY KernelOfProgram, Zenon DEF TwoWithSemaphore
<1>4. \A th1, th2, n : TwoWithQueue(th1, th2, n).kernel = "rtthreads"
  BY KernelOfProgram, Zenon DEF TwoWithQueue
<1>5. periodic_3tasks_2periodic_1sporadic.kernel = "rtthreads"
  BY KernelOfProgram, SMT DEF periodic_3tasks_2periodic_1sporadic
<1>6. periodic_1tasks_dump_all_info_remove.kernel = "rtthreads"
  BY KernelOfProgram, SMT DEF periodic_1tasks_dump_all_info_remove
<1> QED
  BY <1>1, <1>2, <1>3, <1>4, <1>5, <1>6, SMT DEF Library,
  periodic_task, periodic_task_overun, periodic_1tasks_time,
   periodic_1tasks_time_read_write_byte, periodic_1tasks_led_info,
   periodic_1tasks_get_params, periodic_1tasks_dump_all_info,
   periodic_2tasks_read_write, periodic_2_1SEMAPHORE_,
   periodic_2_1SEMAPHORE_2P, periodic_2_1SEMAPHORE_2V,
   periodic_2_1SEMAPHORE_2Prate, periodic_2_1SEMAPHORE_2Prate_BAD,
   periodic_2_1SEMAPHORE_BARRIER, periodic_2_QUEUES_,
   periodic_2_QUEUES_DOUBLE_READ, periodic_2_QUEUES_DOUBLE_WRITE,
   periodic_1_ATS_auto, periodic_2_ATS_, periodic_2_ATS_BAD,
   periodic_2tasks_dump_all_info_debug_example,
   periodic_2tasks_1_periodic_read_1_aperiodic_write,
   periodic_2tasks_1_periodic_read_1_aperiodic_write_TRANS,
   periodic_2tasks_1_periodic_read_1_aperiodic_write_IGNORE,
   periodic_2tasks_1_periodic_read_1_sporadic_write,
   periodic_2tasks_1_periodic_read_1_sporadic_write_SAVE,
   periodic_2tasks_1_periodic_read_1_sporadic_write_EXCEPT_SAVE,
   periodic_2tasks_1_periodic_read_1_sporadic_write_IGNORE_SAVE,
   periodic_2tasks_1_periodic_read_1_sporadic_write_REPLACE_SAVE,
   periodic_2tasks_1_periodic_read_1_sporadic_write_SAVE_EXCEPT,
   periodic_2tasks_1_periodic_read_1_sporadic_write_SAVE_IGNORE,
   periodic_2tasks_1_periodic_read_1_sporadic_write_SAVE_REPLACE

(* and those that have one say which.                                      *)
LEMMA KernelOfEarly == \A k \in Early : k.kernel \in {"first", "second"}
<1>1. \A version, th1, th2 : EarlyProgram(version, th1, th2).kernel = version
  <2>1. ASSUME NEW p, NEW version, "kernel" \in DOMAIN p
        PROVE  [p EXCEPT !.kernel = version].kernel = version
    BY <2>1
  <2>2. \A th1, th2 : "kernel" \in DOMAIN Two(th1, th2)
    BY KernelOfProgram, Zenon DEF Two
  <2> QED
    BY <2>1, <2>2 DEF EarlyProgram
<1> QED
  BY <1>1, SMT
  DEF Early, context_switch, context_switch_1_0, context_switch_2_0

(* The sketches on the library are programs of the kind the theorems of    *)
(* RTSketch_proofs suppose.                                                *)
LEMMA LibraryHolds ==
  ASSUME Chosen \in Library
  PROVE  /\ Lib!ThreadsAssumption
         /\ Lib!TickModAssumption
         /\ Lib!ParamsAssumption
         /\ Lib!ThreadListAssumption
         /\ Lib!PatternAssumption
         /\ Lib!NestAssumption
         /\ Lib!SketchParams
         /\ Lib!EarlyEndsHarmless
         /\ Lib!RemovedAreLeft
         /\ Lib!LocksPaired
         /\ Lib!ListenersPeriodic
         /\ Lib!OneSetter
<1>1. /\ Runs(Chosen)!ThreadsAssumption
      /\ Runs(Chosen)!TickModAssumption
      /\ Runs(Chosen)!ParamsAssumption
      /\ Runs(Chosen)!ThreadListAssumption
      /\ Runs(Chosen)!PatternAssumption
      /\ Runs(Chosen)!NestAssumption
      /\ Runs(Chosen)!SketchParams
      /\ Runs(Chosen)!EarlyEndsHarmless
      /\ Runs(Chosen)!RemovedAreLeft
      /\ Runs(Chosen)!LocksPaired
      /\ Runs(Chosen)!ListenersPeriodic
      /\ Runs(Chosen)!OneSetter
  BY LibraryAssumption, SMT
<1>2. Lib!ThreadsAssumption
  BY <1>1, Zenon
  DEF Lib!ThreadsAssumption, Runs!ThreadsAssumption
<1>3. Lib!TickModAssumption
  BY <1>1, Zenon
  DEF Lib!TickModAssumption, Runs!TickModAssumption
<1>4. Lib!ParamsAssumption
  BY <1>1, Zenon
  DEF Lib!ParamsAssumption, Lib!Ticks, Lib!Status, Lib!SLEPT, Lib!ACTIVE,
      Lib!BLOCKED, Lib!SEM_BLOCKED, Runs!ParamsAssumption, Runs!Ticks,
      Runs!Status, Runs!SLEPT, Runs!ACTIVE, Runs!BLOCKED, Runs!SEM_BLOCKED
<1>5. Lib!ThreadListAssumption
  BY <1>1, Zenon
  DEF Lib!ThreadListAssumption, Lib!All, Runs!ThreadListAssumption, Runs!All
<1>6. Lib!PatternAssumption
  BY <1>1, Zenon
  DEF Lib!PatternAssumption, Lib!Ticks, Lib!Policies, Lib!EventDriven,
      Runs!PatternAssumption, Runs!Ticks, Runs!Policies, Runs!EventDriven
<1>7. Lib!NestAssumption
  BY <1>1, Zenon
  DEF Lib!NestAssumption, Runs!NestAssumption
<1>8. Lib!SketchParams
  BY <1>1, Zenon
  DEF Lib!SketchParams, Lib!Entries, Lib!Sems, Lib!EventDriven, Lib!NULL,
      Runs!SketchParams, Runs!Entries, Runs!Sems, Runs!EventDriven,
      Runs!NULL
<1>9. Lib!EarlyEndsHarmless
  BY <1>1, Zenon
  DEF Lib!EarlyEndsHarmless, Lib!Calls, Runs!EarlyEndsHarmless, Runs!Calls
<1>10. Lib!RemovedAreLeft
  BY <1>1, Zenon
  DEF Lib!RemovedAreLeft, Lib!Has, Lib!Calls, Runs!RemovedAreLeft, Runs!Has,
      Runs!Calls
<1>11. Lib!LocksPaired
  BY <1>1, Zenon
  DEF Lib!LocksPaired, Lib!Sems, Lib!Has, Lib!Depth, Lib!Times,
      Lib!Cardinality, Runs!LocksPaired, Runs!Sems, Runs!Has, Runs!Depth,
      Runs!Times, Runs!Cardinality
<1>12. Lib!ListenersPeriodic
  BY <1>1, Zenon
  DEF Lib!ListenersPeriodic, Lib!Listeners, Lib!EventDriven,
      Runs!ListenersPeriodic, Runs!Listeners, Runs!EventDriven
<1>13. Lib!OneSetter
  BY <1>1, Zenon
  DEF Lib!OneSetter, Runs!OneSetter
<1> QED
  BY <1>2, <1>3, <1>4, <1>5, <1>6, <1>7, <1>8, <1>9, <1>10, <1>11, <1>12,
     <1>13

(* Those with a kernel of their own are of the kind EarlySwitch_proofs     *)
(* supposes, and their clock stops before it wraps around.                 *)
LEMMA EarlyHolds ==
  ASSUME Chosen \in Early
  PROVE  /\ Own!ThreadsAssumption
         /\ Own!TickModAssumption
         /\ Own!ParamsAssumption
         /\ Own!ThreadListAssumption
         /\ Own!NestAssumption
         /\ Own!EarlyParams
         /\ EarlyTick < 2 * TickMod
<1>1. /\ Switches(Chosen)!ThreadsAssumption
      /\ Switches(Chosen)!TickModAssumption
      /\ Switches(Chosen)!ParamsAssumption
      /\ Switches(Chosen)!ThreadListAssumption
      /\ Switches(Chosen)!NestAssumption
      /\ Switches(Chosen)!EarlyParams
  BY EarlyAssumption, SMT
<1>2. Own!ThreadsAssumption
  BY <1>1, Zenon
  DEF Own!ThreadsAssumption, Switches!ThreadsAssumption
<1>3. Own!TickModAssumption
  BY <1>1, Zenon
  DEF Own!TickModAssumption, Switches!TickModAssumption
<1>4. Own!ParamsAssumption
  BY <1>1, Zenon
  DEF Own!ParamsAssumption, Own!Ticks, Own!Status, Own!SLEPT, Own!ACTIVE,
      Own!BLOCKED, Own!SEM_BLOCKED, Switches!ParamsAssumption,
      Switches!Ticks, Switches!Status, Switches!SLEPT, Switches!ACTIVE,
      Switches!BLOCKED, Switches!SEM_BLOCKED
<1>5. Own!ThreadListAssumption
  BY <1>1, Zenon
  DEF Own!ThreadListAssumption, Own!All, Switches!ThreadListAssumption,
      Switches!All
<1>6. Own!NestAssumption
  BY <1>1, Zenon
  DEF Own!NestAssumption, Switches!NestAssumption
<1>7. Own!EarlyParams
  BY <1>1, Zenon
  DEF Own!EarlyParams, Own!Ticks, Switches!EarlyParams, Switches!Ticks
<1>8. EarlyTick < 2 * TickMod
  BY EarlyAssumption, SMT
<1> QED
  BY <1>2, <1>3, <1>4, <1>5, <1>6, <1>7, <1>8

-----------------------------------------------------------------------------
(* What their behaviours are                                               *)

(* Which program runs is chosen at the start and never changes.            *)
LEMMA SketchStays ==
  /\ Spec => [](sketch \in Library \union Early)
  /\ Spec => [](sketch = Chosen) \/ []~(sketch = Chosen)
<1>1. Init => sketch \in Library \union Early
  BY SMT DEF Init
<1>2. [Next]_vars => sketch' = sketch
  BY SMT DEF Next, vars
<1>3. /\ sketch \in Library \union Early
      /\ [Next]_vars
      => (sketch \in Library \union Early)'
  BY <1>2
<1>4. sketch = Chosen /\ [Next]_vars => (sketch = Chosen)'
  BY <1>2
<1>5. ~(sketch = Chosen) /\ [Next]_vars => ~(sketch = Chosen)'
  BY <1>2
<1> QED
  BY <1>1, <1>3, <1>4, <1>5, PTL DEF Spec

(* A behaviour that runs a sketch on the library is one of RTSketch with   *)
(* the threads, semaphores and queue of that sketch.                       *)
THEOREM RunsAsRTSketch ==
  ASSUME Chosen \in Library
  PROVE  Spec /\ sketch = Chosen => Lib!SketchSpec
<1>1. Chosen \notin Early
  BY KernelOfLibrary, KernelOfEarly, SMT
<1>2. Init /\ sketch = Chosen => Lib!SketchInit
  BY <1>1, LibSketchInit, SMT DEF Init
<1>3. sketch = Chosen /\ [Next]_vars => [Lib!SketchNext]_Lib!sketchVars
  <2> SUFFICES ASSUME sketch = Chosen, [Next]_vars
               PROVE  [Lib!SketchNext]_Lib!sketchVars
    OBVIOUS
  <2>1. OnLibrary
    BY KernelOfLibrary DEF OnLibrary
  <2>2. CASE Next
    BY <2>1, <2>2, LibSketchNext, SMT DEF Next
  <2>3. CASE UNCHANGED vars
    BY <2>3 DEF vars, Lib!sketchVars, Lib!vars, Lib!kernelVars,
       Lib!patternVars, Lib!bodyVars, Lib!tokenVars, Lib!queueVars,
       Lib!signalVars
  <2> QED BY <2>2, <2>3
<1> QED
  BY <1>2, <1>3, SketchStays, PTL DEF Spec, Lib!SketchSpec

(* A behaviour that runs a sketch with a kernel of its own is one of       *)
(* EarlySwitch with the threads of that sketch.                            *)
THEOREM RunsAsEarlySwitch ==
  ASSUME Chosen \in Early
  PROVE  Spec /\ sketch = Chosen => Own!EarlySpec
<1>1. Chosen \notin Library
  BY KernelOfLibrary, KernelOfEarly, SMT
<1>2. Init /\ sketch = Chosen => Own!EarlyInit
  BY <1>1, OwnEarlyInit, SMT DEF Init
<1>3. sketch = Chosen /\ [Next]_vars => [Own!EarlyNext]_Own!earlyVars
  <2> SUFFICES ASSUME sketch = Chosen, [Next]_vars
               PROVE  [Own!EarlyNext]_Own!earlyVars
    OBVIOUS
  <2>1. ~OnLibrary
    BY KernelOfEarly DEF OnLibrary
  <2>2. CASE Next
    BY <2>1, <2>2, OwnEarlyNext, SMT DEF Next
  <2>3. CASE UNCHANGED vars
    BY <2>3 DEF vars, Own!earlyVars, Own!kernelVars, Own!patternVars
  <2> QED BY <2>2, <2>3
<1> QED
  BY <1>2, <1>3, SketchStays, PTL DEF Spec, Own!EarlySpec

(* Either the program runs on the library, as RTSketch says, or the        *)
(* properties of the library do not concern it.                            *)
LEMMA LibraryRuns ==
  Spec => \/ Chosen \in Library /\ Lib!SketchSpec /\ [](sketch = Chosen)
          \/ [](sketch = Chosen => ~OnLibrary)
<1>1. CASE Chosen \in Library
  BY <1>1, RunsAsRTSketch, SketchStays, PTL
<1>2. CASE Chosen \notin Library
  <2>1. /\ sketch \in Library \union Early
        /\ sketch = Chosen
        => ~OnLibrary
    BY <1>2, KernelOfLibrary, KernelOfEarly, SMT DEF OnLibrary
  <2> QED BY <2>1, SketchStays, PTL
<1> QED BY <1>1, <1>2

(* The same for the kernels of their own.                                  *)
LEMMA EarlyRuns ==
  Spec => \/ Chosen \in Early /\ Own!EarlySpec /\ [](sketch = Chosen)
          \/ [](sketch = Chosen => OnLibrary)
<1>1. CASE Chosen \in Early
  BY <1>1, RunsAsEarlySwitch, SketchStays, PTL
<1>2. CASE Chosen \notin Early
  <2>1. /\ sketch \in Library \union Early
        /\ sketch = Chosen
        => OnLibrary
    BY <1>2, KernelOfLibrary, KernelOfEarly, SMT DEF OnLibrary
  <2> QED BY <2>1, SketchStays, PTL
<1> QED BY <1>1, <1>2

-----------------------------------------------------------------------------
(* The invariants of Sketches                                              *)

(* In every sketch, the tokens of each semaphore are those it was created  *)
(* with and those V gave, less those P took, whoever is preempted inside   *)
(* the calls.                                                              *)
THEOREM SketchTokens == Spec => [](sketch = Chosen => TokensAccounted)
<1>1. Chosen \in Library => (Lib!SketchSpec => []Lib!TokensAccounted)
  BY LibraryHolds, Lib!TokensAreAccounted
<1>2. sketch = Chosen /\ Lib!TokensAccounted => TokensAccounted
  BY LibTokensAccounted, SMT DEF TokensAccounted
<1>3. ~OnLibrary => TokensAccounted
  BY DEF TokensAccounted
<1> QED BY <1>1, <1>2, <1>3, LibraryRuns, PTL

(* Of the threads of a sketch that put P and V around what they share, at  *)
(* most one is between the two calls.                                      *)
THEOREM SketchLocks == Spec => [](sketch = Chosen => MutualExclusion)
<1>1. Chosen \in Library => (Lib!SketchSpec => []Lib!MutualExclusion)
  BY LibraryHolds, Lib!LocksAreExclusive
<1>2. sketch = Chosen /\ Lib!MutualExclusion => MutualExclusion
  BY LibMutualExclusion, SMT DEF MutualExclusion
<1>3. ~OnLibrary => MutualExclusion
  BY DEF MutualExclusion
<1> QED BY <1>1, <1>2, <1>3, LibraryRuns, PTL

(* An event-driven thread of a sketch does no more jobs than it was        *)
(* signalled, and with the policies SAVE exactly one for each signal.      *)
THEOREM SketchSignals == Spec => [](sketch = Chosen => SignalsServedOnce)
<1>1. Chosen \in Library => (Lib!SketchSpec => []Lib!SignalsServedOnce)
  BY LibraryHolds, Lib!JobsAreSignalled
<1>2. sketch = Chosen /\ Lib!SignalsServedOnce => SignalsServedOnce
  BY LibSignalsServedOnce, SMT DEF SignalsServedOnce
<1>3. ~OnLibrary => SignalsServedOnce
  BY DEF SignalsServedOnce
<1> QED BY <1>1, <1>2, <1>3, LibraryRuns, PTL

(* A thread of a sketch that alone signals itself asynchronously has       *)
(* handled all its signals when it goes on.                                *)
THEOREM SketchOwnSignals == Spec => [](sketch = Chosen => OwnSignalsHandled)
<1>1. Chosen \in Library => (Lib!SketchSpec => []Lib!OwnSignalsHandled)
  BY LibraryHolds, Lib!OwnSignalsAreHandled
<1>2. sketch = Chosen /\ Lib!OwnSignalsHandled => OwnSignalsHandled
  BY LibOwnSignalsHandled, SMT DEF OwnSignalsHandled
<1>3. ~OnLibrary => OwnSignalsHandled
  BY DEF OwnSignalsHandled
<1> QED BY <1>1, <1>2, <1>3, LibraryRuns, PTL

(* What the queue of a sketch stores is in the order in which the jobs set *)
(* it.                                                                     *)
THEOREM SketchQueue == Spec => [](sketch = Chosen => StoredInOrder)
<1>1. Chosen \in Library => (Lib!SketchSpec => []Lib!StoredInOrder)
  BY LibraryHolds, Lib!StoredIsInOrder
<1>2. sketch = Chosen /\ Lib!StoredInOrder => StoredInOrder
  BY LibStoredInOrder, SMT DEF StoredInOrder
<1>3. ~OnLibrary => StoredInOrder
  BY DEF StoredInOrder
<1> QED BY <1>1, <1>2, <1>3, LibraryRuns, PTL

(* thread_remove() takes out of the list of a sketch the thread it was     *)
(* called for and no other, and that thread is not given the processor     *)
(* again.                                                                  *)
THEOREM SketchRemoved == Spec => [](sketch = Chosen => RemovedStaysOut)
<1>1. Chosen \in Library => (Lib!SketchSpec => []Lib!RemovedStaysOut)
  BY LibraryHolds, Lib!RemovedIsOut
<1>2. sketch = Chosen /\ Lib!RemovedStaysOut => RemovedStaysOut
  BY LibRemovedStaysOut, SMT DEF RemovedStaysOut
<1>3. ~OnLibrary => RemovedStaysOut
  BY DEF RemovedStaysOut
<1> QED BY <1>1, <1>2, <1>3, LibraryRuns, PTL

(* In the sketches with a kernel of their own, interrupts are on in every  *)
(* job but the first of a thread of context_switch.                        *)
THEOREM EarlyInterrupts == Spec => [](sketch = Chosen => JobsInterruptible)
<1>1. Chosen \in Early => (Own!EarlySpec => []Own!JobsInterruptible)
  BY EarlyHolds, Own!JobsAreInterruptible
<1>2. sketch = Chosen /\ Own!JobsInterruptible => JobsInterruptible
  BY OwnJobsInterruptible, SMT DEF JobsInterruptible
<1>3. OnLibrary => JobsInterruptible
  BY DEF JobsInterruptible
<1> QED BY <1>1, <1>2, <1>3, EarlyRuns, PTL

(* In these sketches an event-driven thread does one job for each          *)
(* thread_unblock() that found it blocked.                                 *)
THEOREM EarlyUnblocks == Spec => [](sketch = Chosen => JobPerUnblock)
<1>1. Chosen \in Early => (Own!EarlySpec => []Own!JobPerUnblock)
  BY EarlyHolds, Own!UnblocksAreServed
<1>2. sketch = Chosen /\ Own!JobPerUnblock => JobPerUnblock
  BY OwnJobPerUnblock, SMT DEF JobPerUnblock
<1>3. OnLibrary => JobPerUnblock
  BY DEF JobPerUnblock
<1> QED BY <1>1, <1>2, <1>3, EarlyRuns, PTL

(* In these sketches no job starts before its thread is due, as long as    *)
(* the counter has not wrapped around.                                     *)
THEOREM EarlyTimes == Spec => [](sketch = Chosen => NoJobTooEarly)
<1>1. Chosen \in Early => (Own!EarlySpec => []Own!NoJobTooEarly)
  BY EarlyHolds, Own!JobsAreDue
<1>2. sketch = Chosen /\ Own!NoJobTooEarly => NoJobTooEarly
  BY OwnNoJobTooEarly, SMT DEF NoJobTooEarly
<1>3. OnLibrary => NoJobTooEarly
  BY DEF NoJobTooEarly
<1> QED BY <1>1, <1>2, <1>3, EarlyRuns, PTL
=============================================================================
