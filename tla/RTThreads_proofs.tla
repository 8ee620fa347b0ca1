-------------------------- MODULE RTThreads_proofs --------------------------
(***************************************************************************)
(* What TLC checks on small instances of RTThreads, proved for every set   *)
(* of threads and every value of their parameters: first what holds        *)
(* whether the tick counter wraps around or not, then what holds until it  *)
(* does.                                                                   *)
(***************************************************************************)
EXTENDS RTThreads, RTBudget, RTKernel_proofs, TLAPS

-----------------------------------------------------------------------------
(* Every step keeps the types, and the processor with a ready thread.      *)

PatternTypeOK ==
  /\ pc \in [Threads -> PCs]
  /\ queue_pending \in [Threads -> Int]
  /\ thread_counter_us \in [Threads -> Ticks \union {NotReleased}]
  /\ ticks_aux \in [Threads -> Ticks]

LEMMA InitType == Init => TypeOK /\ RunningIsReady
<1> SUFFICES ASSUME Init PROVE TypeOK /\ RunningIsReady
  OBVIOUS
<1>1. 0 \in Ticks
  BY TickModAssumption DEF Ticks
<1>2. KernelTypeOK /\ RunningIsReady
  BY KernelInitType DEF Init
<1>3. PatternTypeOK
  BY <1>1 DEF Init, PatternTypeOK, PCs
<1> QED BY <1>2, <1>3 DEF TypeOK, PatternTypeOK

LEMMA SignalType ==
  ASSUME TypeOK, RunningIsReady, NEW th \in EventDriven, ThreadSignal(th)
  PROVE  TypeOK' /\ RunningIsReady'
<1> DEFINE li == IF Stamps(th)
                 THEN [queue_last_input EXCEPT ![th] = global_tick]
                 ELSE queue_last_input
<1>1. li \in [Threads -> Ticks]
  BY DEF TypeOK, KernelTypeOK
<1>2. ThreadUnblock(th, li)
  BY DEF ThreadSignal
<1> HIDE DEF li
<1>3. th \in Threads
  BY DEF EventDriven
<1>4. KernelTypeOK' /\ RunningIsReady'
  BY <1>1, <1>2, <1>3, UnblockType DEF TypeOK
<1>5. PatternTypeOK'
  BY <1>3 DEF ThreadSignal, TypeOK, PatternTypeOK
<1> QED BY <1>4, <1>5 DEF TypeOK, PatternTypeOK

LEMMA PatternType ==
  ASSUME TypeOK, RunningIsReady, NEW t \in Threads, Pattern(t)
  PROVE  TypeOK' /\ RunningIsReady'
<1> USE DEF TypeOK
<1>1. CASE Entry(t) \/ Reset(t)
  <2>1. /\ current_cost_ticks' = [current_cost_ticks EXCEPT ![t] = 0]
        /\ UNCHANGED <<thread_list, current_thread, status, priority, timerVars,
                       clockVars, queue_last_input, tick_counter_last_cost,
                       frames, queue_pending, thread_counter_us, ticks_aux>>
        /\ GoTo(t, "offset") \/ GoTo(t, "exec")
    BY <1>1 DEF Entry, Reset
  <2>2. 0 \in Ticks
    BY TickModAssumption DEF Ticks
  <2>3. KernelTypeOK' /\ RunningIsReady'
    BY <2>1, <2>2 DEF KernelTypeOK, RunningIsReady, timerVars, clockVars
  <2>4. PatternTypeOK'
    BY <2>1 DEF GoTo, PCs, PatternTypeOK
  <2> QED BY <2>3, <2>4 DEF PatternTypeOK
<1>2. CASE SleepOffset(t)
  <2>1. Offset[t] \in Int
    BY PatternAssumption DEF Ticks
  <2>2. KernelTypeOK' /\ RunningIsReady'
    BY <1>2, <2>1, TickSleepType DEF SleepOffset
  <2>3. PatternTypeOK'
    BY <1>2 DEF SleepOffset, GoTo, PCs, PatternTypeOK
  <2> QED BY <2>2, <2>3 DEF PatternTypeOK
<1>3. CASE Proceed(t) \/ Release(t) \/ ExecutorEnds(t) \/ TestCost(t)
             \/ Decrement(t)
  <2>1. UNCHANGED kernelVars
    BY <1>3 DEF Proceed, Release, ExecutorEnds, TestCost, Decrement
  <2>2. KernelTypeOK' /\ RunningIsReady'
    BY <2>1 DEF kernelVars, KernelTypeOK, RunningIsReady
  <2>3. pc' \in [Threads -> PCs]
    <3>1. PICK p \in PCs : GoTo(t, p)
      BY <1>3 DEF Proceed, Release, ExecutorEnds, TestCost, Decrement,
                  AfterTest, AfterJob, PCs
    <3> QED BY <3>1 DEF GoTo
  <2>4. queue_pending' \in [Threads -> Int]
    BY <1>3 DEF Proceed, Release, ExecutorEnds, TestCost, Decrement
  <2>5. /\ thread_counter_us' \in [Threads -> Ticks \union {NotReleased}]
        /\ ticks_aux' \in [Threads -> Ticks]
    <3>1. global_tick \in Ticks
      BY DEF KernelTypeOK
    <3>2. /\ \/ thread_counter_us' = thread_counter_us
             \/ thread_counter_us' = [thread_counter_us EXCEPT
                                        ![t] = global_tick]
          /\ \/ ticks_aux' = ticks_aux
             \/ ticks_aux' = [ticks_aux EXCEPT ![t] = global_tick]
      BY <1>3 DEF Proceed, Release, ExecutorEnds, TestCost, Decrement
    <3> QED BY <3>1, <3>2
  <2> QED BY <2>2, <2>3, <2>4, <2>5
<1>4. CASE Await(t)
  <2>1. FramesOK'
    BY <1>4, SuspendType DEF Await, Frames
  <2>2. KernelTypeOK' /\ RunningIsReady'
    BY <1>4, <2>1, BlockType DEF Await
  <2>3. PatternTypeOK'
    BY <1>4 DEF Await, GoTo, PCs, PatternTypeOK
  <2> QED BY <2>2, <2>3 DEF PatternTypeOK
<1>5. CASE AwaitOver(t)
  <2>1. UNCHANGED <<thread_list, current_thread, status, timerVars, clockVars,
                    costVars, queue_last_input>>
    BY <1>5 DEF AwaitOver
  <2>2. FramesOK'
    <3>1. frames' = [frames EXCEPT ![t] = <<>>]
      BY <1>5 DEF AwaitOver
    <3>2. <<>> \in Seq(Frames)
      OBVIOUS
    <3>3. frames \in [All -> Seq(Frames)]
      BY DEF KernelTypeOK
    <3> HIDE DEF TypeOK
    <3> QED BY <3>1, <3>2, <3>3 DEF FramesOK
  <2>3. KernelTypeOK' /\ RunningIsReady'
    BY <2>1, <2>2 DEF KernelTypeOK, FramesOK, RunningIsReady, timerVars,
                      clockVars, costVars
  <2>4. PatternTypeOK'
    BY <1>5 DEF AwaitOver, GoTo, PCs, PatternTypeOK
  <2> QED BY <2>3, <2>4 DEF PatternTypeOK
<1>6. CASE AwaitAgain(t)
  <2>1. ThreadBlock /\ FramesOK'
    BY <1>6 DEF AwaitAgain, FramesOK, KernelTypeOK
  <2>2. KernelTypeOK' /\ RunningIsReady'
    BY <2>1, BlockType
  <2>3. PatternTypeOK'
    BY <1>6 DEF AwaitAgain, patternVars, PatternTypeOK
  <2> QED BY <2>2, <2>3 DEF PatternTypeOK
<1>7. CASE Account(t)
  <2>1. /\ ChargeCurrent
        /\ UNCHANGED clockVars
        /\ UNCHANGED <<thread_list, current_thread, status, priority, timerVars,
                       queue_last_input, frames>>
    BY <1>7 DEF Account
  <2>2. current_cost_ticks' \in [Threads -> Ticks]
    <3>1. ASSUME NEW u \in Threads
          PROVE  (current_cost_ticks[u]
                   + (global_tick' - tick_counter_last_cost)) % TickMod
                   \in Ticks
      <4>0. /\ current_cost_ticks[u] \in Ticks /\ global_tick' \in Ticks
            /\ tick_counter_last_cost \in Ticks
        BY <2>1 DEF KernelTypeOK, clockVars
      <4>1. current_cost_ticks[u] + (global_tick' - tick_counter_last_cost)
              \in Int
        BY <4>0, TicksAreInts
      <4> QED BY <4>1, ModIsTick
    <3> QED BY <2>1, <3>1 DEF ChargeCurrent, KernelTypeOK
  <2>3. KernelTypeOK' /\ RunningIsReady'
    BY <2>1, <2>2 DEF ChargeCurrent, KernelTypeOK, RunningIsReady, clockVars,
                      timerVars
  <2>4. PatternTypeOK'
    BY <1>7 DEF Account, GoTo, AfterTest, AfterJob, PCs, PatternTypeOK
  <2> QED BY <2>3, <2>4 DEF PatternTypeOK
<1>8. CASE SleepToNext(t)
  <2> DEFINE n == (thread_counter_us[t] + Period[t] - ticks_aux[t]) % TickMod
  <2>1. n \in Int
    <3>0. /\ thread_counter_us[t] \in Ticks \union {NotReleased}
          /\ Period[t] \in Ticks /\ ticks_aux[t] \in Ticks
      BY ParamsAssumption
    <3>1. thread_counter_us[t] + Period[t] - ticks_aux[t] \in Int
      BY <3>0, TicksAreInts DEF NotReleased
    <3> QED BY <3>1, ModIsTick DEF Ticks
  <2>2. TickSleep(n)
    BY <1>8 DEF SleepToNext
  <2> HIDE DEF n
  <2>3. KernelTypeOK' /\ RunningIsReady'
    BY <2>1, <2>2, TickSleepType
  <2>4. PatternTypeOK'
    BY <1>8, TickModAssumption DEF SleepToNext, GoTo, PCs, PatternTypeOK, Ticks
  <2> QED BY <2>3, <2>4 DEF PatternTypeOK
<1> QED BY <1>1, <1>2, <1>3, <1>4, <1>5, <1>6, <1>7, <1>8 DEF Pattern

LEMMA StepType ==
  TypeOK /\ RunningIsReady /\ [Next]_vars => TypeOK' /\ RunningIsReady'
<1> SUFFICES ASSUME TypeOK, RunningIsReady, [Next]_vars
             PROVE  TypeOK' /\ RunningIsReady'
  OBVIOUS
<1>1. CASE Tick \/ Return \/ MainLoop
  <2>1. PatternTypeOK'
    BY <1>1 DEF Tick, Return, MainLoop, patternVars, TypeOK, PatternTypeOK
  <2>2. KernelTypeOK' /\ RunningIsReady'
    BY <1>1, TimerType, ReturnType, MainYieldType
       DEF Tick, Return, MainLoop, TypeOK
  <2> QED BY <2>1, <2>2 DEF TypeOK, PatternTypeOK
<1>2. CASE \E t \in Threads : Pattern(t)
  BY <1>2, PatternType
<1>3. CASE \E t \in Threads : \E th \in Targets[t] : ExecutorSignals(t, th)
  <2>1. PICK t \in Threads : \E th \in Targets[t] : ExecutorSignals(t, th)
    BY <1>3
  <2>2. PICK th \in Targets[t] : ExecutorSignals(t, th)
    BY <2>1
  <2>3. th \in EventDriven
    BY PatternAssumption
  <2> QED BY <2>2, <2>3, SignalType DEF ExecutorSignals
<1>4. CASE \E th \in Interrupts : InterruptSignals(th)
  BY <1>4, PatternAssumption, SignalType DEF InterruptSignals
<1>5. CASE UNCHANGED vars
  BY <1>5 DEF vars, kernelVars, patternVars, TypeOK, KernelTypeOK,
              RunningIsReady
<1> QED BY <1>1, <1>2, <1>3, <1>4, <1>5 DEF Next, Spin

(* The variables hold what their C types can hold.                         *)
THEOREM TypeCorrect == Spec => []TypeOK
<1>1. Init => TypeOK /\ RunningIsReady
  BY InitType
<1>2. TypeOK /\ RunningIsReady /\ [Next]_vars => TypeOK' /\ RunningIsReady'
  BY StepType
<1> QED BY <1>1, <1>2, PTL DEF Spec

(* The processor never runs a thread that sleeps or is blocked.            *)
THEOREM ReadyRuns == Spec => []RunningIsReady
<1>1. Init => TypeOK /\ RunningIsReady
  BY InitType
<1>2. TypeOK /\ RunningIsReady /\ [Next]_vars => TypeOK' /\ RunningIsReady'
  BY StepType
<1> QED BY <1>1, <1>2, PTL DEF Spec

-----------------------------------------------------------------------------
(***************************************************************************)
(* The inductive invariant.  QueueBound needs to know that the count is    *)
(* not negative; that needs the signal of the job whose end decrements it; *)
(* NoLostSignal needs the types only.                                      *)
(***************************************************************************)
Signals == NoSleeperOverdue /\ NoLostSignal /\ JobHasSignal /\ QueueBound

IInv == TypeOK /\ RunningIsReady /\ Signals

LEMMA InitSignals == Init => IInv
<1> SUFFICES ASSUME Init PROVE IInv
  OBVIOUS
<1>1. TypeOK /\ RunningIsReady
  BY InitType
<1>2. NoSleeperOverdue
  BY KernelInitType DEF Init
<1>3. /\ queue_pending = [t \in Threads |-> 0]
      /\ pc = [t \in Threads |-> "entry"]
  BY DEF Init
<1>4. NoLostSignal /\ JobHasSignal
  BY <1>3 DEF NoLostSignal, JobHasSignal, Jobs, EventDriven
<1>5. QueueBound
  <2>1. ASSUME NEW t \in EventDriven PROVE QueueMax[t] \in Int
    BY PatternAssumption DEF EventDriven
  <2> QED BY <1>3, <2>1 DEF QueueBound, EventDriven
<1> QED BY <1>1, <1>2, <1>4, <1>5 DEF IInv, Signals

(* A step that leaves the signals alone and blocks nobody with one.        *)
LEMMA SameSignals ==
  ASSUME IInv, TypeOK', NoSleeperOverdue',
         NEW S \in SUBSET All, BlocksOnly(S),
         \A t \in EventDriven : t \in S => queue_pending[t] <= 0,
         UNCHANGED queue_pending,
         \A t \in EventDriven :
           pc'[t] \in Jobs => pc[t] \in Jobs \/ queue_pending[t] > 0
  PROVE  Signals'
<1> USE DEF IInv, Signals
<1>0. EventDriven \subseteq Threads /\ EventDriven \subseteq All
  BY DEF EventDriven, All
<1>1. NoLostSignal'
  BY <1>0 DEF NoLostSignal, BlocksOnly
<1>2. JobHasSignal'
  <2>1. ASSUME NEW t \in EventDriven
        PROVE  queue_pending[t] >= IF pc'[t] \in Jobs THEN 1 ELSE 0
    <3>1. /\ queue_pending[t] \in Int
          /\ queue_pending[t] >= IF pc[t] \in Jobs THEN 1 ELSE 0
      BY <1>0 DEF TypeOK, JobHasSignal
    <3> QED BY <3>1
  <2> QED BY <2>1 DEF JobHasSignal
<1>3. QueueBound'
  BY DEF QueueBound
<1> QED BY <1>1, <1>2, <1>3

LEMMA SignalStep ==
  ASSUME IInv, TypeOK', NEW th \in EventDriven, ThreadSignal(th)
  PROVE  Signals'
<1> DEFINE li == IF Stamps(th)
                 THEN [queue_last_input EXCEPT ![th] = global_tick]
                 ELSE queue_last_input
<1>0. EventDriven \subseteq Threads /\ EventDriven \subseteq All
  BY DEF EventDriven, All
<1>1. NoSleeperOverdue' /\ BlocksOnly({}) /\ status'[th] # BLOCKED
  <2>1. ThreadUnblock(th, li)
    BY DEF ThreadSignal
  <2> HIDE DEF li
  <2> QED BY <1>0, <2>1, UnblockWakes DEF IInv, Signals, TypeOK
<1>2. ASSUME NEW t \in EventDriven
      PROVE  /\ queue_pending[t] \in Int
             /\ queue_pending'[t] = IF t = th /\ Counts(th)
                                    THEN queue_pending[t] + 1
                                    ELSE queue_pending[t]
             /\ pc'[t] = pc[t]
  BY <1>0 DEF ThreadSignal, IInv, TypeOK
<1>3. NoLostSignal'
  <2>1. ASSUME NEW t \in EventDriven, status'[t] = BLOCKED
        PROVE  queue_pending'[t] <= 0
    <3>1. t # th /\ status[t] = BLOCKED
      BY <1>0, <1>1, <2>1 DEF BlocksOnly
    <3> QED BY <1>2, <3>1 DEF IInv, Signals, NoLostSignal
  <2> QED BY <2>1 DEF NoLostSignal
<1>4. JobHasSignal'
  <2>1. ASSUME NEW t \in EventDriven
        PROVE  queue_pending'[t] >= IF pc'[t] \in Jobs THEN 1 ELSE 0
    <3>1. queue_pending[t] >= IF pc[t] \in Jobs THEN 1 ELSE 0
      BY DEF IInv, Signals, JobHasSignal
    <3> QED BY <1>2, <3>1
  <2> QED BY <2>1 DEF JobHasSignal
<1>5. QueueBound'
  <2>1. ASSUME NEW t \in EventDriven, OverPolicy[t] # "SAVE"
        PROVE  queue_pending'[t] <=
                 IF QueueMax[t] < 0 THEN 0 ELSE QueueMax[t] + 1
    <3>1. /\ QueueMax[t] \in Int
          /\ queue_pending[t] >= 0
          /\ queue_pending[t] <= IF QueueMax[t] < 0 THEN 0 ELSE QueueMax[t] + 1
      BY <1>0, <1>2, <2>1, PatternAssumption
         DEF IInv, Signals, JobHasSignal, QueueBound
    <3>2. CASE t = th /\ Counts(th)
      <4>1. QueueMax[t] >= queue_pending[t]
        BY <2>1, <3>2 DEF Counts, HasRoom
      <4> QED BY <1>2, <3>1, <3>2, <4>1
    <3>3. CASE ~ (t = th /\ Counts(th))
      BY <1>2, <3>1, <3>3
    <3> QED BY <3>2, <3>3
  <2> QED BY <2>1 DEF QueueBound
<1> QED BY <1>1, <1>3, <1>4, <1>5 DEF Signals

LEMMA PatternStep ==
  ASSUME IInv, TypeOK', NEW t \in Threads, Pattern(t)
  PROVE  Signals'
<1>0. /\ TypeOK /\ NoSleeperOverdue /\ t \in All
      /\ EventDriven \subseteq Threads
  BY DEF IInv, Signals, All, EventDriven
<1>1. CASE Entry(t) \/ Proceed(t) \/ AwaitOver(t) \/ Release(t) \/ Reset(t)
             \/ ExecutorEnds(t) \/ Account(t) \/ TestCost(t)
  <2>1. UNCHANGED <<thread_list, status, ticks_to_wait, carry_ticks_to_wait,
                    global_tick, queue_pending>>
    BY <1>1 DEF Entry, Proceed, AwaitOver, Release, Reset, ExecutorEnds,
                Account, TestCost, kernelVars, timerVars, clockVars
  <2>2. NoSleeperOverdue' /\ BlocksOnly({})
    BY <1>0, <2>1 DEF NoSleeperOverdue, BlocksOnly, Linked
  <2>3. ASSUME NEW u \in EventDriven, pc'[u] \in Jobs
        PROVE  pc[u] \in Jobs \/ queue_pending[u] > 0
    <3>1. CASE u # t
      <4>1. PICK q : GoTo(t, q)
        BY <1>1 DEF Entry, Proceed, AwaitOver, Release, Reset, ExecutorEnds,
                    Account, TestCost
      <4>2. pc'[u] = pc[u]
        BY <1>0, <3>1, <4>1 DEF GoTo, TypeOK
      <4> QED BY <2>3, <4>2
    <3>2. CASE u = t /\ Entry(t)
      BY <1>0, <2>3, <3>2 DEF Entry, GoTo, TypeOK, Jobs
    <3>3. CASE u = t /\ (Proceed(t) \/ AwaitOver(t))
      BY <3>3 DEF Proceed, AwaitOver
    <3>4. CASE u = t /\ (Release(t) \/ Reset(t) \/ ExecutorEnds(t)
                           \/ Account(t) \/ TestCost(t))
      BY <3>4 DEF Release, Reset, ExecutorEnds, Account, TestCost, At, Jobs
    <3> QED BY <1>1, <3>1, <3>2, <3>3, <3>4
  <2> QED BY <2>1, <2>2, <2>3, SameSignals
<1>2. CASE SleepOffset(t) \/ SleepToNext(t)
  <2>1. NoSleeperOverdue' /\ BlocksOnly({})
    <3>1. CASE SleepOffset(t)
      <4>1. Offset[t] \in Int
        BY PatternAssumption DEF Ticks
      <4> QED BY <1>0, <3>1, <4>1, TickSleepWakes DEF SleepOffset, TypeOK
    <3>2. CASE SleepToNext(t)
      <4> DEFINE n ==
            (thread_counter_us[t] + Period[t] - ticks_aux[t]) % TickMod
      <4>1. thread_counter_us[t] + Period[t] - ticks_aux[t] \in Int
        BY <1>0, ParamsAssumption DEF TypeOK, Ticks, NotReleased
      <4>2. n \in Int
        BY <4>1, ModIsTick DEF Ticks
      <4>3. TickSleep(n)
        BY <3>2 DEF SleepToNext
      <4> HIDE DEF n
      <4> QED BY <1>0, <4>2, <4>3, TickSleepWakes DEF TypeOK
    <3> QED BY <1>2, <3>1, <3>2
  <2>2. UNCHANGED queue_pending
    BY <1>2 DEF SleepOffset, SleepToNext
  <2>3. ASSUME NEW u \in EventDriven, pc'[u] \in Jobs
        PROVE  pc[u] \in Jobs
    BY <1>0, <1>2, <2>3
       DEF SleepOffset, SleepToNext, At, GoTo, TypeOK, Jobs
  <2> QED BY <2>1, <2>2, <2>3, SameSignals
<1>3. CASE Await(t) \/ AwaitAgain(t)
  <2>1. /\ ThreadBlock /\ current_thread = t
        /\ queue_pending[t] <= 0
        /\ UNCHANGED queue_pending
    BY <1>3 DEF Await, AwaitAgain, At, Runs, ReturnFromBlock, patternVars
  <2>2. NoSleeperOverdue' /\ BlocksOnly({t})
    BY <1>0, <2>1, BlockWakes DEF TypeOK
  <2>3. ASSUME NEW u \in EventDriven, pc'[u] \in Jobs
        PROVE  pc[u] \in Jobs
    BY <1>0, <1>3, <2>3 DEF Await, AwaitAgain, GoTo, patternVars, TypeOK, Jobs
  <2> QED BY <1>0, <2>1, <2>2, <2>3, SameSignals
<1>4. CASE Decrement(t)
  <2>1. UNCHANGED <<thread_list, status, ticks_to_wait, carry_ticks_to_wait,
                    global_tick>>
    BY <1>4 DEF Decrement, kernelVars
  <2>2. NoSleeperOverdue'
    BY <1>0, <2>1 DEF NoSleeperOverdue, Linked
  <2>3. ASSUME NEW u \in EventDriven
        PROVE  /\ queue_pending[u] \in Int
               /\ IF u = t
                  THEN /\ queue_pending'[u] = queue_pending[u] - 1
                       /\ pc[u] = "dec" /\ pc'[u] = "top"
                  ELSE /\ queue_pending'[u] = queue_pending[u]
                       /\ pc'[u] = pc[u]
    BY <1>0, <1>4 DEF Decrement, At, GoTo, TypeOK
  <2>4. NoLostSignal'
    <3>1. ASSUME NEW u \in EventDriven, status'[u] = BLOCKED
          PROVE  queue_pending'[u] <= 0
      <4>1. queue_pending[u] <= 0
        BY <2>1, <3>1 DEF IInv, Signals, NoLostSignal
      <4> QED BY <2>3, <4>1
    <3> QED BY <3>1 DEF NoLostSignal
  <2>5. JobHasSignal'
    <3>1. ASSUME NEW u \in EventDriven
          PROVE  queue_pending'[u] >= IF pc'[u] \in Jobs THEN 1 ELSE 0
      <4>1. queue_pending[u] >= IF pc[u] \in Jobs THEN 1 ELSE 0
        BY DEF IInv, Signals, JobHasSignal
      <4> QED BY <2>3, <4>1 DEF Jobs
    <3> QED BY <3>1 DEF JobHasSignal
  <2>6. QueueBound'
    <3>1. ASSUME NEW u \in EventDriven, OverPolicy[u] # "SAVE"
          PROVE  queue_pending'[u] <=
                   IF QueueMax[u] < 0 THEN 0 ELSE QueueMax[u] + 1
      <4>1. /\ QueueMax[u] \in Int
            /\ queue_pending[u] <=
                 IF QueueMax[u] < 0 THEN 0 ELSE QueueMax[u] + 1
        BY <1>0, <3>1, PatternAssumption DEF IInv, Signals, QueueBound
      <4> QED BY <2>3, <4>1
    <3> QED BY <3>1 DEF QueueBound
  <2> QED BY <2>2, <2>4, <2>5, <2>6 DEF Signals
<1> QED BY <1>1, <1>2, <1>3, <1>4 DEF Pattern

LEMMA SafeStep == IInv /\ [Next]_vars => IInv'
<1> SUFFICES ASSUME IInv, [Next]_vars PROVE IInv'
  OBVIOUS
<1>0. TypeOK' /\ RunningIsReady'
  BY StepType DEF IInv
<1>1. CASE Tick \/ MainLoop
  <2>1. NoSleeperOverdue' /\ BlocksOnly({})
    BY <1>1, TimerWakes DEF Tick, MainLoop, IInv, TypeOK
  <2>2. UNCHANGED patternVars
    BY <1>1 DEF Tick, MainLoop
  <2> QED BY <1>0, <2>1, <2>2, SameSignals DEF patternVars, IInv
<1>2. CASE Return \/ UNCHANGED vars
  <2>1. /\ UNCHANGED <<thread_list, status, ticks_to_wait, carry_ticks_to_wait,
                       global_tick>>
        /\ UNCHANGED patternVars
    BY <1>2 DEF Return, YieldReturn, TimerInterruptReturn, vars, kernelVars,
                timerVars, clockVars
  <2>2. NoSleeperOverdue' /\ BlocksOnly({})
    BY <2>1 DEF NoSleeperOverdue, BlocksOnly, IInv, Signals, Linked
  <2> QED BY <1>0, <2>1, <2>2, SameSignals DEF patternVars, IInv
<1>3. CASE \E t \in Threads : Pattern(t)
  BY <1>0, <1>3, PatternStep DEF IInv
<1>4. CASE \E t \in Threads : \E th \in Targets[t] : ExecutorSignals(t, th)
  <2>1. PICK t \in Threads : \E th \in Targets[t] : ExecutorSignals(t, th)
    BY <1>4
  <2>2. PICK th \in Targets[t] : ExecutorSignals(t, th)
    BY <2>1
  <2>3. th \in EventDriven
    BY PatternAssumption
  <2> QED BY <1>0, <2>2, <2>3, SignalStep DEF ExecutorSignals, IInv
<1>5. CASE \E th \in Interrupts : InterruptSignals(th)
  BY <1>0, <1>5, PatternAssumption, SignalStep DEF InterruptSignals, IInv
<1> QED BY <1>1, <1>2, <1>3, <1>4, <1>5 DEF Next, Spin

LEMMA Invariance == Spec => []IInv
<1>1. Init => IInv
  BY InitSignals
<1>2. IInv /\ [Next]_vars => IInv'
  BY SafeStep
<1> QED BY <1>1, <1>2, PTL DEF Spec

(* No sleeper whose time is past is overlooked by the calls that walk the  *)
(* thread list.                                                            *)
THEOREM SleepersWake == Spec => []NoSleeperOverdue
<1>1. IInv => NoSleeperOverdue
  BY DEF IInv, Signals
<1> QED BY <1>1, Invariance, PTL

(* A signal that was accepted never finds, or leaves, its thread blocked.  *)
THEOREM SignalsAreKept == Spec => []NoLostSignal
<1>1. IInv => NoLostSignal
  BY DEF IInv, Signals
<1> QED BY <1>1, Invariance, PTL

(* Every job of an event-driven thread runs for a signal of its own.       *)
THEOREM JobsAreSignalled == Spec => []JobHasSignal
<1>1. IInv => JobHasSignal
  BY DEF IInv, Signals
<1> QED BY <1>1, Invariance, PTL

(* The queue of signals holds one more than its length, and no more.       *)
THEOREM QueueIsBounded == Spec => []QueueBound
<1>1. IInv => QueueBound
  BY DEF IInv, Signals
<1> QED BY <1>1, Invariance, PTL

-----------------------------------------------------------------------------
(***************************************************************************)
(* Costs, whether the counter wraps around or not.  Every tick yields and  *)
(* every yield charges, so tick_counter_last_cost is always the present    *)
(* and what a switch charges is the tick that just came, or nothing.  From *)
(* its first current_cost_ticks = 0 on a thread is charged at most the     *)
(* ticks it ran, counted in RTBudget.                                      *)
(***************************************************************************)
Charged ==
  /\ tick_counter_last_cost = global_tick
  /\ ran \in [Threads -> Nat]
  /\ \A t \in Threads :
       pc[t] # "entry" => current_cost_ticks[t] <= ran[t]

CInv == TypeOK /\ RunningIsReady /\ Charged

(* What a step may charge the thread t: the tick it spends.                *)
ChargesTick(t) ==
  /\ \/ current_cost_ticks'[t] = 0
     \/ current_cost_ticks'[t] <= current_cost_ticks[t]
     \/ Spends(t) /\ current_cost_ticks'[t] <= current_cost_ticks[t] + 1
  /\ priority'[t] # priority[t] => MaxCost[t] < current_cost_ticks'[t]

LEMMA ModSuccessor ==
  ASSUME NEW M \in Nat \ {0}, NEW c \in 0 .. M - 1, NEW g \in 0 .. M - 1
  PROVE  /\ (g + 1) % M # g => (c + (((g + 1) % M) - g)) % M <= c + 1
         /\ (c + (g - g)) % M = c
<1>1. (c + (g - g)) % M = c
  OBVIOUS
<1>2. CASE g + 1 < M
  <2>1. (g + 1) % M = g + 1
    BY <1>2
  <2>2. c + ((g + 1) - g) = c + 1 /\ (c + 1) % M <= c + 1
    <3>1. c + 1 < M => (c + 1) % M = c + 1
      OBVIOUS
    <3>2. c + 1 = M => (c + 1) % M = 0
      OBVIOUS
    <3> QED BY <3>1, <3>2
  <2> QED BY <1>1, <2>1, <2>2
<1>3. CASE g + 1 = M
  <2>1. (g + 1) % M = 0
    BY <1>3
  <2>2. c + (0 - g) = c + 1 - M
    BY <1>3
  <2>3. CASE c + 1 = M
    <3>1. (c + 1 - M) % M = 0
      BY <2>3
    <3> QED BY <1>1, <2>1, <2>2, <3>1
  <2>4. CASE c + 1 < M
    <3> DEFINE k == c + 1
    <3>1. k \in 0 .. M - 1
      BY <2>4
    <3> HIDE DEF k
    <3>2. (k - M) % M = k
      BY <3>1
    <3>3. (c + 1 - M) % M = c + 1
      BY <3>2 DEF k
    <3> QED BY <1>1, <2>1, <2>2, <3>3
  <2> QED BY <2>3, <2>4
<1> QED BY <1>2, <1>3

LEMMA CostCharged ==
  ASSUME KernelTypeOK, tick_counter_last_cost = global_tick,
         global_tick' \in {global_tick, (global_tick + 1) % TickMod},
         ChargeCurrent, NEW t \in Threads
  PROVE  \/ current_cost_ticks'[t] = current_cost_ticks[t]
         \/ Spends(t) /\ current_cost_ticks'[t] <= current_cost_ticks[t] + 1
<1> DEFINE c == current_cost_ticks[t]
<1>1. /\ TickMod \in Nat \ {0}
      /\ c \in 0 .. TickMod - 1 /\ global_tick \in 0 .. TickMod - 1
  BY TickModAssumption DEF KernelTypeOK, Ticks
<1>2. current_cost_ticks'[t] =
        IF t = current_thread
        THEN (c + (global_tick' - global_tick)) % TickMod ELSE c
  BY DEF ChargeCurrent
<1> HIDE DEF c
<1>3. CASE t # current_thread
  BY <1>2, <1>3 DEF c
<1>4. CASE t = current_thread /\ global_tick' = global_tick
  BY <1>1, <1>2, <1>4, ModSuccessor DEF c
<1>5. CASE t = current_thread /\ global_tick' # global_tick
  <2> DEFINE g == global_tick
  <2>1. /\ global_tick' = (g + 1) % TickMod /\ (g + 1) % TickMod # g
        /\ current_cost_ticks'[t] = (c + (((g + 1) % TickMod) - g)) % TickMod
    BY <1>2, <1>5
  <2>2. g \in 0 .. TickMod - 1
    BY <1>1
  <2> HIDE DEF g
  <2>3. current_cost_ticks'[t] <= c + 1
    BY <1>1, <2>1, <2>2, ModSuccessor
  <2> QED BY <1>5, <2>3 DEF c, Spends
<1> QED BY <1>3, <1>4, <1>5

LEMMA YieldCharges ==
  ASSUME KernelTypeOK, tick_counter_last_cost = global_tick,
         global_tick' \in {global_tick, (global_tick + 1) % TickMod},
         NEW STATE st, NEW STATE wk, NEW STATE wc, NEW STATE li,
         ThreadYield(st, wk, wc, li)
  PROVE  /\ tick_counter_last_cost' = global_tick'
         /\ \A t \in Threads : ChargesTick(t)
<1>1. ChargeCurrent /\ DemoteOverrun
  BY DEF ThreadYield
<1>2. ASSUME NEW t \in Threads  PROVE ChargesTick(t)
  <2>1. t \in All
    BY DEF All
  <2>2. priority'[t] # priority[t] => MaxCost[t] < current_cost_ticks'[t]
    BY <1>1, <2>1 DEF DemoteOverrun
  <2>3. current_cost_ticks[t] \in Int
    BY TicksAreInts DEF KernelTypeOK
  <2> QED BY <1>1, <2>2, <2>3, CostCharged DEF ChargesTick
<1> QED BY <1>1, <1>2 DEF ChargeCurrent

(* Nothing but a switch, get_current_cost_ticks() and the two resets       *)
(* touches a cost, and nothing but a switch a priority.                    *)
LEMMA StepCharges ==
  ASSUME CInv, [Next]_vars
  PROVE  /\ tick_counter_last_cost' = global_tick'
         /\ \A t \in Threads : ChargesTick(t)
<1>0. /\ KernelTypeOK /\ tick_counter_last_cost = global_tick
      /\ \A t \in Threads : current_cost_ticks[t] \in Int
  BY TicksAreInts DEF CInv, TypeOK, KernelTypeOK, Charged
<1>1. CASE Tick
  BY <1>0, <1>1, YieldCharges DEF Tick, TimerInterrupt
<1>2. CASE MainLoop
  BY <1>0, <1>2, YieldCharges DEF MainLoop, MainYield, clockVars
<1>3. ASSUME UNCHANGED <<global_tick, tick_counter_last_cost, priority>>,
             \A t \in Threads :
               current_cost_ticks'[t] \in {0, current_cost_ticks[t]}
      PROVE  /\ tick_counter_last_cost' = global_tick'
             /\ \A t \in Threads : ChargesTick(t)
  BY <1>0, <1>3 DEF ChargesTick
<1>4. CASE Return \/ UNCHANGED vars
  <2>1. UNCHANGED <<global_tick, costVars>>
    BY <1>4 DEF Return, YieldReturn, TimerInterruptReturn, vars, kernelVars,
                clockVars, costVars
  <2> QED BY <1>3, <2>1 DEF costVars
<1>5. ASSUME NEW th \in EventDriven, ThreadSignal(th)
      PROVE  /\ tick_counter_last_cost' = global_tick'
             /\ \A t \in Threads : ChargesTick(t)
  <2> DEFINE li == IF Stamps(th)
                   THEN [queue_last_input EXCEPT ![th] = global_tick]
                   ELSE queue_last_input
             st == [status EXCEPT ![th] = ACTIVE]
  <2>1. ThreadUnblock(th, li)
    BY <1>5 DEF ThreadSignal
  <2> HIDE DEF li
  <2>2. CASE status[th] = BLOCKED
    <3>1. /\ ThreadYield(st, ticks_to_wait, carry_ticks_to_wait, li)
          /\ global_tick' = global_tick
      BY <2>1, <2>2 DEF ThreadUnblock, clockVars
    <3> HIDE DEF st
    <3> QED BY <1>0, <3>1, YieldCharges
  <2>3. CASE status[th] # BLOCKED
    <3>1. UNCHANGED <<global_tick, costVars>>
      BY <2>1, <2>3 DEF ThreadUnblock, clockVars
    <3> QED BY <1>3, <3>1 DEF costVars
  <2> QED BY <2>2, <2>3
<1>6. ASSUME NEW t \in Threads, Pattern(t)
      PROVE  /\ tick_counter_last_cost' = global_tick'
             /\ \A u \in Threads : ChargesTick(u)
  <2>1. CASE Entry(t) \/ Reset(t)
    <3>1. /\ UNCHANGED <<global_tick, tick_counter_last_cost, priority>>
          /\ current_cost_ticks' = [current_cost_ticks EXCEPT ![t] = 0]
      BY <2>1 DEF Entry, Reset, clockVars
    <3>2. \A u \in Threads :
            current_cost_ticks'[u] \in {0, current_cost_ticks[u]}
      BY <1>0, <3>1 DEF KernelTypeOK
    <3> QED BY <1>3, <3>1, <3>2
  <2>2. CASE \/ Proceed(t) \/ AwaitOver(t) \/ Release(t) \/ ExecutorEnds(t)
            \/ TestCost(t) \/ Decrement(t)
    <3>1. UNCHANGED <<global_tick, costVars>>
      BY <2>2 DEF Proceed, AwaitOver, Release, ExecutorEnds, TestCost,
                  Decrement, kernelVars, clockVars, costVars
    <3> QED BY <1>3, <3>1 DEF costVars
  <2>3. CASE Account(t)
    <3>1. ChargeCurrent /\ global_tick' = global_tick /\ priority' = priority
      BY <2>3 DEF Account, clockVars
    <3>2. \A u \in Threads : ChargesTick(u)
      BY <1>0, <3>1, CostCharged DEF ChargesTick
    <3> QED BY <3>1, <3>2 DEF ChargeCurrent
  <2>4. CASE Await(t) \/ AwaitAgain(t)
    <3> DEFINE st == [status EXCEPT ![current_thread] = BLOCKED]
    <3>1. /\ ThreadYield(st, ticks_to_wait, carry_ticks_to_wait,
                         queue_last_input)
          /\ global_tick' = global_tick
      BY <2>4 DEF Await, AwaitAgain, ThreadBlock, clockVars
    <3> HIDE DEF st
    <3> QED BY <1>0, <3>1, YieldCharges
  <2>5. ASSUME NEW STATE n, TickSleep(n)
        PROVE  /\ tick_counter_last_cost' = global_tick'
               /\ \A u \in Threads : ChargesTick(u)
    <3> DEFINE st == [status EXCEPT ![current_thread] = SLEPT]
               wk == [ticks_to_wait EXCEPT
                        ![current_thread] = (n + global_tick) % TickMod]
               wc == [carry_ticks_to_wait EXCEPT
                        ![current_thread] = IF global_tick > wk[current_thread]
                                            THEN 1 ELSE 0]
    <3>1. /\ ThreadYield(st, wk, wc, queue_last_input)
          /\ global_tick' = global_tick
      BY <2>5 DEF TickSleep, clockVars
    <3> HIDE DEF st, wk, wc
    <3> QED BY <1>0, <3>1, YieldCharges
  <2>6. CASE SleepOffset(t) \/ SleepToNext(t)
    BY <2>5, <2>6 DEF SleepOffset, SleepToNext
  <2> QED BY <1>6, <2>1, <2>2, <2>3, <2>4, <2>6 DEF Pattern
<1>7. CASE \E t \in Threads : Pattern(t) \/ Spin(t)
  BY <1>4, <1>6, <1>7 DEF Spin
<1>8. CASE \E t \in Threads : \E th \in Targets[t] : ExecutorSignals(t, th)
  <2>1. PICK t \in Threads : \E th \in Targets[t] : ExecutorSignals(t, th)
    BY <1>8
  <2>2. PICK th \in Targets[t] : ExecutorSignals(t, th)
    BY <2>1
  <2>3. th \in EventDriven
    BY <2>1, <2>2, PatternAssumption
  <2> QED BY <1>5, <2>2, <2>3 DEF ExecutorSignals
<1>9. CASE \E th \in Interrupts : InterruptSignals(th)
  BY <1>5, <1>9, PatternAssumption DEF InterruptSignals
<1> QED BY <1>1, <1>2, <1>4, <1>7, <1>8, <1>9 DEF Next

(* A thread leaves "entry" and "reset" by setting its cost to 0.           *)
LEMMA ZeroesCost ==
  ASSUME CInv, [Next]_vars, NEW t \in Threads, Zeroes(t)
  PROVE  current_cost_ticks'[t] = 0
<1>0. TypeOK /\ KernelTypeOK
  BY DEF CInv, TypeOK
<1>1. PICK u \in Threads : Pattern(u)
  BY DEF Zeroes, Next, Tick, Return, MainLoop, Spin, ExecutorSignals,
         InterruptSignals, ThreadSignal, vars, patternVars
<1>2. CASE u # t
  BY <1>0, <1>1, <1>2 DEF Zeroes, Pattern, Entry, SleepOffset, Proceed, Await,
     AwaitOver, AwaitAgain, Release, Reset, ExecutorEnds, Account, TestCost,
     SleepToNext, Decrement, GoTo, patternVars, TypeOK
<1>3. CASE u = t
  <2>1. Entry(t) \/ Reset(t)
    BY <1>1, <1>3 DEF Zeroes, Pattern, SleepOffset, Proceed, Await, AwaitOver,
       AwaitAgain, Release, ExecutorEnds, Account, TestCost, SleepToNext,
       Decrement, At, ReturnFromBlock
  <2> QED BY <1>0, <2>1 DEF Entry, Reset, KernelTypeOK
<1> QED BY <1>2, <1>3

LEMMA BudgetStep ==
  ASSUME CInv, BudgetNext \/ UNCHANGED <<vars, ran>>
  PROVE  /\ CInv'
         /\ \A t \in Threads :
              priority'[t] # priority[t] /\ pc[t] # "entry" =>
                ran'[t] > MaxCost[t]
<1>1. /\ [Next]_vars
      /\ TypeOK' /\ RunningIsReady'
      /\ ran \in [Threads -> Nat]
  BY StepType DEF CInv, Charged, BudgetNext
<1>2. /\ tick_counter_last_cost' = global_tick'
      /\ \A t \in Threads : ChargesTick(t)
  BY <1>1, StepCharges
<1>3. ASSUME NEW t \in Threads
      PROVE  /\ current_cost_ticks[t] \in Int /\ current_cost_ticks'[t] \in Int
             /\ MaxCost[t] \in Int
  <2>1. /\ current_cost_ticks[t] \in Ticks /\ current_cost_ticks'[t] \in Ticks
        /\ MaxCost[t] \in Ticks
    BY <1>1, ParamsAssumption DEF CInv, TypeOK, KernelTypeOK
  <2> QED BY <2>1, TicksAreInts
<1>4. CASE BudgetNext
  <2>1. ran' \in [Threads -> Nat]
    BY <1>1, <1>4 DEF BudgetNext
  <2>2. ASSUME NEW t \in Threads, pc[t] # "entry" \/ pc'[t] # "entry"
        PROVE  current_cost_ticks'[t] <= ran'[t]
    <3>1. CASE Zeroes(t)
      <4>1. ran'[t] = 0
        BY <1>4, <3>1 DEF BudgetNext
      <4> QED BY <1>1, <3>1, <4>1, ZeroesCost
    <3>2. CASE ~Zeroes(t)
      <4>1. pc[t] # "entry"
        BY <2>2, <3>2 DEF Zeroes
      <4>2. current_cost_ticks[t] <= ran[t] /\ ran[t] \in Nat
        BY <1>1, <4>1 DEF CInv, Charged
      <4>3. ran'[t] = IF Spends(t) THEN ran[t] + 1 ELSE ran[t]
        BY <1>4, <3>2 DEF BudgetNext
      <4>4. ChargesTick(t)
        BY <1>2
      <4> QED BY <1>3, <4>2, <4>3, <4>4 DEF ChargesTick
    <3> QED BY <3>1, <3>2
  <2>3. ASSUME NEW t \in Threads, priority'[t] # priority[t], pc[t] # "entry"
        PROVE  ran'[t] > MaxCost[t]
    <3>1. MaxCost[t] < current_cost_ticks'[t]
      BY <1>2, <2>3 DEF ChargesTick
    <3>2. current_cost_ticks'[t] <= ran'[t] /\ ran'[t] \in Nat
      BY <2>1, <2>2, <2>3
    <3> QED BY <1>3, <3>1, <3>2
  <2> QED BY <1>1, <1>2, <2>1, <2>2, <2>3 DEF CInv, Charged
<1>5. CASE UNCHANGED <<vars, ran>>
  BY <1>1, <1>5 DEF CInv, Charged, vars, kernelVars, patternVars
<1> QED BY <1>4, <1>5

(* A thread loses its priority only when the processor has been with it    *)
(* for more than max_cost_ticks since its current_cost_ticks was last set  *)
(* to 0: whatever the heap held, and whether the counter wraps around or   *)
(* not, it is charged for no other thread and for no tick twice.  The one  *)
(* time this leaves out is before a thread sets it for the first time.     *)
THEOREM DemotionsAreDue == BudgetSpec => DemotedOnlyAfterOverrun
<1>1. BudgetInit => CInv
  <2> SUFFICES ASSUME BudgetInit  PROVE CInv
    OBVIOUS
  <2>1. TypeOK /\ RunningIsReady
    BY InitType DEF BudgetInit
  <2>2. /\ tick_counter_last_cost = global_tick
        /\ ran \in [Threads -> Nat]
        /\ \A t \in Threads : pc[t] = "entry"
    BY DEF BudgetInit, Init, KernelInit
  <2> QED BY <2>1, <2>2 DEF CInv, Charged
<1>2. CInv /\ [BudgetNext]_<<vars, ran>> =>
        /\ CInv'
        /\ [\A t \in Threads :
              priority'[t] # priority[t] /\ pc[t] # "entry" =>
                ran'[t] > MaxCost[t]]_<<vars, ran>>
  BY BudgetStep
<1> QED BY <1>1, <1>2, PTL DEF BudgetSpec, DemotedOnlyAfterOverrun

-----------------------------------------------------------------------------
(***************************************************************************)
(* Until the tick counter wraps around: the threads do their jobs the way  *)
(* JobService says, and moving queue_last_input rejects no signal.  The    *)
(* counter does not wrap when the clock stops at LastTick < TickMod.       *)
(***************************************************************************)

(* Every tick yields and every yield charges, so tick_counter_last_cost is *)
(* the present; without a wrap-around there is no carry of the counter.    *)
Clock ==
  /\ global_tick <= LastTick
  /\ carry_tick_counter = 0
  /\ tick_counter_previous <= global_tick
  /\ tick_counter_last_cost = global_tick

-----------------------------------------------------------------------------
(* What any step makes of the timers and last inputs of the threads, but   *)
(* for the timers of those it puts to sleep itself.                        *)
SleepsOn(t) ==
  status[t] = SLEPT =>
    /\ ticks_to_wait'[t] = ticks_to_wait[t]
    /\ carry_ticks_to_wait'[t] = carry_ticks_to_wait[t]
    /\ \/ status'[t] = SLEPT
       \/ carry_ticks_to_wait[t] = 0 /\ ticks_to_wait[t] < global_tick'

Moves(t) ==
  \/ queue_last_input'[t] \in {queue_last_input[t], global_tick}
  \/ /\ (queue_last_input[t] + 2 * Period[t]) % TickMod < global_tick'
     /\ queue_last_input'[t] = (queue_last_input[t] + Period[t]) % TickMod

Passes(S) ==
  /\ Clock'
  /\ global_tick <= global_tick'
  /\ \A t \in Threads : (t \notin S => SleepsOn(t)) /\ Moves(t)

(* A yield whose caller wrote the table st, wk, wc, li.                    *)
LEMMA YieldTime ==
  ASSUME KernelTypeOK, Clock, global_tick' \in Ticks,
         global_tick' >= global_tick, carry_tick_counter' = 0,
         NEW STATE st, NEW STATE wk, NEW STATE wc, NEW STATE li,
         ThreadYield(st, wk, wc, li), NEW t \in Threads
  PROVE  /\ tick_counter_last_cost' = global_tick'
         /\ st[t] = SLEPT =>
              /\ ticks_to_wait'[t] = wk[t]
              /\ carry_ticks_to_wait'[t] = wc[t]
              /\ status'[t] = SLEPT \/ (wc[t] = 0 /\ wk[t] < global_tick')
         /\ \/ queue_last_input'[t] = li[t]
            \/ /\ st[t] = BLOCKED
               /\ (li[t] + 2 * Period[t]) % TickMod < global_tick'
               /\ queue_last_input'[t] = (li[t] + Period[t]) % TickMod
<1>0. t \in All
  BY DEF All
<1>1. tick_counter_last_cost' = global_tick'
  BY DEF ThreadYield, ChargeCurrent
<1>3. st[t] = SLEPT =>
        /\ ticks_to_wait'[t] = wk[t]
        /\ carry_ticks_to_wait'[t] = wc[t]
        /\ status'[t] = SLEPT \/ (wc[t] = 0 /\ wk[t] < global_tick')
  BY <1>0 DEF ThreadYield, Awaken, CarryLeft
<1>4. queue_last_input'[t] = CatchUp(st, li, t)
  BY DEF ThreadYield
<1> QED BY <1>1, <1>3, <1>4 DEF CatchUp

(* One that changed no sleeper and left the last inputs alone.             *)
LEMMA PlainYieldPasses ==
  ASSUME KernelTypeOK, Clock, global_tick' \in Ticks,
         global_tick' >= global_tick, global_tick' <= LastTick,
         carry_tick_counter' = 0, tick_counter_previous' <= global_tick',
         NEW STATE st,
         \A t \in Threads : status[t] = SLEPT => st[t] = SLEPT,
         ThreadYield(st, ticks_to_wait, carry_ticks_to_wait, queue_last_input)
  PROVE  Passes({})
<1>1. Clock'
  <2>1. tick_counter_last_cost' = global_tick'
    BY DEF ThreadYield, ChargeCurrent
  <2> QED BY <2>1 DEF Clock
<1>2. ASSUME NEW t \in Threads
      PROVE  SleepsOn(t) /\ Moves(t)
  <2>1. st[t] = SLEPT =>
          /\ ticks_to_wait'[t] = ticks_to_wait[t]
          /\ carry_ticks_to_wait'[t] = carry_ticks_to_wait[t]
          /\ \/ status'[t] = SLEPT
             \/ carry_ticks_to_wait[t] = 0 /\ ticks_to_wait[t] < global_tick'
    BY YieldTime
  <2>2. Moves(t)
    BY YieldTime DEF Moves
  <2> QED BY <2>1, <2>2 DEF SleepsOn
<1> QED BY <1>1, <1>2 DEF Passes

(* Each operation of the kernel, with the counter below its last tick.     *)
LEMMA TimerPasses ==
  ASSUME KernelTypeOK, Clock, LastTick < TickMod, TimerInterrupt
  PROVE  Passes({}) /\ global_tick' = global_tick + 1
<1>1. global_tick \in Nat /\ LastTick \in Nat /\ TickMod \in Nat \ {0}
  BY TickModAssumption DEF KernelTypeOK, Ticks
<1>2. global_tick + 1 <= LastTick
  BY <1>1 DEF TimerInterrupt, Clock
<1>3. global_tick' = global_tick + 1
  <2>1. (global_tick + 1) % TickMod = global_tick + 1
    BY <1>1, <1>2
  <2> QED BY <2>1 DEF TimerInterrupt
<1>4. /\ global_tick' \in Ticks /\ global_tick' >= global_tick
      /\ global_tick' <= LastTick
  BY <1>1, <1>2, <1>3 DEF Ticks
<1>5. tick_counter_previous \in Int /\ tick_counter_previous' <= global_tick'
  BY <1>1, <1>3 DEF TimerInterrupt, Clock, KernelTypeOK, Ticks
<1>6. carry_tick_counter' = 0
  BY <1>1, <1>3, <1>5 DEF TimerInterrupt, Clock
<1>7. ThreadYield(status, ticks_to_wait, carry_ticks_to_wait, queue_last_input)
  BY DEF TimerInterrupt
<1>8. Passes({})
  BY <1>4, <1>5, <1>6, <1>7, PlainYieldPasses
<1> QED BY <1>3, <1>8

(* Calls that leave the clock alone.                                       *)
LEMMA SameClock ==
  ASSUME KernelTypeOK, Clock, UNCHANGED clockVars
  PROVE  /\ global_tick' \in Ticks /\ global_tick' >= global_tick
         /\ global_tick' <= LastTick /\ carry_tick_counter' = 0
         /\ tick_counter_previous' <= global_tick'
         /\ global_tick' = global_tick
<1>1. global_tick \in Int
  BY TickModAssumption DEF KernelTypeOK, Ticks
<1> QED BY <1>1 DEF KernelTypeOK, Clock, clockVars

LEMMA MainYieldPasses ==
  ASSUME KernelTypeOK, Clock, MainYield
  PROVE  Passes({}) /\ global_tick' = global_tick
<1>1. /\ UNCHANGED clockVars
      /\ ThreadYield(status, ticks_to_wait, carry_ticks_to_wait,
                     queue_last_input)
  BY DEF MainYield
<1> QED BY <1>1, SameClock, PlainYieldPasses

LEMMA BlockPasses ==
  ASSUME KernelTypeOK, Clock, ThreadBlock
  PROVE  Passes({}) /\ global_tick' = global_tick
<1> DEFINE st == [status EXCEPT ![current_thread] = BLOCKED]
<1>1. \A t \in Threads : status[t] = SLEPT => st[t] = SLEPT
  BY DEF ThreadBlock, KernelTypeOK, All, SLEPT, ACTIVE
<1>2. /\ UNCHANGED clockVars
      /\ ThreadYield(st, ticks_to_wait, carry_ticks_to_wait, queue_last_input)
  BY DEF ThreadBlock
<1> HIDE DEF st
<1> QED BY <1>1, <1>2, SameClock, PlainYieldPasses

(* A step that leaves the clock and the timers alone.                      *)
LEMMA StillPasses ==
  ASSUME KernelTypeOK, Clock, tick_counter_previous' \in {tick_counter_previous,
                                                          global_tick},
         UNCHANGED <<status, timerVars, queue_last_input, global_tick,
                     carry_tick_counter, tick_counter_last_cost>>
  PROVE  Passes({}) /\ global_tick' = global_tick
<1>1. global_tick \in Int
  BY TickModAssumption DEF KernelTypeOK, Ticks
<1>2. Clock'
  BY <1>1 DEF Clock
<1>3. ASSUME NEW t \in Threads
      PROVE  SleepsOn(t) /\ Moves(t)
  BY DEF SleepsOn, Moves, timerVars
<1> QED BY <1>1, <1>2, <1>3 DEF Passes

LEMMA UnblockPasses ==
  ASSUME KernelTypeOK, Clock, NEW STATE th, th \in Threads, NEW STATE li,
         li \in {queue_last_input,
                [queue_last_input EXCEPT ![th] = global_tick]},
         ThreadUnblock(th, li)
  PROVE  Passes({}) /\ global_tick' = global_tick
<1> DEFINE st == [status EXCEPT ![th] = ACTIVE]
<1>0. th \in All /\ UNCHANGED clockVars
  BY DEF All, ThreadUnblock
<1>1. /\ li[th] \in {queue_last_input[th], global_tick}
      /\ \A t \in Threads \ {th} : li[t] = queue_last_input[t]
  BY DEF KernelTypeOK
<1>2. CASE status[th] = BLOCKED
  <2>1. /\ st[th] = ACTIVE
        /\ \A t \in Threads : status[t] = SLEPT => st[t] = SLEPT
    BY <1>0, <1>2 DEF KernelTypeOK, SLEPT, BLOCKED
  <2>2. ThreadYield(st, ticks_to_wait, carry_ticks_to_wait, li)
    BY <1>2 DEF ThreadUnblock
  <2> HIDE DEF st
  <2>3. Clock'
    <3>1. tick_counter_last_cost' = global_tick'
      BY <2>2 DEF ThreadYield, ChargeCurrent
    <3> QED BY <1>0, <3>1, SameClock DEF Clock
  <2>4. ASSUME NEW t \in Threads
        PROVE  SleepsOn(t) /\ Moves(t)
    <3>1. SleepsOn(t)
      BY <1>0, <2>1, <2>2, SameClock, YieldTime DEF SleepsOn
    <3>2. \/ queue_last_input'[t] = li[t]
          \/ /\ st[t] = BLOCKED
             /\ (li[t] + 2 * Period[t]) % TickMod < global_tick'
             /\ queue_last_input'[t] = (li[t] + Period[t]) % TickMod
      BY <1>0, <2>2, SameClock, YieldTime
    <3>3. Moves(t)
      BY <1>1, <2>1, <3>2 DEF Moves, ACTIVE, BLOCKED
    <3> QED BY <3>1, <3>3
  <2> QED BY <1>0, <2>3, <2>4, SameClock DEF Passes
<1>3. CASE status[th] # BLOCKED
  <2>1. queue_last_input' = li
        /\ UNCHANGED <<status, timerVars, costVars, clockVars>>
    BY <1>0, <1>3 DEF ThreadUnblock
  <2>2. Clock'
    BY <2>1 DEF Clock, clockVars, costVars
  <2>4. ASSUME NEW t \in Threads
        PROVE  SleepsOn(t) /\ Moves(t)
    BY <1>1, <2>1 DEF SleepsOn, Moves, timerVars, clockVars
  <2> QED BY <1>0, <2>2, <2>4, SameClock DEF Passes
<1> QED BY <1>2, <1>3

(* tick_sleep(n): the timer of the current thread is the caller's affair.  *)
LEMMA TickSleepPasses ==
  ASSUME KernelTypeOK, Clock, NEW STATE n, n \in Nat,
         current_thread \in Threads, TickSleep(n)
  PROVE  /\ Passes({current_thread}) /\ global_tick' = global_tick
         /\ ticks_to_wait'[current_thread] = (n + global_tick) % TickMod
         /\ carry_ticks_to_wait'[current_thread] =
              IF global_tick > (n + global_tick) % TickMod THEN 1 ELSE 0
         /\ status'[current_thread] = SLEPT
<1> DEFINE c == current_thread
           w == (n + global_tick) % TickMod
           st == [status EXCEPT ![c] = SLEPT]
           wk == [ticks_to_wait EXCEPT ![c] = w]
           wc == [carry_ticks_to_wait EXCEPT ![c] =
                    IF global_tick > wk[c] THEN 1 ELSE 0]
<1>0. UNCHANGED clockVars /\ c \in All
  BY DEF TickSleep, KernelTypeOK
<1>1. ThreadYield(st, wk, wc, queue_last_input)
  BY DEF TickSleep
<1>2. /\ st[c] = SLEPT /\ wk[c] = w
      /\ wc[c] = IF global_tick > w THEN 1 ELSE 0
      /\ \A t \in Threads \ {c} :
           /\ st[t] = status[t] /\ wk[t] = ticks_to_wait[t]
           /\ wc[t] = carry_ticks_to_wait[t]
  BY <1>0 DEF KernelTypeOK
<1>3. w \in Int /\ global_tick \in Int
  BY TickModAssumption DEF KernelTypeOK, Ticks
<1> HIDE DEF st, wk, wc, w
<1>4. Clock'
  <2>1. tick_counter_last_cost' = global_tick'
    BY <1>1 DEF ThreadYield, ChargeCurrent
  <2> QED BY <1>0, <2>1, SameClock DEF Clock
<1>5. ASSUME NEW t \in Threads
      PROVE  /\ Moves(t)
             /\ st[t] = SLEPT =>
                  /\ ticks_to_wait'[t] = wk[t]
                  /\ carry_ticks_to_wait'[t] = wc[t]
                  /\ status'[t] = SLEPT \/ (wc[t] = 0 /\ wk[t] < global_tick')
  BY <1>0, <1>1, SameClock, YieldTime DEF Moves
<1>6. \A t \in Threads : t # c => SleepsOn(t)
  BY <1>2, <1>5 DEF SleepsOn
<1>7. Passes({c})
  BY <1>0, <1>4, <1>5, <1>6, SameClock DEF Passes
<1>8. /\ ticks_to_wait'[c] = w
      /\ carry_ticks_to_wait'[c] = IF global_tick > w THEN 1 ELSE 0
      /\ status'[c] = SLEPT
  BY <1>0, <1>2, <1>3, <1>5, SameClock
<1> QED BY <1>0, <1>7, <1>8, SameClock DEF w

-----------------------------------------------------------------------------
(***************************************************************************)
(* The times of a thread.  A job is released, and its executor ends, in    *)
(* the past.  Between two jobs a thread with a period sleeps until later   *)
(* than a period after the release, or that time is past.                  *)
(***************************************************************************)
Timed(t) ==
  /\ thread_counter_us[t] <= global_tick
  /\ pc[t] \in {"entry", "offset"} => thread_counter_us[t] = NotReleased
  /\ pc[t] \in InJob => thread_counter_us[t] # NotReleased
  /\ pc[t] \in {"account", "cost", "sleep"} =>
       thread_counter_us[t] <= ticks_aux[t] /\ ticks_aux[t] <= global_tick

Rested(t) ==
  /\ Kind[t] # "aperiodic"
  /\ thread_counter_us[t] # NotReleased
  /\ pc[t] \in {"dec", "top", "await", "release"}
  => \/ global_tick > thread_counter_us[t] + Period[t]
     \/ /\ pc[t] = "dec" /\ status[t] = SLEPT
        /\ \/ carry_ticks_to_wait[t] = 1
           \/ ticks_to_wait[t] >= thread_counter_us[t] + Period[t]

UntilWrap == Clock /\ \A t \in Threads : Timed(t) /\ Rested(t)

(* What the steps need of the types.                                       *)
LEMMA Times ==
  ASSUME TypeOK, NEW t \in Threads
  PROVE  /\ TickMod \in Nat \ {0} /\ t \in All
         /\ global_tick \in 0 .. TickMod - 1
         /\ Period[t] \in 0 .. TickMod - 1
         /\ ticks_to_wait[t] \in 0 .. TickMod - 1
         /\ ticks_aux[t] \in 0 .. TickMod - 1
         /\ queue_last_input[t] \in 0 .. TickMod - 1
         /\ current_cost_ticks[t] \in 0 .. TickMod - 1
         /\ thread_counter_us[t] \in -1 .. TickMod - 1
         /\ thread_counter_us[t] # NotReleased => thread_counter_us[t] >= 0
         /\ MaxCost[t] \in Nat
<1>1. TickMod \in Nat \ {0} /\ t \in All
  BY TickModAssumption DEF All
<1>2. /\ global_tick \in Ticks /\ ticks_to_wait[t] \in Ticks
      /\ ticks_aux[t] \in Ticks /\ queue_last_input[t] \in Ticks
      /\ current_cost_ticks[t] \in Ticks
      /\ thread_counter_us[t] \in Ticks \union {NotReleased}
  BY <1>1 DEF TypeOK, KernelTypeOK
<1>3. Period[t] \in Ticks /\ MaxCost[t] \in Ticks
  BY ParamsAssumption
<1> QED BY <1>1, <1>2, <1>3 DEF Ticks, NotReleased

LEMMA ClockIsInt ==
  ASSUME TypeOK  PROVE global_tick \in Int
<1>1. global_tick \in Ticks
  BY DEF TypeOK, KernelTypeOK
<1> QED BY <1>1, TicksAreInts

LEMMA InitUntilWrap == Init => UntilWrap
<1> SUFFICES ASSUME Init  PROVE UntilWrap
  OBVIOUS
<1>1. Clock
  BY TickModAssumption DEF Init, KernelInit, Clock
<1>2. ASSUME NEW t \in Threads  PROVE Timed(t) /\ Rested(t)
  BY DEF Init, KernelInit, Timed, Rested, NotReleased, InJob
<1> QED BY <1>1, <1>2 DEF UntilWrap

(* A thread that does not act itself.                                      *)
LEMMA OthersTimed ==
  ASSUME TypeOK, TypeOK', UntilWrap, NEW S, Passes(S),
         NEW t \in Threads, t \notin S,
         pc'[t] = pc[t], thread_counter_us'[t] = thread_counter_us[t],
         ticks_aux'[t] = ticks_aux[t]
  PROVE  Timed(t)' /\ Rested(t)'
<1>1. /\ global_tick \in Int /\ global_tick' \in Int
      /\ Period[t] \in Int /\ thread_counter_us[t] \in Int
      /\ ticks_to_wait[t] \in Int /\ ticks_aux[t] \in Int
      /\ global_tick' >= global_tick /\ SleepsOn(t)
  <2>1. global_tick' \in Ticks
    BY DEF TypeOK, KernelTypeOK
  <2>2. global_tick' \in Int
    BY <2>1, TickModAssumption DEF Ticks
  <2> QED BY <2>2, Times DEF Passes
<1>2. Timed(t)'
  BY <1>1 DEF UntilWrap, Timed
<1>3. Rested(t)'
  BY <1>1 DEF UntilWrap, Rested, SleepsOn
<1> QED BY <1>2, <1>3

-----------------------------------------------------------------------------
(* Which steps pass time, and what they leave alone.                       *)
Stays(t) == /\ pc'[t] = pc[t] /\ ticks_aux'[t] = ticks_aux[t]
            /\ thread_counter_us'[t] = thread_counter_us[t]

LEMMA SystemPasses ==
  ASSUME TypeOK, Clock, LastTick < TickMod,
         Tick \/ Return \/ MainLoop \/ UNCHANGED vars
  PROVE  /\ Passes({}) /\ UNCHANGED patternVars
         /\ \/ global_tick' = global_tick
            \/ Tick /\ global_tick' = global_tick + 1
<1>0. KernelTypeOK /\ global_tick \in Int
  BY TickModAssumption DEF TypeOK, KernelTypeOK, Ticks
<1>1. CASE Tick
  BY <1>0, <1>1, TimerPasses DEF Tick
<1>2. CASE MainLoop
  BY <1>0, <1>2, MainYieldPasses DEF MainLoop
<1>3. CASE Return \/ UNCHANGED vars
  <2>1. /\ tick_counter_previous' \in {tick_counter_previous, global_tick}
        /\ UNCHANGED <<status, timerVars, queue_last_input, global_tick,
                       carry_tick_counter, tick_counter_last_cost>>
        /\ UNCHANGED patternVars
    BY <1>3 DEF Return, YieldReturn, TimerInterruptReturn, vars, kernelVars,
                timerVars, clockVars, costVars
  <2>3. Passes({}) /\ global_tick' = global_tick
    BY <1>0, <2>1, StillPasses
  <2> QED BY <1>0, <1>3, <2>1, <2>3
<1> QED BY <1>1, <1>2, <1>3

LEMMA SignalPasses ==
  ASSUME TypeOK, Clock, NEW th \in EventDriven, ThreadSignal(th)
  PROVE  /\ Passes({}) /\ global_tick' = global_tick
         /\ UNCHANGED <<pc, thread_counter_us, ticks_aux>>
<1> DEFINE li == IF Stamps(th)
                 THEN [queue_last_input EXCEPT ![th] = global_tick]
                 ELSE queue_last_input
<1>1. KernelTypeOK /\ th \in Threads
  BY DEF TypeOK, EventDriven
<1>2. /\ li \in {queue_last_input,
                [queue_last_input EXCEPT ![th] = global_tick]}
      /\ ThreadUnblock(th, li)
      /\ UNCHANGED <<pc, thread_counter_us, ticks_aux>>
  BY DEF ThreadSignal
<1> HIDE DEF li
<1> QED BY <1>1, <1>2, UnblockPasses

(* The thread that acts is awake.                                          *)
LEMMA ActorIsAwake ==
  ASSUME IInv, NEW t \in Threads, Pattern(t)
  PROVE  current_thread = t /\ status[t] = ACTIVE
<1>1. current_thread = t
  BY DEF Pattern, Entry, SleepOffset, Proceed, Await, AwaitOver, AwaitAgain,
         Release, Reset, ExecutorEnds, Account, TestCost, SleepToNext,
         Decrement, At, Runs, ReturnFromBlock
<1>2. t # Main
  BY ThreadsAssumption
<1> QED BY <1>1, <1>2 DEF IInv, RunningIsReady

(* The steps of periodic_pattern() that do not yield.                      *)
Quiet(t) == \/ Entry(t) \/ Proceed(t) \/ AwaitOver(t) \/ Release(t) \/ Reset(t)
            \/ ExecutorEnds(t) \/ Account(t) \/ TestCost(t) \/ Decrement(t)

LEMMA QuietPasses ==
  ASSUME TypeOK, Clock, NEW t \in Threads, Quiet(t)
  PROVE  Passes({}) /\ global_tick' = global_tick
<1>0. KernelTypeOK
  BY DEF TypeOK
<1>1. UNCHANGED <<status, timerVars, queue_last_input, clockVars>>
  BY DEF Quiet, Entry, Proceed, AwaitOver, Release, Reset, ExecutorEnds,
         Account, TestCost, Decrement, kernelVars, timerVars, clockVars,
         costVars
<1>2. tick_counter_last_cost' = tick_counter_last_cost
  <2>1. CASE Account(t)
    BY <1>1, <2>1 DEF Account, ChargeCurrent, Clock, clockVars
  <2>2. CASE Quiet(t) /\ ~Account(t)
    BY <2>2 DEF Quiet, Entry, Proceed, AwaitOver, Release, Reset, ExecutorEnds,
                TestCost, Decrement, kernelVars, costVars
  <2> QED BY <2>1, <2>2
<1> QED BY <1>0, <1>1, <1>2, StillPasses DEF clockVars

(* The step of a thread itself.                                            *)
LEMMA QuietTimed ==
  ASSUME IInv, UntilWrap, NEW t \in Threads, Quiet(t)
  PROVE  Timed(t)' /\ Rested(t)'
<1>1. /\ TypeOK /\ global_tick' = global_tick
      /\ current_thread = t /\ status[t] = ACTIVE
  BY QuietPasses, ActorIsAwake DEF IInv, UntilWrap, Pattern, Quiet
<1>2. /\ global_tick \in Nat /\ Period[t] \in Int
      /\ thread_counter_us[t] \in Int /\ ticks_aux[t] \in Int
  BY <1>1, Times
<1>3. Timed(t) /\ Rested(t)
  BY DEF UntilWrap
<1>4. CASE Entry(t)
  BY <1>1, <1>2, <1>3, <1>4
     DEF Entry, At, GoTo, TypeOK, Timed, Rested, InJob
<1>5. CASE Proceed(t) \/ AwaitOver(t) \/ Decrement(t)
  <2>1. /\ pc[t] \in {"dec", "top", "await"} /\ pc'[t] \in {"top", "release"}
        /\ thread_counter_us' = thread_counter_us
    BY <1>1, <1>5
       DEF Proceed, AwaitOver, Decrement, At, GoTo, TypeOK, ReturnFromBlock
  <2>2. Timed(t)'
    BY <1>1, <1>3, <2>1 DEF Timed, InJob
  <2>3. Rested(t)'
    BY <1>1, <1>3, <2>1 DEF Rested, ACTIVE, SLEPT
  <2> QED BY <2>2, <2>3
<1>6. CASE Release(t)
  <2>1. pc'[t] = "reset" /\ thread_counter_us'[t] = global_tick
    BY <1>1, <1>6 DEF Release, GoTo, TypeOK
  <2> QED BY <1>1, <1>2, <2>1 DEF Timed, Rested, InJob, NotReleased
<1>7. CASE Reset(t)
  <2>1. /\ pc[t] = "reset" /\ pc'[t] = "exec"
        /\ thread_counter_us' = thread_counter_us
    BY <1>1, <1>7 DEF Reset, At, GoTo, TypeOK
  <2> QED BY <1>1, <1>3, <2>1 DEF Timed, Rested, InJob
<1>8. CASE ExecutorEnds(t)
  <2>1. /\ pc[t] = "exec" /\ pc'[t] = "account" /\ ticks_aux'[t] = global_tick
        /\ thread_counter_us' = thread_counter_us
    BY <1>1, <1>8 DEF ExecutorEnds, At, GoTo, TypeOK
  <2> QED BY <1>1, <1>2, <1>3, <2>1 DEF Timed, Rested, InJob
<1>9. CASE Account(t) \/ TestCost(t)
  <2>1. /\ pc[t] \in {"account", "cost"}
        /\ pc'[t] \in {"cost", "sleep", "dec", "spin"}
        /\ pc'[t] = "dec" => Kind[t] = "aperiodic"
        /\ UNCHANGED <<thread_counter_us, ticks_aux>>
    BY <1>1, <1>9
       DEF Account, TestCost, At, GoTo, TypeOK, AfterTest, AfterJob
  <2> QED BY <1>1, <1>3, <2>1 DEF Timed, Rested, InJob
<1> QED BY <1>4, <1>5, <1>6, <1>7, <1>8, <1>9 DEF Quiet

LEMMA AwaitTimed ==
  ASSUME IInv, UntilWrap, NEW t \in Threads, Await(t) \/ AwaitAgain(t)
  PROVE  /\ Passes({}) /\ global_tick' = global_tick
         /\ Timed(t)' /\ Rested(t)'
<1>1. /\ TypeOK /\ KernelTypeOK /\ Clock /\ Timed(t) /\ Rested(t)
      /\ status[t] = ACTIVE
  BY ActorIsAwake DEF IInv, TypeOK, UntilWrap, Pattern
<1>2. ThreadBlock
  BY DEF Await, AwaitAgain
<1>3. Passes({}) /\ global_tick' = global_tick
  BY <1>1, <1>2, BlockPasses
<1>4. /\ pc[t] \in {"top", "await"} /\ pc'[t] = "await"
      /\ thread_counter_us' = thread_counter_us
  BY <1>1 DEF Await, AwaitAgain, At, GoTo, TypeOK, ReturnFromBlock, patternVars
<1>5. Timed(t)'
  BY <1>1, <1>3, <1>4 DEF Timed, InJob
<1>6. Rested(t)'
  BY <1>1, <1>3, <1>4 DEF Rested
<1> QED BY <1>3, <1>5, <1>6

LEMMA SleepTimed ==
  ASSUME IInv, UntilWrap, NEW t \in Threads, SleepOffset(t) \/ SleepToNext(t)
  PROVE  /\ Passes({t}) /\ global_tick' = global_tick
         /\ Timed(t)' /\ Rested(t)'
<1>1. /\ TypeOK /\ KernelTypeOK /\ Clock /\ Timed(t) /\ Rested(t)
      /\ current_thread = t
  BY ActorIsAwake DEF IInv, TypeOK, UntilWrap, Pattern
<1>2. CASE SleepOffset(t)
  <2>1. Offset[t] \in Nat
    BY PatternAssumption, TickModAssumption DEF Ticks
  <2>2. Passes({t}) /\ global_tick' = global_tick
    BY <1>1, <1>2, <2>1, TickSleepPasses DEF SleepOffset
  <2>3. /\ pc[t] = "offset" /\ pc'[t] = "top"
        /\ thread_counter_us' = thread_counter_us
    BY <1>1, <1>2 DEF SleepOffset, At, GoTo, TypeOK
  <2> QED BY <1>1, <2>2, <2>3 DEF Timed, Rested, InJob
<1>3. CASE SleepToNext(t)
  <2> DEFINE n == (thread_counter_us[t] + Period[t] - ticks_aux[t]) % TickMod
             w == (n + global_tick) % TickMod
  <2>1. /\ pc[t] = "sleep" /\ pc'[t] = "dec"
        /\ thread_counter_us' = thread_counter_us
    BY <1>1, <1>3 DEF SleepToNext, At, GoTo, TypeOK
  <2>2. /\ TickMod \in Nat \ {0} /\ global_tick \in 0 .. TickMod - 1
        /\ Period[t] \in 0 .. TickMod - 1 /\ ticks_aux[t] \in 0 .. TickMod - 1
        /\ thread_counter_us[t] \in 0 .. TickMod - 1
        /\ thread_counter_us[t] <= ticks_aux[t] /\ ticks_aux[t] <= global_tick
    <3>1. thread_counter_us[t] # NotReleased
      BY <1>1, <2>1 DEF Timed, InJob
    <3>2. thread_counter_us[t] <= ticks_aux[t] /\ ticks_aux[t] <= global_tick
      BY <1>1, <2>1 DEF Timed
    <3> QED BY <1>1, <3>1, <3>2, Times
  <2>3. TickSleep(n)
    BY <1>3 DEF SleepToNext
  <2> HIDE DEF n
  <2>4. /\ n \in 0 .. TickMod - 1 /\ w \in 0 .. TickMod - 1
        /\ w >= global_tick => w >= thread_counter_us[t] + Period[t]
    <3>1. n = (thread_counter_us[t] + Period[t] - ticks_aux[t]) % TickMod
      BY DEF n
    <3>2. w = (n + global_tick) % TickMod
      OBVIOUS
    <3>3. ASSUME NEW g \in 0 .. TickMod - 1, NEW c \in 0 .. TickMod - 1,
                 NEW a \in 0 .. TickMod - 1, NEW p \in 0 .. TickMod - 1,
                 c <= a, a <= g, NEW k, k = (c + p - a) % TickMod
          PROVE  /\ k \in 0 .. TickMod - 1
                 /\ (k + g) % TickMod \in 0 .. TickMod - 1
                 /\ (k + g) % TickMod >= g => (k + g) % TickMod >= c + p
      <4>1. PICK v : v = (k + g) % TickMod
        OBVIOUS
      <4>2. /\ k \in 0 .. TickMod - 1 /\ v \in 0 .. TickMod - 1
            /\ v >= g => v >= c + p
        BY <3>3, <4>1, TickModAssumption, SleepCoversPeriod
      <4> QED BY <4>1, <4>2
    <3> HIDE DEF w
    <3> QED BY <2>2, <3>1, <3>2, <3>3
  <2>5. n \in Nat
    BY <2>2, <2>4
  <2>6. /\ Passes({t}) /\ global_tick' = global_tick
        /\ ticks_to_wait'[t] = w /\ status'[t] = SLEPT
        /\ carry_ticks_to_wait'[t] = IF global_tick > w THEN 1 ELSE 0
    BY <1>1, <2>3, <2>5, TickSleepPasses
  <2> HIDE DEF w
  <2>7. Timed(t)'
    BY <1>1, <2>1, <2>6 DEF Timed, InJob
  <2>8. w >= thread_counter_us[t] + Period[t] \/ global_tick > w
    BY <2>2, <2>4
  <2>9. Rested(t)'
    BY <2>1, <2>6, <2>8 DEF Rested
  <2> QED BY <2>6, <2>7, <2>9
<1> QED BY <1>2, <1>3

(* Every step passes time, and keeps the times of every thread.            *)
LEMMA StepPasses ==
  ASSUME IInv, TypeOK', UntilWrap, LastTick < TickMod, [Next]_vars
  PROVE  /\ UntilWrap'
         /\ \/ global_tick' = global_tick
            \/ Tick /\ global_tick' = global_tick + 1
         /\ \A t \in Threads : Moves(t)
<1>0. TypeOK /\ Clock /\ global_tick \in Int
  <2>1. TypeOK /\ Clock
    BY DEF IInv, UntilWrap
  <2> QED BY <2>1, ClockIsInt
<1>1. ASSUME Passes({}), \A t \in Threads : Stays(t)
      PROVE  UntilWrap'
  <2>1. ASSUME NEW t \in Threads  PROVE Timed(t)' /\ Rested(t)'
    BY <1>0, <1>1, OthersTimed DEF Stays
  <2> QED BY <1>1, <2>1 DEF UntilWrap, Passes
<1>2. CASE Tick \/ Return \/ MainLoop \/ UNCHANGED vars
  <2>1. /\ Passes({}) /\ UNCHANGED patternVars
        /\ \/ global_tick' = global_tick
           \/ Tick /\ global_tick' = global_tick + 1
    BY <1>0, <1>2, SystemPasses
  <2> QED BY <1>1, <2>1 DEF Stays, patternVars, Passes
<1>3. ASSUME NEW th \in EventDriven, ThreadSignal(th)
      PROVE  /\ UntilWrap' /\ global_tick' = global_tick
             /\ \A t \in Threads : Moves(t)
  <2>1. /\ Passes({}) /\ global_tick' = global_tick
        /\ UNCHANGED <<pc, thread_counter_us, ticks_aux>>
    BY <1>0, <1>3, SignalPasses
  <2> QED BY <1>1, <2>1 DEF Stays, Passes
<1>4. ASSUME NEW t \in Threads, Pattern(t)
      PROVE  /\ UntilWrap' /\ global_tick' = global_tick
             /\ \A u \in Threads : Moves(u)
  <2>1. /\ Passes({t}) /\ global_tick' = global_tick
        /\ Timed(t)' /\ Rested(t)'
    <3>1. CASE Quiet(t)
      BY <1>0, <3>1, QuietPasses, QuietTimed DEF Passes
    <3>2. CASE Await(t) \/ AwaitAgain(t)
      BY <3>2, AwaitTimed DEF Passes
    <3>3. CASE SleepOffset(t) \/ SleepToNext(t)
      BY <3>3, SleepTimed
    <3> QED BY <1>4, <3>1, <3>2, <3>3 DEF Pattern, Quiet
  <2>2. ASSUME NEW u \in Threads \ {t}  PROVE Timed(u)' /\ Rested(u)'
    <3>1. Stays(u)
      BY <1>0, <1>4 DEF Pattern, Entry, SleepOffset, Proceed, Await, AwaitOver,
         AwaitAgain, Release, Reset, ExecutorEnds, Account, TestCost,
         SleepToNext, Decrement, GoTo, patternVars, Stays, TypeOK
    <3> QED BY <1>0, <2>1, <3>1, OthersTimed DEF Stays
  <2> QED BY <2>1, <2>2 DEF UntilWrap, Passes
<1>5. CASE \E t \in Threads : Pattern(t) \/ Spin(t)
  <2>1. PICK t \in Threads : Pattern(t) \/ Spin(t)
    BY <1>5
  <2>2. CASE Pattern(t)
    BY <1>4, <2>2
  <2>3. CASE Spin(t)
    BY <1>2, <2>3 DEF Spin
  <2> QED BY <2>1, <2>2, <2>3
<1>6. CASE \E t \in Threads : \E th \in Targets[t] : ExecutorSignals(t, th)
  <2>1. PICK t \in Threads : \E th \in Targets[t] : ExecutorSignals(t, th)
    BY <1>6
  <2>2. PICK th \in Targets[t] : ExecutorSignals(t, th)
    BY <2>1
  <2>3. th \in EventDriven
    BY PatternAssumption
  <2> QED BY <1>3, <2>2, <2>3 DEF ExecutorSignals
<1>7. CASE \E th \in Interrupts : InterruptSignals(th)
  <2>1. PICK th \in Interrupts : InterruptSignals(th)
    BY <1>7
  <2>2. th \in EventDriven
    BY PatternAssumption
  <2> QED BY <1>3, <2>1, <2>2 DEF InterruptSignals
<1> QED BY <1>2, <1>5, <1>6, <1>7 DEF Next

-----------------------------------------------------------------------------
(* The jobs.                                                               *)
Busy == {t \in Threads : pc[t] \in InJob}

LEMMA PatternServes ==
  ASSUME IInv, TypeOK', UntilWrap, LastTick < TickMod,
         NEW t \in Threads, Pattern(t), global_tick' = global_tick
  PROVE  [Service!Next]_(Service!vars)
<1>0. /\ TypeOK /\ Timed(t) /\ Rested(t) /\ status[t] = ACTIVE
      /\ EventDriven \subseteq Threads
  BY ActorIsAwake DEF IInv, UntilWrap, EventDriven
<1>1. CASE Release(t)
  <2>1. /\ pc[t] = "release" /\ pc' = [pc EXCEPT ![t] = "reset"]
        /\ thread_counter_us' = [thread_counter_us EXCEPT ![t] = global_tick]
        /\ queue_pending' = queue_pending
    BY <1>1 DEF Release, At, GoTo
  <2>2. t \notin Busy /\ Busy' = Busy \union {t}
    BY <1>0, <2>1 DEF Busy, InJob, TypeOK
  <2>3. t \in EventDriven => queue_pending[t] > 0
    <3>1. t \in EventDriven => queue_pending[t] >= 1 /\ queue_pending[t] \in Int
      BY <1>0, <2>1 DEF IInv, Signals, JobHasSignal, Jobs, TypeOK
    <3> QED BY <3>1
  <2>4. \/ Kind[t] = "aperiodic"
        \/ thread_counter_us[t] = NotReleased
        \/ global_tick - thread_counter_us[t] > Period[t]
    <3>1. /\ global_tick \in Int /\ thread_counter_us[t] \in Int
          /\ Period[t] \in Int
      BY <1>0, Times
    <3>2. CASE global_tick > thread_counter_us[t] + Period[t]
      BY <3>1, <3>2
    <3>3. CASE Kind[t] = "aperiodic" \/ thread_counter_us[t] = NotReleased
      BY <3>3
    <3> QED BY <1>0, <2>1, <3>2, <3>3 DEF Rested
  <2>5. Service!Start(t)
    BY <2>1, <2>2, <2>3, <2>4 DEF Service!Start, Busy
  <2> QED BY <2>5 DEF Service!Next
<1>2. CASE Decrement(t)
  <2>1. /\ pc[t] = "dec" /\ pc' = [pc EXCEPT ![t] = "top"]
        /\ thread_counter_us' = thread_counter_us
        /\ queue_pending' = IF t \in EventDriven
                            THEN [queue_pending EXCEPT ![t] = @ - 1]
                            ELSE queue_pending
    BY <1>2 DEF Decrement, At, GoTo
  <2>2. t \in Busy /\ Busy' = Busy \ {t}
    BY <1>0, <2>1 DEF Busy, InJob, TypeOK
  <2>3. Service!End(t)
    BY <2>1, <2>2 DEF Service!End, Busy
  <2> QED BY <2>3 DEF Service!Next
<1>3. CASE ~Release(t) /\ ~Decrement(t)
  <2>1. UNCHANGED <<queue_pending, thread_counter_us>>
    BY <1>3 DEF Pattern, Entry, SleepOffset, Proceed, Await, AwaitOver,
       AwaitAgain, Reset, ExecutorEnds, Account, TestCost, SleepToNext,
       patternVars
  <2>2. /\ \A u \in Threads \ {t} : pc'[u] = pc[u]
        /\ pc'[t] \in InJob <=> pc[t] \in InJob
    <3>1. CASE Entry(t) \/ SleepOffset(t) \/ Proceed(t) \/ Await(t)
                 \/ AwaitOver(t) \/ AwaitAgain(t)
      BY <1>0, <3>1 DEF Entry, SleepOffset, Proceed, Await, AwaitOver,
         AwaitAgain, ReturnFromBlock, At, GoTo, TypeOK, InJob, patternVars
    <3>2. CASE Reset(t) \/ ExecutorEnds(t) \/ Account(t) \/ TestCost(t)
                 \/ SleepToNext(t)
      BY <1>0, <3>2 DEF Reset, ExecutorEnds, Account, TestCost, SleepToNext,
         AfterTest, AfterJob, At, GoTo, TypeOK, InJob
    <3> QED BY <1>3, <3>1, <3>2 DEF Pattern
  <2>3. Busy' = Busy
    BY <2>2 DEF Busy
  <2>4. UNCHANGED Service!vars
    BY <2>1, <2>3 DEF Service!vars, Busy
  <2> QED BY <2>4
<1> QED BY <1>1, <1>2, <1>3

LEMMA StepServes ==
  ASSUME IInv, TypeOK', UntilWrap, LastTick < TickMod, [Next]_vars
  PROVE  [Service!Next]_(Service!vars)
<1>0. \/ global_tick' = global_tick
      \/ Tick /\ global_tick' = global_tick + 1
  BY StepPasses
<1>1. CASE Tick /\ global_tick' = global_tick + 1
  <2>1. UNCHANGED patternVars
    BY <1>1 DEF Tick
  <2>2. Service!Tick
    BY <1>1, <2>1 DEF Service!Tick, patternVars
  <2> QED BY <2>2 DEF Service!Next
<1>2. CASE UNCHANGED <<global_tick, patternVars>>
  <2>1. UNCHANGED Service!vars
    BY <1>2 DEF Service!vars, patternVars
  <2> QED BY <2>1
<1>3. ASSUME NEW th \in EventDriven, ThreadSignal(th),
             global_tick' = global_tick
      PROVE  [Service!Next]_(Service!vars)
  <2>1. UNCHANGED <<pc, thread_counter_us>>
    BY <1>3 DEF ThreadSignal
  <2>2. CASE Counts(th)
    <3>1. queue_pending' = [queue_pending EXCEPT ![th] = @ + 1]
      BY <1>3, <2>2 DEF ThreadSignal
    <3>2. Service!Accept(th)
      BY <1>3, <2>1, <3>1 DEF Service!Accept
    <3> QED BY <3>2 DEF Service!Next
  <2>3. CASE ~Counts(th)
    <3>1. UNCHANGED Service!vars
      BY <1>3, <2>1, <2>3 DEF ThreadSignal, Service!vars
    <3> QED BY <3>1
  <2> QED BY <2>2, <2>3
<1>4. CASE /\ global_tick' = global_tick
           /\ Tick \/ Return \/ MainLoop \/ UNCHANGED vars
  BY <1>2, <1>4 DEF Tick, Return, MainLoop, vars, patternVars
<1>5. CASE /\ global_tick' = global_tick
           /\ \E t \in Threads : Pattern(t) \/ Spin(t)
  <2>1. PICK t \in Threads : Pattern(t) \/ Spin(t)
    BY <1>5
  <2>2. CASE Spin(t)
    BY <1>4, <1>5, <2>2 DEF Spin
  <2> QED BY <1>5, <2>1, <2>2, PatternServes
<1>6. CASE /\ global_tick' = global_tick
           /\ \E t \in Threads : \E th \in Targets[t] : ExecutorSignals(t, th)
  <2>1. PICK t \in Threads : \E th \in Targets[t] : ExecutorSignals(t, th)
    BY <1>6
  <2>2. PICK th \in Targets[t] : ExecutorSignals(t, th)
    BY <2>1
  <2>3. th \in EventDriven
    BY PatternAssumption
  <2> QED BY <1>3, <1>6, <2>2, <2>3 DEF ExecutorSignals
<1>7. CASE /\ global_tick' = global_tick
           /\ \E th \in Interrupts : InterruptSignals(th)
  <2>1. PICK th \in Interrupts : InterruptSignals(th)
    BY <1>7
  <2>2. th \in EventDriven
    BY PatternAssumption
  <2> QED BY <1>3, <1>7, <2>1, <2>2 DEF InterruptSignals
<1> QED BY <1>0, <1>1, <1>4, <1>5, <1>6, <1>7 DEF Next

LEMMA ClockInvariance ==
  ASSUME LastTick < TickMod
  PROVE  Spec => [](IInv /\ UntilWrap)
<1>1. Init => IInv /\ UntilWrap
  BY InitSignals, InitUntilWrap
<1>2. IInv /\ UntilWrap /\ [Next]_vars => IInv' /\ UntilWrap'
  <2> SUFFICES ASSUME IInv, UntilWrap, [Next]_vars  PROVE IInv' /\ UntilWrap'
    OBVIOUS
  <2>1. IInv'
    BY SafeStep
  <2> QED BY <2>1, StepPasses DEF IInv
<1> QED BY <1>1, <1>2, PTL DEF Spec

(* Whatever the scheduler does, the threads do their jobs as JobService    *)
(* says: one at a time, each for an accepted signal of its own, and more   *)
(* than a period apart.                                                    *)
THEOREM JobsAreServed ==
  ASSUME LastTick < TickMod
  PROVE  Spec => ServiceSpec
<1>1. Init => Service!Init
  BY DEF Init, KernelInit, Service!Init, InJob
<1>2. IInv /\ IInv' /\ UntilWrap /\ [Next]_vars
        => [Service!Next]_(Service!vars)
  BY StepServes DEF IInv
<1> QED BY <1>1, <1>2, ClockInvariance, PTL
        DEF Spec, ServiceSpec, Service!Spec

-----------------------------------------------------------------------------
(* Interarrival times.                                                     *)
Pasts == \A t \in Threads : queue_last_input[t] <= global_tick

LEMMA StepKeepsRoom ==
  ASSUME IInv, TypeOK', UntilWrap, LastTick < TickMod, [Next]_vars, Pasts,
         NEW t \in Threads, LastTick + 2 * Period[t] < TickMod
  PROVE  /\ queue_last_input'[t] <= global_tick'
         /\ queue_last_input'[t] \notin {queue_last_input[t], global_tick} =>
              global_tick' - queue_last_input'[t] > Period[t]
<1> DEFINE l == queue_last_input[t]
           p == Period[t]
<1>1. /\ Moves(t) /\ l <= global_tick /\ global_tick <= LastTick
      /\ global_tick' \in {global_tick, global_tick + 1}
  BY StepPasses DEF UntilWrap, Clock, Pasts
<1>2. /\ l \in Nat /\ global_tick \in Nat /\ p \in Nat
      /\ LastTick \in Nat /\ TickMod \in Nat \ {0}
  BY Times, TickModAssumption DEF IInv
<1>3. CASE queue_last_input'[t] \in {l, global_tick}
  <2> HIDE DEF p
  <2> QED BY <1>1, <1>2, <1>3
<1>4. CASE /\ (l + 2 * p) % TickMod < global_tick'
           /\ queue_last_input'[t] = (l + p) % TickMod
  <2>1. /\ l + 2 * p \in Nat /\ l + p \in Nat
        /\ l + 2 * p < TickMod /\ l + p < TickMod
    BY <1>1, <1>2
  <2>2. (l + 2 * p) % TickMod = l + 2 * p /\ (l + p) % TickMod = l + p
    BY <2>1, ModSmaller
  <2>3. l + 2 * p < global_tick' /\ queue_last_input'[t] = l + p
    BY <1>4, <2>2
  <2> HIDE DEF l, p
  <2>4. l + p <= global_tick' /\ global_tick' - (l + p) > p
    BY <1>1, <1>2, <2>3
  <2> QED BY <2>3, <2>4 DEF p
<1> QED BY <1>1, <1>3, <1>4 DEF Moves

(* Moving queue_last_input of a blocked thread forward leaves more than    *)
(* the minimum interarrival time to the present: the next signal is in     *)
(* time.  Two interarrival times must fit between the last tick and the    *)
(* wrap-around.                                                            *)
THEOREM CatchUpIsSafe ==
  ASSUME LastTick < TickMod,
         \A t \in Threads : LastTick + 2 * Period[t] < TickMod
  PROVE  Spec => CatchUpKeepsRoom
<1>1. Init => Pasts
  <2> SUFFICES ASSUME Init, NEW t \in Threads
               PROVE  queue_last_input[t] <= global_tick
    BY DEF Pasts
  <2>1. queue_last_input[t] = 0 /\ global_tick = 0
    BY DEF Init, KernelInit
  <2> QED BY <2>1
<1>2. IInv /\ UntilWrap /\ IInv' /\ UntilWrap' /\ Pasts /\ [Next]_vars
        => Pasts' /\ [\A t \in Threads :
                      queue_last_input'[t] \notin
                          {queue_last_input[t], global_tick} =>
                        global_tick' - queue_last_input'[t] > Period[t]]_vars
  <2> SUFFICES ASSUME IInv, UntilWrap, IInv', UntilWrap', Pasts, [Next]_vars
               PROVE  \A t \in Threads :
                        /\ queue_last_input'[t] <= global_tick'
                        /\ queue_last_input'[t] \notin
                                {queue_last_input[t], global_tick} =>
                             global_tick' - queue_last_input'[t] > Period[t]
    BY DEF Pasts
  <2> QED BY StepKeepsRoom DEF IInv
<1> QED BY <1>1, <1>2, ClockInvariance, PTL DEF Spec, CatchUpKeepsRoom
=============================================================================
