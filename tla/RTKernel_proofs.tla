-------------------------- MODULE RTKernel_proofs ---------------------------
(***************************************************************************)
(* What each operation of the kernel does to its types, to the thread that *)
(* runs and to those that sleep, for every set of threads and every value  *)
(* of their parameters.  The proofs about the modules on top of the kernel *)
(* rest on these lemmas.                                                   *)
(***************************************************************************)
EXTENDS RTKernel, TLAPS

(* Arithmetic on uint32_t stays in uint32_t.                               *)
LEMMA ModIsTick ==
  ASSUME NEW x \in Int
  PROVE  x % TickMod \in Ticks
BY TickModAssumption DEF Ticks

LEMMA TicksAreInts == \A x \in Ticks : x \in Int
BY TickModAssumption DEF Ticks

LEMMA ModSmaller ==
  ASSUME NEW x \in Nat
  PROVE  /\ x % TickMod \in Nat /\ x % TickMod <= x
         /\ x < TickMod => x % TickMod = x
<1> DEFINE M == TickMod
<1>1. M \in Nat \ {0}
  BY TickModAssumption
<1> HIDE DEF M
<1>2. x % M \in Nat /\ x % M <= x /\ (x < M => x % M = x)
  <2>1. /\ x = M * (x \div M) + (x % M) /\ x % M \in 0 .. M - 1
        /\ x \div M \in Nat
    BY <1>1
  <2>2. M * (x \div M) >= 0
    BY <1>1, <2>1
  <2>3. x < M => x % M = x
    BY <1>1
  <2> QED BY <1>1, <2>1, <2>2, <2>3
<1> QED BY <1>2 DEF M

(* The timer set at the end of a job covers the period, or waits for the   *)
(* counter to wrap.                                                        *)
LEMMA SleepCoversPeriod ==
  ASSUME NEW M \in Nat \ {0}, NEW g \in 0 .. M - 1, NEW c \in 0 .. M - 1,
         NEW a \in 0 .. M - 1, NEW p \in 0 .. M - 1, c <= a, a <= g,
         NEW n, n = (c + p - a) % M, NEW w, w = (n + g) % M
  PROVE  n \in 0 .. M - 1 /\ w \in 0 .. M - 1 /\ (w >= g => w >= c + p)
<1>1. c + p - a \in Int /\ c + p - a < M /\ c + p - a >= -M
  OBVIOUS
<1>2. n \in 0 .. M - 1
  BY <1>1
<1>3. n + g \in Nat /\ n + g < 2 * M
  BY <1>2
<1>4. w = IF n + g < M THEN n + g ELSE n + g - M
  <2>1. CASE n + g < M
    BY <1>3, <2>1
  <2>2. CASE n + g >= M
    <3> DEFINE k == n + g - M
    <3>1. k \in 0 .. M - 1 /\ n + g = M + k
      BY <1>3, <2>2
    <3> HIDE DEF k
    <3>2. (M + k) % M = k
      BY <3>1
    <3> QED BY <1>3, <2>2, <3>1, <3>2
  <2> QED BY <1>3, <2>1, <2>2
<1>5. CASE c + p - a >= 0
  <2>1. n = c + p - a
    BY <1>1, <1>5
  <2> QED BY <1>2, <1>4, <2>1
<1>6. CASE c + p - a < 0
  <2> DEFINE k == c + p - a + M
  <2>1. k \in 0 .. M - 1 /\ c + p - a = k - M
    BY <1>1, <1>6
  <2>2. (k - M) % M = k
    <3> HIDE DEF k
    <3> QED BY <2>1
  <2>3. n = c + p - a + M
    BY <2>1, <2>2
  <2> QED BY <1>2, <1>4, <2>3
<1> QED BY <1>1, <1>5, <1>6

(* thread_yield() hands the processor to Main or to a ready thread.        *)
LEMMA CandidateIsReady ==
  ASSUME NEW ACTION st
  PROVE  Candidate(st) = Main \/ Candidate(st) \in Eligible(st)
<1> DEFINE E == Eligible(st)
<1>1. CASE \E t \in E : IsBest(t, E)
  <2>1. Candidate(st) = CHOOSE t \in E : IsBest(t, E)
    BY <1>1 DEF Candidate
  <2> QED BY <1>1, <2>1
<1>2. CASE ~ \E t \in E : IsBest(t, E)
  BY <1>2 DEF Candidate
<1> QED BY <1>1, <1>2

(* Who can be found by a walk of thread_list is a thread of the table.     *)
LEMMA LinkedAreThreads ==
  ASSUME thread_list \in Seq(All)
  PROVE  Linked \subseteq All
BY DEF Linked

(* What thread_yield() leaves behind, from a well-typed table.             *)
LEMMA YieldType ==
  ASSUME KernelTypeOK,
         global_tick' \in Ticks,
         NEW STATE st, st \in [All -> Status],
         NEW STATE wk, wk \in [All -> Ticks],
         NEW STATE wc, wc \in [All -> {0, 1}],
         NEW STATE li, li \in [Threads -> Ticks],
         ThreadYield(st, wk, wc, li)
  PROVE  /\ thread_list' = thread_list
         /\ current_thread' \in All
         /\ current_thread' # Main => status'[current_thread'] = ACTIVE
         /\ status' \in [All -> Status]
         /\ priority' \in [All -> Nat]
         /\ ticks_to_wait' \in [All -> Ticks]
         /\ carry_ticks_to_wait' \in [All -> {0, 1}]
         /\ queue_last_input' \in [Threads -> Ticks]
         /\ current_cost_ticks' \in [Threads -> Ticks]
         /\ tick_counter_last_cost' \in Ticks
<1> USE DEF KernelTypeOK
<1>1. current_thread' = Main \/ current_thread' \in Eligible(status')
  BY CandidateIsReady DEF ThreadYield
<1>2. /\ current_thread' \in All
      /\ current_thread' # Main => status'[current_thread'] = ACTIVE
  BY <1>1, LinkedAreThreads DEF Eligible, All
<1>3. status' \in [All -> Status]
  <2>1. ASSUME NEW t \in All PROVE Awaken(st, wk, wc, t) \in Status
    BY DEF Awaken, Status
  <2> QED BY <2>1 DEF ThreadYield
<1>4. priority' \in [All -> Nat]
  BY DEF ThreadYield, DemoteOverrun, OVERRUN_PRIO
<1>5. ticks_to_wait' \in [All -> Ticks]
  BY DEF ThreadYield
<1>6. carry_ticks_to_wait' \in [All -> {0, 1}]
  BY DEF ThreadYield, CarryLeft
<1>7. queue_last_input' \in [Threads -> Ticks]
  <2>1. ASSUME NEW t \in Threads PROVE CatchUp(st, li, t) \in Ticks
    <3>0. li[t] \in Ticks /\ Period[t] \in Ticks
      BY ParamsAssumption
    <3>1. li[t] + Period[t] \in Int
      BY <3>0, TicksAreInts
    <3>2. (li[t] + Period[t]) % TickMod \in Ticks
      BY <3>1, ModIsTick
    <3> QED BY <3>2 DEF CatchUp
  <2> QED BY <2>1 DEF ThreadYield
<1>8. current_cost_ticks' \in [Threads -> Ticks]
  <2>1. ASSUME NEW t \in Threads
        PROVE  (current_cost_ticks[t] + (global_tick' - tick_counter_last_cost))
                 % TickMod \in Ticks
    <3>0. /\ current_cost_ticks[t] \in Ticks /\ global_tick' \in Ticks
          /\ tick_counter_last_cost \in Ticks
      OBVIOUS
    <3>1. current_cost_ticks[t] + (global_tick' - tick_counter_last_cost)
            \in Int
      BY <3>0, TicksAreInts
    <3> QED BY <3>1, ModIsTick
  <2> QED BY <2>1 DEF ThreadYield, ChargeCurrent
<1>9. tick_counter_last_cost' \in Ticks
  BY DEF ThreadYield, ChargeCurrent
<1>10. thread_list' = thread_list
  BY DEF ThreadYield
<1> QED BY <1>2, <1>3, <1>4, <1>5, <1>6, <1>7, <1>8, <1>9, <1>10

-----------------------------------------------------------------------------
(* Each kernel operation keeps the kernel well typed and leaves the        *)
(* processor to a thread that may have it.                                 *)

FramesOK == frames \in [All -> Seq(Frames)]

LEMMA SuspendType ==
  ASSUME KernelTypeOK, NEW f \in Frames, Suspend(f)
  PROVE  FramesOK'
BY DEF KernelTypeOK, Suspend, FramesOK

LEMMA TimerType ==
  ASSUME KernelTypeOK, TimerInterrupt
  PROVE  KernelTypeOK' /\ RunningIsReady'
<1>1. global_tick' \in Ticks
  <2>1. global_tick + 1 \in Int
    BY TicksAreInts DEF KernelTypeOK
  <2> QED BY <2>1, ModIsTick DEF TimerInterrupt
<1>2. FramesOK'
  BY SuspendType DEF TimerInterrupt, Frames
<1>3. /\ ThreadYield(status, ticks_to_wait, carry_ticks_to_wait,
                     queue_last_input)
      /\ status \in [All -> Status]
      /\ ticks_to_wait \in [All -> Ticks]
      /\ carry_ticks_to_wait \in [All -> {0, 1}]
      /\ queue_last_input \in [Threads -> Ticks]
  BY DEF TimerInterrupt, KernelTypeOK
<1>4. carry_tick_counter' \in {0, 1} /\ tick_counter_previous' \in Ticks
  BY DEF TimerInterrupt, KernelTypeOK
<1> QED BY <1>1, <1>2, <1>3, <1>4, YieldType
        DEF KernelTypeOK, FramesOK, RunningIsReady

LEMMA ReturnType ==
  ASSUME KernelTypeOK, RunningIsReady, YieldReturn \/ TimerInterruptReturn
  PROVE  KernelTypeOK' /\ RunningIsReady'
<1>1. FramesOK'
  <2>1. frames[current_thread] \in Seq(Frames) /\ frames[current_thread] # <<>>
    BY DEF KernelTypeOK, YieldReturn, TimerInterruptReturn
  <2>2. Tail(frames[current_thread]) \in Seq(Frames)
    BY <2>1
  <2>3. frames' = [frames EXCEPT ![current_thread] =
                     Tail(frames[current_thread])]
    BY DEF YieldReturn, TimerInterruptReturn
  <2> QED BY <2>2, <2>3 DEF KernelTypeOK, FramesOK
<1>2. UNCHANGED <<thread_list, current_thread, status, timerVars,
                  queue_last_input, costVars, global_tick, carry_tick_counter>>
  BY DEF YieldReturn, TimerInterruptReturn, clockVars
<1>3. tick_counter_previous' \in Ticks
  BY DEF YieldReturn, TimerInterruptReturn, clockVars, KernelTypeOK
<1> QED BY <1>1, <1>2, <1>3
        DEF KernelTypeOK, FramesOK, RunningIsReady, timerVars, costVars

(* A yield by code of the current thread: the clock does not move.         *)
LEMMA CallType ==
  ASSUME KernelTypeOK,
         UNCHANGED clockVars,
         FramesOK',
         NEW STATE st, st \in [All -> Status],
         NEW STATE wk, wk \in [All -> Ticks],
         NEW STATE wc, wc \in [All -> {0, 1}],
         NEW STATE li, li \in [Threads -> Ticks],
         ThreadYield(st, wk, wc, li)
  PROVE  KernelTypeOK' /\ RunningIsReady'
<1>1. /\ global_tick' \in Ticks
      /\ carry_tick_counter' \in {0, 1}
      /\ tick_counter_previous' \in Ticks
  BY DEF KernelTypeOK, clockVars
<1> QED BY <1>1, YieldType DEF KernelTypeOK, FramesOK, RunningIsReady

LEMMA MainYieldType ==
  ASSUME KernelTypeOK, MainYield
  PROVE  KernelTypeOK' /\ RunningIsReady'
<1>1. FramesOK'
  BY SuspendType DEF MainYield, Frames
<1>2. /\ UNCHANGED clockVars
      /\ ThreadYield(status, ticks_to_wait, carry_ticks_to_wait,
                     queue_last_input)
      /\ status \in [All -> Status]
      /\ ticks_to_wait \in [All -> Ticks]
      /\ carry_ticks_to_wait \in [All -> {0, 1}]
      /\ queue_last_input \in [Threads -> Ticks]
  BY DEF MainYield, KernelTypeOK
<1> QED BY <1>1, <1>2, CallType

LEMMA TickSleepType ==
  ASSUME KernelTypeOK, NEW STATE n, n \in Int, TickSleep(n)
  PROVE  KernelTypeOK' /\ RunningIsReady'
<1> DEFINE st == [status EXCEPT ![current_thread] = SLEPT]
           wk == [ticks_to_wait EXCEPT
                    ![current_thread] = (n + global_tick) % TickMod]
           wc == [carry_ticks_to_wait EXCEPT
                    ![current_thread] = IF global_tick > wk[current_thread]
                                        THEN 1 ELSE 0]
<1>1. FramesOK'
  BY SuspendType DEF TickSleep, Frames
<1>2. st \in [All -> Status]
  BY DEF KernelTypeOK, Status
<1>3. wk \in [All -> Ticks]
  <2>1. n + global_tick \in Int
    BY TicksAreInts DEF KernelTypeOK
  <2>2. (n + global_tick) % TickMod \in Ticks
    BY <2>1, ModIsTick
  <2> QED BY <2>2 DEF KernelTypeOK
<1>4. wc \in [All -> {0, 1}]
  BY DEF KernelTypeOK
<1>5. UNCHANGED clockVars /\ ThreadYield(st, wk, wc, queue_last_input)
  BY DEF TickSleep
<1>6. queue_last_input \in [Threads -> Ticks]
  BY DEF KernelTypeOK
<1> HIDE DEF st, wk, wc
<1> QED BY <1>1, <1>2, <1>3, <1>4, <1>5, <1>6, CallType

LEMMA BlockType ==
  ASSUME KernelTypeOK, ThreadBlock, FramesOK'
  PROVE  KernelTypeOK' /\ RunningIsReady'
<1> DEFINE st == [status EXCEPT ![current_thread] = BLOCKED]
<1>1. st \in [All -> Status]
  BY DEF KernelTypeOK, Status
<1>2. /\ UNCHANGED clockVars
      /\ ThreadYield(st, ticks_to_wait, carry_ticks_to_wait, queue_last_input)
  BY DEF ThreadBlock
<1>3. /\ ticks_to_wait \in [All -> Ticks]
      /\ carry_ticks_to_wait \in [All -> {0, 1}]
      /\ queue_last_input \in [Threads -> Ticks]
  BY DEF KernelTypeOK
<1> HIDE DEF st
<1> QED BY <1>1, <1>2, <1>3, CallType

LEMMA UnblockType ==
  ASSUME KernelTypeOK, RunningIsReady,
         NEW STATE th, th \in Threads, NEW STATE li, li \in [Threads -> Ticks],
         ThreadUnblock(th, li)
  PROVE  KernelTypeOK' /\ RunningIsReady'
<1> DEFINE st == [status EXCEPT ![th] = ACTIVE]
<1>1. CASE status[th] = BLOCKED
  <2>1. st \in [All -> Status]
    BY DEF KernelTypeOK, Status
  <2>2. /\ UNCHANGED clockVars
        /\ ThreadYield(st, ticks_to_wait, carry_ticks_to_wait, li)
        /\ Suspend("call")
    BY <1>1 DEF ThreadUnblock
  <2>3. FramesOK'
    BY <2>2, SuspendType DEF Frames
  <2>4. /\ ticks_to_wait \in [All -> Ticks]
        /\ carry_ticks_to_wait \in [All -> {0, 1}]
    BY DEF KernelTypeOK
  <2> HIDE DEF st
  <2> QED BY <2>1, <2>2, <2>3, <2>4, CallType
<1>2. CASE status[th] # BLOCKED
  BY <1>2 DEF ThreadUnblock, KernelTypeOK, RunningIsReady, clockVars,
              timerVars, costVars
<1> QED BY <1>1, <1>2

-----------------------------------------------------------------------------
(* The state threads_subsystem_start() finds is well typed.                *)
LEMMA KernelInitType ==
  KernelInit => KernelTypeOK /\ RunningIsReady /\ NoSleeperOverdue
<1> SUFFICES ASSUME KernelInit
             PROVE  KernelTypeOK /\ RunningIsReady /\ NoSleeperOverdue
  OBVIOUS
<1>1. /\ 0 \in Ticks
      /\ InitPrio \in [Threads -> Nat]
      /\ UninitTicks \subseteq Ticks
      /\ UninitStatus \subseteq Status
  BY TickModAssumption, ParamsAssumption DEF Ticks
<1>2. KernelTypeOK
  <2>1. /\ thread_list \in Seq(All)
        /\ current_thread \in All
        /\ priority \in [All -> Nat]
        /\ queue_last_input \in [Threads -> Ticks]
        /\ current_cost_ticks \in [Threads -> Ticks]
        /\ global_tick \in Ticks
        /\ carry_tick_counter \in {0, 1}
        /\ tick_counter_previous \in Ticks
        /\ tick_counter_last_cost \in Ticks
    BY <1>1, ThreadListAssumption DEF KernelInit, All, NORM_PRIO
  <2>2. /\ status \in [All -> Status]
        /\ ticks_to_wait \in [All -> Ticks]
        /\ carry_ticks_to_wait \in [All -> {0, 1}]
    BY <1>1 DEF KernelInit, All, Status
  <2>3. frames \in [All -> Seq(Frames)]
    BY DEF KernelInit
  <2> QED BY <2>1, <2>2, <2>3 DEF KernelTypeOK
<1>3. RunningIsReady
  BY DEF KernelInit, RunningIsReady
<1>4. NoSleeperOverdue
  BY <1>2, LinkedAreThreads
     DEF KernelInit, NoSleeperOverdue, KernelTypeOK, Ticks
<1> QED BY <1>2, <1>3, <1>4

-----------------------------------------------------------------------------
(* Sleeping and waking.  No call leaves a sleeper overdue, and each can    *)
(* leave BLOCKED only threads that were, or that it blocks itself.         *)

BlocksOnly(S) ==
  \A t \in All : status'[t] = BLOCKED => status[t] = BLOCKED \/ t \in S

LEMMA YieldWakes ==
  ASSUME KernelTypeOK,
         global_tick' \in Ticks,
         NEW STATE st, st \in [All -> Status],
         NEW STATE wk, wk \in [All -> Ticks],
         NEW STATE wc, wc \in [All -> {0, 1}],
         NEW STATE li,
         ThreadYield(st, wk, wc, li)
  PROVE  /\ NoSleeperOverdue'
         /\ \A t \in All : status'[t] = BLOCKED => st[t] = BLOCKED
<1>0. Linked' = Linked /\ Linked \subseteq All
  BY LinkedAreThreads DEF ThreadYield, Linked, KernelTypeOK
<1>1. ASSUME NEW t \in All
      PROVE  /\ /\ t \in Linked /\ status'[t] = SLEPT
                /\ carry_ticks_to_wait'[t] = 0
                => ticks_to_wait'[t] >= global_tick'
             /\ status'[t] = BLOCKED => st[t] = BLOCKED
  <2>1. /\ status'[t] = Awaken(st, wk, wc, t)
        /\ carry_ticks_to_wait'[t] = CarryLeft(st, wc, t)
        /\ ticks_to_wait'[t] = wk[t]
    BY DEF ThreadYield
  <2>2. wk[t] \in Int /\ global_tick' \in Int
    BY DEF Ticks
  <2>3. t \in Linked /\ status'[t] = SLEPT /\ carry_ticks_to_wait'[t] = 0
           => ~ (wk[t] < global_tick')
    BY <2>1 DEF Awaken, SLEPT, ACTIVE
  <2>4. status'[t] = BLOCKED => st[t] = BLOCKED
    BY <2>1 DEF Awaken, BLOCKED, ACTIVE
  <2> QED BY <2>1, <2>2, <2>3, <2>4
<1> QED BY <1>0, <1>1 DEF NoSleeperOverdue

LEMMA TimerWakes ==
  ASSUME KernelTypeOK, TimerInterrupt \/ MainYield
  PROVE  NoSleeperOverdue' /\ BlocksOnly({})
<1>1. global_tick' \in Ticks
  <2>1. CASE TimerInterrupt
    BY <2>1, TimerType DEF KernelTypeOK
  <2>2. CASE MainYield
    BY <2>2, MainYieldType DEF KernelTypeOK
  <2> QED BY <2>1, <2>2
<1>2. /\ ThreadYield(status, ticks_to_wait, carry_ticks_to_wait,
                     queue_last_input)
      /\ status \in [All -> Status]
      /\ ticks_to_wait \in [All -> Ticks]
      /\ carry_ticks_to_wait \in [All -> {0, 1}]
  BY DEF TimerInterrupt, MainYield, KernelTypeOK
<1> QED BY <1>1, <1>2, YieldWakes DEF BlocksOnly

LEMMA TickSleepWakes ==
  ASSUME KernelTypeOK, NEW STATE n, n \in Int, TickSleep(n)
  PROVE  NoSleeperOverdue' /\ BlocksOnly({})
<1> DEFINE st == [status EXCEPT ![current_thread] = SLEPT]
           wk == [ticks_to_wait EXCEPT
                    ![current_thread] = (n + global_tick) % TickMod]
           wc == [carry_ticks_to_wait EXCEPT
                    ![current_thread] = IF global_tick > wk[current_thread]
                                        THEN 1 ELSE 0]
<1>1. global_tick' \in Ticks
  BY TickSleepType DEF KernelTypeOK
<1>2. /\ st \in [All -> Status]
      /\ \A t \in All : st[t] = BLOCKED => status[t] = BLOCKED
  BY DEF KernelTypeOK, Status, SLEPT, BLOCKED
<1>3. wk \in [All -> Ticks]
  <2>1. n + global_tick \in Int
    BY TicksAreInts DEF KernelTypeOK
  <2>2. (n + global_tick) % TickMod \in Ticks
    BY <2>1, ModIsTick
  <2> QED BY <2>2 DEF KernelTypeOK
<1>4. wc \in [All -> {0, 1}]
  BY DEF KernelTypeOK
<1>5. ThreadYield(st, wk, wc, queue_last_input)
  BY DEF TickSleep
<1> HIDE DEF st, wk, wc
<1> QED BY <1>1, <1>2, <1>3, <1>4, <1>5, YieldWakes DEF BlocksOnly

LEMMA BlockWakes ==
  ASSUME KernelTypeOK, ThreadBlock
  PROVE  NoSleeperOverdue' /\ BlocksOnly({current_thread})
<1> DEFINE st == [status EXCEPT ![current_thread] = BLOCKED]
<1>1. /\ st \in [All -> Status]
      /\ \A t \in All \ {current_thread} : st[t] = status[t]
  BY DEF KernelTypeOK, Status
<1>2. /\ UNCHANGED clockVars
      /\ ThreadYield(st, ticks_to_wait, carry_ticks_to_wait, queue_last_input)
  BY DEF ThreadBlock
<1>3. /\ ticks_to_wait \in [All -> Ticks]
      /\ carry_ticks_to_wait \in [All -> {0, 1}]
      /\ global_tick' \in Ticks
  BY <1>2 DEF KernelTypeOK, clockVars
<1> HIDE DEF st
<1> QED BY <1>1, <1>2, <1>3, YieldWakes DEF BlocksOnly

LEMMA UnblockWakes ==
  ASSUME KernelTypeOK, NoSleeperOverdue,
         NEW STATE th, th \in Threads, NEW STATE li, ThreadUnblock(th, li)
  PROVE  NoSleeperOverdue' /\ BlocksOnly({}) /\ status'[th] # BLOCKED
<1> DEFINE st == [status EXCEPT ![th] = ACTIVE]
<1>0. th \in All
  BY DEF All
<1>1. CASE status[th] = BLOCKED
  <2>1. /\ st \in [All -> Status]
        /\ st[th] # BLOCKED
        /\ \A t \in All : st[t] = BLOCKED => status[t] = BLOCKED
    BY <1>0 DEF KernelTypeOK, Status, ACTIVE, BLOCKED
  <2>2. /\ UNCHANGED clockVars
        /\ ThreadYield(st, ticks_to_wait, carry_ticks_to_wait, li)
    BY <1>1 DEF ThreadUnblock
  <2>3. /\ ticks_to_wait \in [All -> Ticks]
        /\ carry_ticks_to_wait \in [All -> {0, 1}]
        /\ global_tick' \in Ticks
    BY <2>2 DEF KernelTypeOK, clockVars
  <2> HIDE DEF st
  <2> QED BY <1>0, <2>1, <2>2, <2>3, YieldWakes DEF BlocksOnly
<1>2. CASE status[th] # BLOCKED
  <2>1. UNCHANGED <<thread_list, status, ticks_to_wait, carry_ticks_to_wait,
                    global_tick>>
    BY <1>2 DEF ThreadUnblock, timerVars, clockVars
  <2> QED BY <1>2, <2>1 DEF NoSleeperOverdue, BlocksOnly, Linked
<1> QED BY <1>1, <1>2
=============================================================================
