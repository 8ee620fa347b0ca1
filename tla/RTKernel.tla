------------------------------ MODULE RTKernel ------------------------------
(***************************************************************************)
(* The kernel of the rtthreads library: the thread table, the tick         *)
(* counter, thread_yield() and the timer interrupt that calls it.          *)
(*                                                                         *)
(* The processor is single and runs current_thread.  Code inside an        *)
(* ATOMIC_BLOCK runs with interrupts off, so the stretch of code between   *)
(* two points where an interrupt can be taken is one step.  do_switch()    *)
(* ends with reti, which turns interrupts back ON although its caller is   *)
(* inside an ATOMIC_BLOCK: a thread that is given the processor can be     *)
(* preempted again before it leaves thread_yield().  The calls a thread is *)
(* suspended in are therefore a stack, frames[t], innermost first:         *)
(*   "call"  thread_yield() called by code of the thread                   *)
(*   "isr"   thread_yield() called by the timer interrupt that stopped it  *)
(*                                                                         *)
(* This module has no Next: RTThreads and RTSemaphores put programs on it. *)
(***************************************************************************)
EXTENDS Integers, Sequences

CONSTANTS
  Threads,     (* the threads created before threads_subsystem_start()        *)
  Main,        (* thread_main_inf, the thread that runs loop()                *)
  ThreadList,  (* what is in thread_list then: last created first, Main last  *)
  InitPrio,    (* the priority each thread is created with                    *)
  Period,      (* min_period_ticks                                            *)
  MaxCost,     (* max_cost_ticks                                              *)
  TickMod,     (* 2^32: the tick counter is a uint32_t                        *)
  UninitTicks, (* what a word of the heap may hold before it is assigned      *)
  UninitStatus, (* and a status                                               *)
  LastTick,    (* bound: the clock stops there; TickMod lets it wrap for ever *)
  MaxNest      (* bound: how many calls deep a thread may be suspended        *)

All == Threads \union {Main}

SLEPT       == "SLEPT"
ACTIVE      == "ACTIVE"
BLOCKED     == "BLOCKED"
SEM_BLOCKED == "SEM_BLOCKED"
Status      == {SLEPT, ACTIVE, BLOCKED, SEM_BLOCKED}

NORM_PRIO    == 2
OVERRUN_PRIO == 3

Ticks  == 0 .. TickMod - 1
Frames == {"call", "isr"}

ASSUME ThreadsAssumption  == Main \notin Threads
ASSUME TickModAssumption  == /\ TickMod \in Nat \ {0}
                             /\ LastTick \in 0 .. TickMod
ASSUME NestAssumption     == MaxNest \in Nat \ {0}
ASSUME ParamsAssumption   == /\ InitPrio \in [Threads -> Nat]
                             /\ Period   \in [Threads -> Ticks]
                             /\ MaxCost  \in [Threads -> Ticks]
                             /\ UninitTicks \subseteq Ticks
                             /\ UninitStatus \subseteq Status
ASSUME ThreadListAssumption ==
  /\ ThreadList \in Seq(All)
  /\ \A t \in All : \E i \in 1 .. Len(ThreadList) : ThreadList[i] = t
  /\ \A i, j \in 1 .. Len(ThreadList) : ThreadList[i] = ThreadList[j] => i = j
  /\ ThreadList[Len(ThreadList)] = Main

VARIABLES
  thread_list,             (* from its head, along runq_next                  *)
  current_thread,
  status, priority,
  ticks_to_wait, carry_ticks_to_wait,        (* the sleep timer and its carry *)
  queue_last_input,
  current_cost_ticks,
  global_tick,             (* global_thread_tick_counter                      *)
  carry_tick_counter, tick_counter_previous, tick_counter_last_cost,
  frames                   (* the calls each thread is suspended in           *)

clockVars  == <<global_tick, carry_tick_counter, tick_counter_previous>>
timerVars  == <<ticks_to_wait, carry_ticks_to_wait>>
costVars   == <<current_cost_ticks, tick_counter_last_cost, priority>>
kernelVars == <<thread_list, current_thread, status, priority, ticks_to_wait,
                carry_ticks_to_wait, queue_last_input, current_cost_ticks,
                global_tick, carry_tick_counter, tick_counter_previous,
                tick_counter_last_cost, frames>>

KernelTypeOK ==
  /\ thread_list \in Seq(All)
  /\ current_thread \in All
  /\ status \in [All -> Status]
  /\ priority \in [All -> Nat]
  /\ ticks_to_wait \in [All -> Ticks]
  /\ carry_ticks_to_wait \in [All -> {0, 1}]
  /\ queue_last_input \in [Threads -> Ticks]
  /\ current_cost_ticks \in [Threads -> Ticks]
  /\ global_tick \in Ticks
  /\ carry_tick_counter \in {0, 1}
  /\ tick_counter_previous \in Ticks
  /\ tick_counter_last_cost \in Ticks
  /\ frames \in [All -> Seq(Frames)]

(***************************************************************************)
(* The state threads_subsystem_start() finds after the *_thread_create()   *)
(* calls.  A new thread is ACTIVE and its stack leads to its entry         *)
(* function: it has no frame.  Nothing ever assigns the status and the     *)
(* sleep timer of Main, nor the current_cost_ticks of a thread before it   *)
(* runs: they hold what malloc() found in the heap.                        *)
(***************************************************************************)
KernelInit ==
  /\ thread_list = ThreadList
  /\ current_thread = Main
  /\ \E s \in UninitStatus, w \in UninitTicks, c \in UninitTicks \cap {0, 1} :
       /\ status = [t \in All |-> IF t = Main THEN s ELSE ACTIVE]
       /\ ticks_to_wait = [t \in All |-> IF t = Main THEN w ELSE 0]
       /\ carry_ticks_to_wait = [t \in All |-> IF t = Main THEN c ELSE 0]
  /\ priority = [t \in All |-> IF t = Main THEN NORM_PRIO ELSE InitPrio[t]]
  /\ queue_last_input = [t \in Threads |-> 0]
  /\ current_cost_ticks \in [Threads -> UninitTicks]
  /\ global_tick = 0
  /\ carry_tick_counter = 0
  /\ tick_counter_previous = 0
  /\ tick_counter_last_cost = 0
  /\ frames = [t \in All |-> <<>>]

(***************************************************************************)
(* The loop of thread_yield() walks thread_list circularly from the thread *)
(* after the current one back to it, wakes who is due, and keeps as        *)
(* th_candidate a thread that beats or EQUALS the one kept so far: of the  *)
(* threads of the highest priority it keeps the last one walked.  It       *)
(* starts from Main, whose status it ignores, and never keeps the current  *)
(* thread.                                                                 *)
(***************************************************************************)
Linked == {thread_list[i] : i \in 1 .. Len(thread_list)}

ListPos(t) == CHOOSE i \in 1 .. Len(thread_list) : thread_list[i] = t

ScanPos(t) == (ListPos(t) - ListPos(current_thread) - 1) % Len(thread_list)

(* Mutant: the test of the status is gone.                                 *)
EligibleAnyStatus(st) ==
  {t \in Linked \ {current_thread} : priority[t] >= priority[Main]}

(* Mutant: the current thread is not passed over.                          *)
EligibleCurrent(st) ==
  {t \in Linked : st[t] = ACTIVE /\ priority[t] >= priority[Main]}

Eligible(st) ==
  {t \in Linked \ {current_thread} :
     st[t] = ACTIVE /\ priority[t] >= priority[Main]}

IsBest(t, E) ==
  \A u \in E : \/ priority[u] < priority[t]
               \/ priority[u] = priority[t] /\ ScanPos(u) <= ScanPos(t)

Candidate(st) ==
  LET E == Eligible(st)
  IN  IF \E t \in E : IsBest(t, E)
      THEN CHOOSE t \in E : IsBest(t, E)
      ELSE Main

(***************************************************************************)
(* thread_yield(), called with the table st, wk, wc, li its caller has     *)
(* just written, up to the switch of stacks: wake, choose, charge the      *)
(* ticks that passed to the thread that gives up the processor, demote it  *)
(* if it used up its budget (after the choice was made), switch.  The      *)
(* counter it reads is the one the caller leaves: global_tick'.            *)
(***************************************************************************)
CarryLeft(st, wc, t) ==
  IF t \in Linked /\ st[t] = SLEPT /\ carry_tick_counter' = 1 THEN 0 ELSE wc[t]

(* Mutant: compares with the counter as it was before the tick.            *)
AwakenLate(st, wk, wc, t) ==
  IF t \in Linked /\ st[t] = SLEPT /\ CarryLeft(st, wc, t) = 0
       /\ wk[t] < global_tick
  THEN ACTIVE ELSE st[t]

(* Mutant: `<=' for `<', a tick too early.                                 *)
AwakenEarly(st, wk, wc, t) ==
  IF t \in Linked /\ st[t] = SLEPT /\ CarryLeft(st, wc, t) = 0
       /\ wk[t] <= global_tick'
  THEN ACTIVE ELSE st[t]

Awaken(st, wk, wc, t) ==
  IF t \in Linked /\ st[t] = SLEPT /\ CarryLeft(st, wc, t) = 0
       /\ wk[t] < global_tick'
  THEN ACTIVE ELSE st[t]

(* Mutant: the sum is not a uint32_t.                                      *)
CatchUpWide(st, li, t) ==
  IF t \in Linked /\ st[t] = BLOCKED
       /\ (li[t] + 2 * Period[t]) % TickMod < global_tick'
  THEN li[t] + Period[t] ELSE li[t]

(* Mutant: one interarrival time for two.                                  *)
CatchUpSoon(st, li, t) ==
  IF t \in Linked /\ st[t] = BLOCKED
       /\ (li[t] + Period[t]) % TickMod < global_tick'
  THEN (li[t] + Period[t]) % TickMod ELSE li[t]

CatchUp(st, li, t) ==
  IF t \in Linked /\ st[t] = BLOCKED
       /\ (li[t] + 2 * Period[t]) % TickMod < global_tick'
  THEN (li[t] + Period[t]) % TickMod ELSE li[t]

(* Mutant: the time is charged, and charged again to whoever comes next.   *)
ChargeAgain ==
  /\ current_cost_ticks' =
       [t \in Threads |->
          IF t = current_thread
          THEN (current_cost_ticks[t] + (global_tick' - tick_counter_last_cost))
                 % TickMod
          ELSE current_cost_ticks[t]]
  /\ UNCHANGED tick_counter_last_cost

ChargeCurrent ==
  /\ current_cost_ticks' =
       [t \in Threads |->
          IF t = current_thread
          THEN (current_cost_ticks[t] + (global_tick' - tick_counter_last_cost))
                 % TickMod
          ELSE current_cost_ticks[t]]
  /\ tick_counter_last_cost' = global_tick'

DemoteOverrun ==
  priority' =
    [t \in All |->
       IF t = current_thread /\ t \in Threads
            /\ MaxCost[t] < current_cost_ticks'[t]
       THEN OVERRUN_PRIO ELSE priority[t]]

ThreadYield(st, wk, wc, li) ==
  /\ status' = [t \in All |-> Awaken(st, wk, wc, t)]
  /\ ticks_to_wait' = wk
  /\ carry_ticks_to_wait' = [t \in All |-> CarryLeft(st, wc, t)]
  /\ queue_last_input' = [t \in Threads |-> CatchUp(st, li, t)]
  /\ ChargeCurrent
  /\ DemoteOverrun
  /\ current_thread' = Candidate(status')
  /\ UNCHANGED thread_list

(* The current thread is left on its stack inside one more call.           *)
Suspend(frame) ==
  frames' = [frames EXCEPT ![current_thread] = <<frame>> \o @]

(***************************************************************************)
(* TIMER2_OVF.  yield_max is 1: every tick yields.  The interrupt stores   *)
(* tick_counter_previous only when thread_yield() returns, that is when    *)
(* the thread it stopped is given the processor again.                     *)
(***************************************************************************)
TimerInterrupt ==
  /\ global_tick # LastTick
  /\ Len(frames[current_thread]) < MaxNest
  /\ global_tick' = (global_tick + 1) % TickMod
  /\ carry_tick_counter' = IF tick_counter_previous > global_tick' THEN 1 ELSE 0
  /\ ThreadYield(status, ticks_to_wait, carry_ticks_to_wait, queue_last_input)
  /\ Suspend("isr")
  /\ UNCHANGED tick_counter_previous

TimerInterruptReturn ==
  /\ frames[current_thread] # <<>>
  /\ Head(frames[current_thread]) = "isr"
  /\ frames' = [frames EXCEPT ![current_thread] = Tail(@)]
  /\ tick_counter_previous' = global_tick
  /\ UNCHANGED <<thread_list, current_thread, status, timerVars,
                 queue_last_input, costVars, global_tick, carry_tick_counter>>

(* thread_yield() returns to the code of the thread that called it.        *)
YieldReturn ==
  /\ frames[current_thread] # <<>>
  /\ Head(frames[current_thread]) = "call"
  /\ frames' = [frames EXCEPT ![current_thread] = Tail(@)]
  /\ UNCHANGED <<thread_list, current_thread, status, timerVars,
                 queue_last_input, costVars, clockVars>>

(* The current thread executes its own code, outside thread_yield().       *)
Runs(t) == current_thread = t /\ frames[t] = <<>>

(* The body of threads_subsystem_start(): Main yields for ever.            *)
MainYield ==
  /\ Runs(Main)
  /\ UNCHANGED clockVars
  /\ ThreadYield(status, ticks_to_wait, carry_ticks_to_wait, queue_last_input)
  /\ Suspend("call")

(* Mutant: the sum is not a uint32_t.                                      *)
TickSleepWide(ticks) ==
  LET wk == [ticks_to_wait EXCEPT ![current_thread] = ticks + global_tick]
  IN  /\ UNCHANGED clockVars
      /\ ThreadYield([status EXCEPT ![current_thread] = SLEPT], wk,
                     [carry_ticks_to_wait EXCEPT ![current_thread] = 0],
                     queue_last_input)
      /\ Suspend("call")

(* tick_sleep(ticks): uint32_t arithmetic, interrupts off up to the switch *)
TickSleep(ticks) ==
  LET wk == [ticks_to_wait EXCEPT
               ![current_thread] = (ticks + global_tick) % TickMod]
      wc == [carry_ticks_to_wait EXCEPT
               ![current_thread] = IF global_tick > wk[current_thread]
                                   THEN 1 ELSE 0]
  IN  /\ UNCHANGED clockVars
      /\ ThreadYield([status EXCEPT ![current_thread] = SLEPT], wk, wc,
                     queue_last_input)
      /\ Suspend("call")

(* thread_block(), up to the switch.  A thread that is not ACTIVE would    *)
(* return from it at once: no thread calls it in such a state.             *)
ThreadBlock ==
  /\ status[current_thread] = ACTIVE
  /\ UNCHANGED clockVars
  /\ ThreadYield([status EXCEPT ![current_thread] = BLOCKED], ticks_to_wait,
                 carry_ticks_to_wait, queue_last_input)

(* thread_unblock(th), with queue_last_input as its caller left it.        *)
ThreadUnblock(th, li) ==
  /\ UNCHANGED clockVars
  /\ \/ /\ status[th] = BLOCKED
        /\ ThreadYield([status EXCEPT ![th] = ACTIVE], ticks_to_wait,
                       carry_ticks_to_wait, li)
        /\ Suspend("call")
     \/ /\ status[th] # BLOCKED
        /\ queue_last_input' = li
        /\ UNCHANGED <<thread_list, current_thread, status, timerVars,
                       costVars, frames>>

(***************************************************************************)
(* thread_remove(th).  The search goes from the head to Main.  An element  *)
(* that is found is unlinked, the head by moving thread_list on and any    *)
(* other by linking the one before it to the one behind it; its memory is  *)
(* freed.  A thread that is not found leaves the list as it is.            *)
(***************************************************************************)
Behind(i) == SubSeq(thread_list, i + 1, Len(thread_list))

(* Mutant: th_previous is moved on before the test, to th itself.          *)
ThreadRemoveLate(th) ==
  thread_list' =
    IF th \in Linked \ {Main}
    THEN LET i == ListPos(th)
         IN  IF i = 1 THEN Behind(1)
             ELSE SubSeq(thread_list, 1, i) \o Behind(i)
    ELSE thread_list

ThreadRemove(th) ==
  thread_list' =
    IF th \in Linked \ {Main}
    THEN LET i == ListPos(th)
         IN  IF i = 1 THEN Behind(1)
             ELSE SubSeq(thread_list, 1, i - 1) \o Behind(i)
    ELSE thread_list

-----------------------------------------------------------------------------
(* Properties                                                              *)

(* Nobody but Main, which thread_yield() falls back to, is given the       *)
(* processor while it sleeps or is blocked.                                *)
RunningIsReady == current_thread # Main => status[current_thread] = ACTIVE

(* No sleeper in the list is overlooked: one that does not wait for the    *)
(* counter to wrap and whose time is past is awake again, whichever call   *)
(* was the last to walk the list.                                          *)
NoSleeperOverdue ==
  \A t \in Linked :
    status[t] = SLEPT /\ carry_ticks_to_wait[t] = 0
      => ticks_to_wait[t] >= global_tick
=============================================================================
