---------------------------- MODULE EarlySwitch -----------------------------
(***************************************************************************)
(* The library before it was one: the sketch context_switch ("first") and  *)
(* the two that followed it, context_switch_1_0 and context_switch_2_0     *)
(* ("second"; they differ in two empty lines).  Each is a whole program:   *)
(* a kernel, periodic_pattern() and the threads loop() creates.            *)
(*                                                                         *)
(* The walk of the thread list is that of RTKernel, and is taken from it.  *)
(* What is not is the protection: a call is between cli() and sei(), which *)
(* do not nest, and do_switch() ends with ret, not reti.  A context is     *)
(* saved with interrupts off and comes back with interrupts off; it is the *)
(* sei() at the end of thread_yield() that turns them on, also when the    *)
(* caller is the timer interrupt, which has tick_counter_previous yet to   *)
(* store.  A new thread has no sei() to run through: its first frame holds *)
(* 33 zeros, the status register among them, and it starts with interrupts *)
(* off.                                                                    *)
(*                                                                         *)
(* The frames are those of RTKernel, and one more:                         *)
(*   "store"  the timer interrupt after thread_yield() has returned        *)
(***************************************************************************)
EXTENDS RTKernel

CONSTANTS
  Version,     (* "first" or "second"                                         *)
  Kind,        (* "periodic", or "sporadic": block_pattern                    *)
  Offset,      (* offset_ticks                                                *)
  Deadline,    (* max_deadline_ticks                                          *)
  Handler,     (* error_handler: "none" (NULL) or "spins"                     *)
  Body         (* the calls of the executor: <<"unblock", th>>, <<"cost">>    *)

EventDriven == {t \in Threads : Kind[t] # "periodic"}

(* What the three sketches pass.  In the first version thread_block() and  *)
(* thread_unblock() are there, and no thread calls them.                   *)
EarlyParams ==
  /\ Version \in {"first", "second"}
  /\ Kind    \in [Threads -> {"periodic", "sporadic"}]
  /\ Offset  \in [Threads -> Ticks]
  /\ Body    \in [Threads -> Seq(({"unblock"} \X Threads) \union {<<"cost">>})]
  /\ Version = "first" =>
       \A t \in Threads : Kind[t] = "periodic" /\ Body[t] = <<>>

VARIABLES
  interrupts,          (* the I flag of the processor                         *)
  pc,
  thread_counter_us,   (* local: the tick this job is due at                  *)
  ticks_aux,           (* local: the tick its executor ended at               *)
  at, jobs,            (* as in RTSketch                                      *)
  signals              (* how often thread_unblock() found each one blocked   *)

patternVars == <<pc, thread_counter_us, ticks_aux, at, jobs, signals>>
earlyVars == <<kernelVars, interrupts, patternVars>>

(* Threads are created, and enable_timer2() ends, with interrupts on.      *)
EarlyInit ==
  /\ KernelInit
  /\ interrupts = TRUE
  /\ pc = [t \in Threads |-> "entry"]
  /\ thread_counter_us = [t \in Threads |-> 0]
  /\ ticks_aux = [t \in Threads |-> 0]
  /\ at = [t \in Threads |-> 1]
  /\ jobs = [t \in Threads |-> 0]
  /\ signals = [t \in Threads |-> 0]

-----------------------------------------------------------------------------
(* The first version charges what passed since the timer interrupt was     *)
(* last left, and takes no priority away.                                  *)
Charge ==
  \/ /\ Version = "first"
     /\ current_cost_ticks' =
          [t \in Threads |->
             IF t = current_thread
             THEN (current_cost_ticks[t] + global_tick' - tick_counter_previous)
                    % TickMod
             ELSE current_cost_ticks[t]]
     /\ UNCHANGED <<tick_counter_last_cost, priority>>
  \/ /\ Version = "second"
     /\ ChargeCurrent
     /\ DemoteOverrun

(* thread_yield(), from its cli() to the switch of stacks.                 *)
EarlyYield(st, wk, wc, frame) ==
  /\ status' = [t \in All |-> Awaken(st, wk, wc, t)]
  /\ ticks_to_wait' = wk
  /\ carry_ticks_to_wait' = [t \in All |-> CarryLeft(st, wc, t)]
  /\ Charge
  /\ current_thread' = Candidate(status')
  /\ Suspend(frame)
  /\ interrupts' = FALSE
  /\ UNCHANGED <<thread_list, queue_last_input>>

Sleeps(ticks) ==
  LET wk == [ticks_to_wait EXCEPT
               ![current_thread] = (ticks + global_tick) % TickMod]
      wc == [carry_ticks_to_wait EXCEPT
               ![current_thread] = IF global_tick > wk[current_thread]
                                   THEN 1 ELSE 0]
  IN  /\ UNCHANGED clockVars
      /\ EarlyYield([status EXCEPT ![current_thread] = SLEPT], wk, wc, "call")

(* Mutant: thread_block() yields and leaves the thread ACTIVE.             *)
BlocksNot ==
  /\ status[current_thread] = ACTIVE
  /\ UNCHANGED clockVars
  /\ EarlyYield(status, ticks_to_wait, carry_ticks_to_wait, "call")

Blocks ==
  /\ status[current_thread] = ACTIVE
  /\ UNCHANGED clockVars
  /\ EarlyYield([status EXCEPT ![current_thread] = BLOCKED], ticks_to_wait,
                carry_ticks_to_wait, "call")

(* Mutant: wakes a thread that sleeps as well.                             *)
UnblocksSleeper(th) ==
  /\ UNCHANGED clockVars
  /\ \/ /\ status[th] # ACTIVE
        /\ signals' = [signals EXCEPT ![th] = @ + 1]
        /\ EarlyYield([status EXCEPT ![th] = ACTIVE], ticks_to_wait,
                      carry_ticks_to_wait, "call")
     \/ /\ status[th] = ACTIVE
        /\ interrupts' = TRUE
        /\ UNCHANGED <<thread_list, current_thread, status, timerVars,
                       costVars, queue_last_input, frames, signals>>

(* thread_unblock(th) leaves no trace on a thread that is not BLOCKED.     *)
Unblocks(th) ==
  /\ UNCHANGED clockVars
  /\ \/ /\ status[th] = BLOCKED
        /\ signals' = [signals EXCEPT ![th] = @ + 1]
        /\ EarlyYield([status EXCEPT ![th] = ACTIVE], ticks_to_wait,
                      carry_ticks_to_wait, "call")
     \/ /\ status[th] # BLOCKED
        /\ interrupts' = TRUE
        /\ UNCHANGED <<thread_list, current_thread, status, timerVars,
                       costVars, queue_last_input, frames, signals>>

-----------------------------------------------------------------------------
(* The timer, and the way back from thread_yield()                         *)
TimerTicks ==
  /\ interrupts
  /\ global_tick # LastTick
  /\ Len(frames[current_thread]) < MaxNest
  /\ global_tick' = (global_tick + 1) % TickMod
  /\ carry_tick_counter' = IF tick_counter_previous > global_tick' THEN 1 ELSE 0
  /\ EarlyYield(status, ticks_to_wait, carry_ticks_to_wait, "isr")
  /\ UNCHANGED <<tick_counter_previous, patternVars>>

Innermost(frame) ==
  frames[current_thread] # <<>> /\ Head(frames[current_thread]) = frame

(* sei(), and thread_yield() returns                                       *)
Returns ==
  /\ \/ /\ Innermost("call")
        /\ frames' = [frames EXCEPT ![current_thread] = Tail(@)]
     \/ /\ Innermost("isr")
        /\ frames' = [frames EXCEPT ![current_thread] = <<"store">> \o Tail(@)]
  /\ interrupts' = TRUE
  /\ UNCHANGED <<thread_list, current_thread, status, timerVars, clockVars,
                 costVars, queue_last_input, patternVars>>

Stores ==
  /\ Innermost("store")
  /\ tick_counter_previous' = global_tick
  /\ frames' = [frames EXCEPT ![current_thread] = Tail(@)]
  /\ UNCHANGED <<thread_list, current_thread, status, timerVars, costVars,
                 queue_last_input, global_tick, carry_tick_counter, interrupts,
                 patternVars>>

(* threads_subsystem_init()                                                *)
MainYields ==
  /\ Runs(Main)
  /\ UNCHANGED <<clockVars, patternVars>>
  /\ EarlyYield(status, ticks_to_wait, carry_ticks_to_wait, "call")

-----------------------------------------------------------------------------
(* periodic_pattern()                                                      *)
At(t, p) == Runs(t) /\ pc[t] = p
GoTo(t, p) == pc' = [pc EXCEPT ![t] = p]

Begins(t) ==
  /\ At(t, "entry")
  /\ GoTo(t, IF Version = "first" THEN "reset" ELSE "offset")
  /\ thread_counter_us' = [thread_counter_us EXCEPT ![t] = global_tick]
  /\ current_cost_ticks' = [current_cost_ticks EXCEPT ![t] = 0]
  /\ UNCHANGED <<thread_list, current_thread, status, priority, timerVars,
                 clockVars, queue_last_input, tick_counter_last_cost, frames,
                 interrupts, ticks_aux, at, jobs, signals>>

SleepsOffset(t) ==
  /\ At(t, "offset")
  /\ GoTo(t, "release")
  /\ Sleeps(Offset[t])
  /\ UNCHANGED <<thread_counter_us, ticks_aux, at, jobs, signals>>

IsReleased(t) ==
  /\ At(t, "release")
  /\ GoTo(t, "top")
  /\ thread_counter_us' = [thread_counter_us EXCEPT ![t] = global_tick]
  /\ UNCHANGED <<kernelVars, interrupts, ticks_aux, at, jobs, signals>>

(* An event-driven thread blocks before each of its jobs, whatever was     *)
(* signalled in the meantime.                                              *)
Waits(t) ==
  /\ At(t, "top")
  /\ GoTo(t, "reset")
  /\ IF t \in EventDriven THEN Blocks ELSE UNCHANGED <<kernelVars, interrupts>>
  /\ UNCHANGED <<thread_counter_us, ticks_aux, at, jobs, signals>>

Resets(t) ==
  /\ At(t, "reset")
  /\ GoTo(t, "exec")
  /\ current_cost_ticks' = [current_cost_ticks EXCEPT ![t] = 0]
  /\ UNCHANGED <<thread_list, current_thread, status, priority, timerVars,
                 clockVars, queue_last_input, tick_counter_last_cost, frames,
                 interrupts, thread_counter_us, ticks_aux, at, jobs, signals>>

(* Mutant: the sei() is gone.                                              *)
GetsCostDisabled ==
  /\ UNCHANGED clockVars
  /\ ChargeCurrent
  /\ interrupts' = FALSE
  /\ UNCHANGED <<thread_list, current_thread, status, priority, timerVars,
                 queue_last_input, frames>>

(* get_current_cost_ticks()                                                *)
GetsCost ==
  /\ UNCHANGED clockVars
  /\ ChargeCurrent
  /\ interrupts' = TRUE
  /\ UNCHANGED <<thread_list, current_thread, status, priority, timerVars,
                 queue_last_input, frames>>

Calls(t) ==
  /\ At(t, "exec") /\ at[t] <= Len(Body[t])
  /\ at' = [at EXCEPT ![t] = @ + 1]
  /\ \/ Body[t][at[t]][1] = "unblock" /\ Unblocks(Body[t][at[t]][2])
     \/ Body[t][at[t]][1] = "cost" /\ GetsCost /\ UNCHANGED signals
  /\ UNCHANGED <<pc, thread_counter_us, ticks_aux, jobs>>

Finishes(t) ==
  /\ At(t, "exec") /\ at[t] > Len(Body[t])
  /\ GoTo(t, IF Version = "first" THEN "test" ELSE "charge")
  /\ at' = [at EXCEPT ![t] = 1]
  /\ jobs' = [jobs EXCEPT ![t] = @ + 1]
  /\ ticks_aux' = [ticks_aux EXCEPT ![t] = global_tick]
  /\ UNCHANGED <<kernelVars, interrupts, thread_counter_us, signals>>

Charges(t) ==
  /\ At(t, "charge")
  /\ GoTo(t, "test")
  /\ GetsCost
  /\ UNCHANGED <<thread_counter_us, ticks_aux, at, jobs, signals>>

(* The period is tested by the second version only, which also tests with  *)
(* `>=' what the first tests with `>'.                                     *)
Violated(t) ==
  LET took == (ticks_aux[t] - thread_counter_us[t]) % TickMod
  IN  \/ /\ Version = "first"
         /\ took > Deadline[t] \/ current_cost_ticks[t] > MaxCost[t]
      \/ /\ Version = "second"
         /\ \/ took >= Period[t] \/ took >= Deadline[t]
            \/ current_cost_ticks[t] >= MaxCost[t]

Tests(t) ==
  /\ At(t, "test")
  /\ GoTo(t, IF Handler[t] = "spins" /\ Violated(t) THEN "spin" ELSE "sleep")
  /\ UNCHANGED <<kernelVars, interrupts, thread_counter_us, ticks_aux, at, jobs,
                 signals>>

SleepsToNext(t) ==
  /\ At(t, "sleep")
  /\ GoTo(t, IF Version = "first" THEN "reset" ELSE "top")
  /\ thread_counter_us' =
       [thread_counter_us EXCEPT ![t] = (@ + Period[t]) % TickMod]
  /\ Sleeps((thread_counter_us[t] + Period[t] - ticks_aux[t]) % TickMod)
  /\ UNCHANGED <<ticks_aux, at, jobs, signals>>

Spins(t) == At(t, "spin") /\ UNCHANGED earlyVars

EarlyNext ==
  \/ TimerTicks \/ Returns \/ Stores \/ MainYields
  \/ \E t \in Threads :
       \/ Begins(t) \/ SleepsOffset(t) \/ IsReleased(t) \/ Waits(t)
       \/ Resets(t) \/ Calls(t) \/ Finishes(t) \/ Charges(t) \/ Tests(t)
       \/ SleepsToNext(t) \/ Spins(t)

EarlySpec == EarlyInit /\ [][EarlyNext]_earlyVars

-----------------------------------------------------------------------------
(* Properties                                                              *)

(* The processor runs a job with interrupts on, so that the timer can take *)
(* it away, except for the first job of a thread of the first version: no  *)
(* sei() lies between its creation and its executor.                       *)
JobsInterruptible ==
  \A t \in Threads :
    At(t, "exec") => (interrupts <=> Version = "second" \/ jobs[t] > 0)

(* A thread does one job for each thread_unblock() that found it blocked,  *)
(* whatever calls came while it did its job or slept.                      *)
Owes(t) ==
  \/ pc[t] = "exec"
  \/ pc[t] = "reset" /\ status[t] # BLOCKED

JobPerUnblock ==
  \A t \in EventDriven : signals[t] = jobs[t] + IF Owes(t) THEN 1 ELSE 0

(* No job starts before it is due, a release and a whole number of periods *)
(* after the first, however early the thread is unblocked; and only a job  *)
(* that took its whole period or more is followed by another at once.      *)
NoJobTooEarly ==
  \A t \in Threads : pc[t] = "exec" => thread_counter_us[t] <= global_tick
=============================================================================
