----------------------------- MODULE RTThreads ------------------------------
(***************************************************************************)
(* The periodic, sporadic and aperiodic threads of the library: the body   *)
(* they share, periodic_pattern(), and thread_signal(), which releases the *)
(* event-driven ones, on the kernel of RTKernel.                           *)
(*                                                                         *)
(* A step of a thread is the code it runs with interrupts off, or one      *)
(* access to what it shares with the others.  The timer can preempt it     *)
(* between any two of them.  pc names the code a thread executes next:     *)
(*   entry    current_cost_ticks = 0                                       *)
(*   offset   tick_sleep(offset_ticks)                                     *)
(*   top      the head of the loop, the test of queue_pending              *)
(*   await    inside thread_block(), or on its way back to that test       *)
(*   release  thread_counter_us = global_thread_tick_counter               *)
(*   reset    current_cost_ticks = 0                                       *)
(*   exec     executor()                                                   *)
(*   account  the deadline test      cost     the cost test                *)
(*   sleep    tick_sleep() to the next period                              *)
(*   dec      queue_pending--                                              *)
(*   spin     an error handler that does not return                        *)
(***************************************************************************)
EXTENDS RTKernel

CONSTANTS
  Kind,        (* "periodic", "sporadic" or "aperiodic": block_pattern        *)
  Offset,      (* offset_ticks                                                *)
  Deadline,    (* max_deadline_ticks                                          *)
  Handler,     (* error_handler: "none" (NULL), "returns" or "spins"          *)
  MitPolicy,   (* low half of mit_policy: what an early signal does           *)
  OverPolicy,  (* its high half: what a signal to a full queue does           *)
  QueueMax,    (* queue_length_max                                            *)
  Targets,     (* the threads an executor may signal                          *)
  Interrupts,  (* the threads signalled by handlers given to attach_interrupt *)
  PendingCap   (* bound: no signal once that many are pending                 *)

EventDriven == {t \in Threads : Kind[t] # "periodic"}
Policies    == {"SAVE", "EXCEPT", "IGNORE", "REPLACE", "NONE"}
NotReleased == -1
PCs == {"entry", "offset", "top", "await", "release", "reset", "exec",
        "account", "cost", "sleep", "dec", "spin"}

ASSUME PatternAssumption ==
  /\ Kind       \in [Threads -> {"periodic", "sporadic", "aperiodic"}]
  /\ Offset     \in [Threads -> Ticks]
  /\ Deadline   \in [Threads -> Ticks]
  /\ Handler    \in [Threads -> {"none", "returns", "spins"}]
  /\ MitPolicy  \in [Threads -> Policies]
  /\ OverPolicy \in [Threads -> Policies]
  /\ QueueMax   \in [Threads -> Int]
  /\ Targets    \in [Threads -> SUBSET EventDriven]
  /\ Interrupts \subseteq EventDriven
  /\ PendingCap \in Nat

VARIABLES
  pc,
  queue_pending,       (* signals accepted and not yet served                 *)
  thread_counter_us,   (* local: the tick this job was released at            *)
  ticks_aux            (* local: the tick its executor ended at               *)

patternVars == <<pc, queue_pending, thread_counter_us, ticks_aux>>
vars == <<kernelVars, patternVars>>

TypeOK ==
  /\ KernelTypeOK
  /\ pc \in [Threads -> PCs]
  /\ queue_pending \in [Threads -> Int]
  /\ thread_counter_us \in [Threads -> Ticks \union {NotReleased}]
  /\ ticks_aux \in [Threads -> Ticks]

Init ==
  /\ KernelInit
  /\ pc = [t \in Threads |-> "entry"]
  /\ queue_pending = [t \in Threads |-> 0]
  /\ thread_counter_us = [t \in Threads |-> NotReleased]
  /\ ticks_aux = [t \in Threads |-> 0]

-----------------------------------------------------------------------------
(* periodic_pattern()                                                      *)

At(t, p)   == Runs(t) /\ pc[t] = p
GoTo(t, p) == pc' = [pc EXCEPT ![t] = p]

Entry(t) ==
  /\ At(t, "entry")
  /\ GoTo(t, "offset")
  /\ current_cost_ticks' = [current_cost_ticks EXCEPT ![t] = 0]
  /\ UNCHANGED <<thread_list, current_thread, status, priority, timerVars,
                 clockVars, queue_last_input, tick_counter_last_cost, frames,
                 queue_pending, thread_counter_us, ticks_aux>>

SleepOffset(t) ==
  /\ At(t, "offset")
  /\ GoTo(t, "top")
  /\ TickSleep(Offset[t])
  /\ UNCHANGED <<queue_pending, thread_counter_us, ticks_aux>>

(* Mutant: goes on with no signal pending.                                 *)
ProceedAnyway(t) ==
  /\ At(t, "top")
  /\ t \in EventDriven => queue_pending[t] >= 0
  /\ GoTo(t, "release")
  /\ UNCHANGED <<kernelVars, queue_pending, thread_counter_us, ticks_aux>>

Proceed(t) ==
  /\ At(t, "top")
  /\ t \in EventDriven => queue_pending[t] > 0
  /\ GoTo(t, "release")
  /\ UNCHANGED <<kernelVars, queue_pending, thread_counter_us, ticks_aux>>

(* Mutant: blocks with one signal pending.                                 *)
AwaitSecond(t) ==
  /\ At(t, "top")
  /\ t \in EventDriven /\ queue_pending[t] <= 1
  /\ GoTo(t, "await")
  /\ ThreadBlock
  /\ Suspend("call")
  /\ UNCHANGED <<queue_pending, thread_counter_us, ticks_aux>>

Await(t) ==
  /\ At(t, "top")
  /\ t \in EventDriven /\ queue_pending[t] <= 0
  /\ GoTo(t, "await")
  /\ ThreadBlock
  /\ Suspend("call")
  /\ UNCHANGED <<queue_pending, thread_counter_us, ticks_aux>>

(* thread_block() returns with interrupts off: the test of queue_pending,  *)
(* and the next thread_block() if it is still 0, belong to the same step.  *)
ReturnFromBlock(t) ==
  current_thread = t /\ pc[t] = "await" /\ frames[t] = <<"call">>

(* Mutant: an `if' for the `while' around thread_block().                  *)
AwaitOverAtOnce(t) ==
  /\ ReturnFromBlock(t)
  /\ GoTo(t, "release")
  /\ frames' = [frames EXCEPT ![t] = <<>>]
  /\ UNCHANGED <<thread_list, current_thread, status, timerVars, clockVars,
                 costVars, queue_last_input, queue_pending, thread_counter_us,
                 ticks_aux>>

AwaitOver(t) ==
  /\ ReturnFromBlock(t)
  /\ queue_pending[t] > 0
  /\ GoTo(t, "release")
  /\ frames' = [frames EXCEPT ![t] = <<>>]
  /\ UNCHANGED <<thread_list, current_thread, status, timerVars, clockVars,
                 costVars, queue_last_input, queue_pending, thread_counter_us,
                 ticks_aux>>

AwaitAgain(t) ==
  /\ ReturnFromBlock(t)
  /\ queue_pending[t] <= 0
  /\ ThreadBlock
  /\ UNCHANGED <<frames, patternVars>>

Release(t) ==
  /\ At(t, "release")
  /\ GoTo(t, "reset")
  /\ thread_counter_us' = [thread_counter_us EXCEPT ![t] = global_tick]
  /\ UNCHANGED <<kernelVars, queue_pending, ticks_aux>>

Reset(t) ==
  /\ At(t, "reset")
  /\ GoTo(t, "exec")
  /\ current_cost_ticks' = [current_cost_ticks EXCEPT ![t] = 0]
  /\ UNCHANGED <<thread_list, current_thread, status, priority, timerVars,
                 clockVars, queue_last_input, tick_counter_last_cost, frames,
                 queue_pending, thread_counter_us, ticks_aux>>

ExecutorEnds(t) ==
  /\ At(t, "exec")
  /\ GoTo(t, "account")
  /\ ticks_aux' = [ticks_aux EXCEPT ![t] = global_tick]
  /\ UNCHANGED <<kernelVars, queue_pending, thread_counter_us>>

(* Where the thread goes after an error handler was, or was not, called.   *)
AfterTest(t, violated, next) ==
  IF violated /\ Handler[t] = "spins" THEN "spin" ELSE next

AfterJob(t) == IF Kind[t] = "aperiodic" THEN "dec" ELSE "sleep"

(* get_current_cost_ticks() and, with a handler, the deadline test         *)
Account(t) ==
  /\ At(t, "account")
  /\ UNCHANGED clockVars
  /\ ChargeCurrent
  /\ GoTo(t, IF Handler[t] = "none" THEN AfterJob(t)
             ELSE AfterTest(t, (ticks_aux[t] - thread_counter_us[t]) % TickMod
                                 >= Deadline[t], "cost"))
  /\ UNCHANGED <<thread_list, current_thread, status, priority, timerVars,
                 queue_last_input, frames, queue_pending, thread_counter_us,
                 ticks_aux>>

TestCost(t) ==
  /\ At(t, "cost")
  /\ GoTo(t, AfterTest(t, current_cost_ticks[t] >= MaxCost[t], AfterJob(t)))
  /\ UNCHANGED <<kernelVars, queue_pending, thread_counter_us, ticks_aux>>

SleepToNext(t) ==
  /\ At(t, "sleep")
  /\ GoTo(t, "dec")
  /\ TickSleep((thread_counter_us[t] + Period[t] - ticks_aux[t]) % TickMod)
  /\ ticks_aux' = [ticks_aux EXCEPT ![t] = 0]      (* dead from here *)
  /\ UNCHANGED <<queue_pending, thread_counter_us>>

(* queue_pending of a periodic thread is not a count of anything: no code  *)
(* reads it, so it stays out of the model.                                 *)
Decrement(t) ==
  /\ At(t, "dec")
  /\ GoTo(t, "top")
  /\ queue_pending' = IF t \in EventDriven
                      THEN [queue_pending EXCEPT ![t] = @ - 1]
                      ELSE queue_pending
  /\ UNCHANGED <<kernelVars, thread_counter_us, ticks_aux>>

-----------------------------------------------------------------------------
(* thread_signal(th), interrupts off throughout.  A signal to a queue that *)
(* is over its length, or one that comes too early, is counted, stamped or *)
(* dropped as the policy says; the thread is unblocked in every case.      *)
(* Only a sporadic thread has a minimum interarrival time.                 *)

(* Mutant: admits one signal more.                                         *)
HasExtraRoom(th) == QueueMax[th] + 1 >= queue_pending[th]

HasRoom(th) == QueueMax[th] >= queue_pending[th]
InTime(th)  == \/ (global_tick - queue_last_input[th]) % TickMod > Period[th]
               \/ Kind[th] # "sporadic"
Counts(th)  == IF HasRoom(th) THEN InTime(th) \/ MitPolicy[th] = "SAVE"
               ELSE OverPolicy[th] = "SAVE"
Stamps(th)  == \/ Counts(th)
               \/ IF HasRoom(th) THEN MitPolicy[th] = "REPLACE"
                  ELSE OverPolicy[th] = "REPLACE"

ThreadSignal(th) ==
  /\ queue_pending[th] < PendingCap
  /\ queue_pending' = IF Counts(th)
                      THEN [queue_pending EXCEPT ![th] = @ + 1]
                      ELSE queue_pending
  /\ ThreadUnblock(th, IF Stamps(th)
                       THEN [queue_last_input EXCEPT ![th] = global_tick]
                       ELSE queue_last_input)
  /\ UNCHANGED <<pc, thread_counter_us, ticks_aux>>

(* The executor of t signals th, and goes on.                              *)
ExecutorSignals(t, th) == At(t, "exec") /\ ThreadSignal(th)

(* An interrupt handler signals th, on the stack of the current thread.    *)
InterruptSignals(th) ==
  /\ Len(frames[current_thread]) < MaxNest
  /\ ThreadSignal(th)

-----------------------------------------------------------------------------
(* The timer, and the way back from thread_yield() to code of the current  *)
(* thread other than the loop that awaits a signal.                        *)
Tick == TimerInterrupt /\ UNCHANGED patternVars

Return ==
  /\ ~ \E t \in Threads : ReturnFromBlock(t)
  /\ YieldReturn \/ TimerInterruptReturn
  /\ UNCHANGED patternVars

MainLoop == MainYield /\ UNCHANGED patternVars

Pattern(t) ==
  \/ Entry(t) \/ SleepOffset(t) \/ Proceed(t) \/ Await(t) \/ AwaitOver(t)
  \/ AwaitAgain(t) \/ Release(t) \/ Reset(t) \/ ExecutorEnds(t) \/ Account(t)
  \/ TestCost(t) \/ SleepToNext(t) \/ Decrement(t)

(* An error handler that loops for ever.                                   *)
Spin(t) == At(t, "spin") /\ UNCHANGED vars

Next ==
  \/ Tick \/ Return \/ MainLoop
  \/ \E t \in Threads : Pattern(t) \/ Spin(t)
  \/ \E t \in Threads : \E th \in Targets[t] : ExecutorSignals(t, th)
  \/ \E th \in Interrupts : InterruptSignals(th)

Spec == Init /\ [][Next]_vars

(***************************************************************************)
(* Fairness.  The timer does not stop.  About 2000 processor cycles pass   *)
(* between two ticks, so a thread that is dispatched again and again gets  *)
(* through the next stretch of its code: strong fairness.  An executor     *)
(* ends; nothing obliges it, or an interrupt, to signal, and of loop()     *)
(* nothing is asked.                                                       *)
(***************************************************************************)
Fairness ==
  /\ WF_vars(Tick)
  /\ \A t \in All : SF_vars(Return /\ current_thread = t)
  /\ \A t \in Threads : SF_vars(Pattern(t))

FairSpec == Spec /\ Fairness

-----------------------------------------------------------------------------
(* Properties                                                              *)

(* A thread is never left blocked with a signal pending: no interrupt can  *)
(* come between the test of queue_pending and thread_block(), and          *)
(* thread_signal() wakes whom it finds blocked.                            *)
NoLostSignal ==
  \A t \in EventDriven : status[t] = BLOCKED => queue_pending[t] <= 0

(* The count never goes below zero, and while a job runs its own signal is *)
(* still counted: it is queue_pending-- at the end that consumes it.       *)
Jobs == {"release", "reset", "exec", "account", "cost", "sleep", "dec", "spin"}

JobHasSignal ==
  \A t \in EventDriven :
    queue_pending[t] >= IF pc[t] \in Jobs THEN 1 ELSE 0

(* Unless the overflow policy is SAVE, the signals pending exceed          *)
(* queue_length_max by at most the one the test `>=' lets in.              *)
QueueBound ==
  \A t \in EventDriven :
    OverPolicy[t] # "SAVE" =>
      queue_pending[t] <= IF QueueMax[t] < 0 THEN 0 ELSE QueueMax[t] + 1

(* Away from the wrap-around, moving queue_last_input of a blocked thread  *)
(* forward never makes its next signal come too early.                     *)
CatchUpKeepsRoom ==
  [][\A t \in Threads :
       queue_last_input'[t] \notin {queue_last_input[t], global_tick} =>
         global_tick' - queue_last_input'[t] > Period[t]]_vars

(* The threads do jobs the way JobService says.                            *)
InJob == {"reset", "exec", "account", "cost", "sleep", "dec", "spin"}

Service == INSTANCE JobService WITH
  Separation <- [t \in Threads |->
                   IF Kind[t] = "aperiodic" THEN -1 ELSE Period[t]],
  Anytime    <- -1,
  Never      <- NotReleased,
  clock      <- global_tick,
  backlog    <- queue_pending,
  busy       <- {t \in Threads : pc[t] \in InJob},
  started    <- thread_counter_us

ServiceSpec == Service!Spec

(* A signal pending for an aperiodic thread past its initial offset is     *)
(* served, as long as no error handler keeps the processor.                *)
SignalServed ==
  \A t \in EventDriven :
    Kind[t] = "aperiodic" =>
      (queue_pending[t] > 0 /\ pc[t] = "await") ~> (pc[t] = "exec")

(* "Overflow taken into consideration": a thread that sleeps until a tick  *)
(* before the wrap-around is awake once the counter has wrapped.           *)
AwakeAfterWrap ==
  [][global_tick' < global_tick =>
       \A t \in Threads :
         status[t] = SLEPT /\ carry_ticks_to_wait[t] = 0
           => status'[t] # SLEPT]_vars

(* "It is safe": the sleep to the next release is not longer than the      *)
(* period it completes.                                                    *)
SleepWithinPeriod ==
  \A t \in Threads :
    status[t] = SLEPT /\ pc[t] = "dec" =>
      (ticks_to_wait[t] - global_tick) % TickMod <= Period[t]
=============================================================================
