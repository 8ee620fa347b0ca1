------------------------------ MODULE Sketches ------------------------------
(***************************************************************************)
(* The example sketches of the library, as the programs they are: which    *)
(* threads they create, in which order and with which parameters, and what *)
(* their executors call.  Each definition bears the name of its sketch.    *)
(*                                                                         *)
(* A behaviour runs one of them: Init chooses it, and the parameters of    *)
(* RTSketch, or EarlySwitch for those that bring the kernel with them, are *)
(* its.                                                                    *)
(***************************************************************************)
EXTENDS Integers, Sequences, TLC

CONSTANTS
  LastTick,    (* bound, as in RTKernel                                       *)
  MaxNest,     (* bound, as in RTKernel                                       *)
  EarlyTick,   (* bounds: the same for the sketches with a kernel of their own*)
  EarlyNest

TickMod == 32

(* A time given in microseconds, in ticks of one second, rounded up, and   *)
(* with all from 5 s on out of the reach of the clock.                     *)
InTicks(us) ==
  IF us >= 5000000 THEN TickMod - 1 ELSE (us + 999999) \div 1000000

(***************************************************************************)
(* The calls that create threads.  errors is what the error_handler given  *)
(* does: "none" (NULL), "returns" or "spins".                              *)
(***************************************************************************)
Thread(kind, prio, off, per, dead, cost, over, mit, length, errors, body) ==
  [InitPrio |-> prio, Kind |-> kind, Offset |-> InTicks(off),
   Period |-> InTicks(per), Deadline |-> InTicks(dead),
   MaxCost |-> InTicks(cost), OverPolicy |-> over, MitPolicy |-> mit,
   QueueMax |-> length, Handler |-> errors, Body |-> body]

Periodic(prio, offset, period, deadline, cost, errors, body) ==
  Thread("periodic", prio, offset, period, deadline, cost, "NONE", "NONE", 0,
         errors, body)

Sporadic(prio, offset, mit, deadline, cost, over, early, length, errors) ==
  Thread("sporadic", prio, offset, mit, deadline, cost, over, early, length,
         errors, <<>>)

Aperiodic(prio, offset, deadline, cost, over, length, errors) ==
  Thread("aperiodic", prio, offset, 0, deadline, cost, over, "NONE", length,
         errors, <<>>)

(* What a sketch creates: threads, in this order, semaphores, one queue.   *)
Program(order, threads, tokens, size) ==
  LET All == DOMAIN threads
      Of(field) == [t \in All |-> threads[t][field]]
  IN  [kernel |-> "rtthreads", Threads |-> All,
       ThreadList |-> [i \in 1 .. Len(order) |-> order[Len(order) + 1 - i]]
                        \o <<"main">>,
       InitPrio |-> Of("InitPrio"), Kind |-> Of("Kind"),
       Offset |-> Of("Offset"), Period |-> Of("Period"),
       Deadline |-> Of("Deadline"), MaxCost |-> Of("MaxCost"),
       OverPolicy |-> Of("OverPolicy"), MitPolicy |-> Of("MitPolicy"),
       QueueMax |-> Of("QueueMax"), Handler |-> Of("Handler"),
       Body |-> Of("Body"), Tokens |-> tokens, QueueSize |-> size]

One(th1) == Program(<<"th1">>, "th1" :> th1, <<>>, 1)
Two(th1, th2) ==
  Program(<<"th1", "th2">>, "th1" :> th1 @@ "th2" :> th2, <<>>, 1)
TwoWithSemaphore(th1, th2, tokens) ==
  Program(<<"th1", "th2">>, "th1" :> th1 @@ "th2" :> th2, "sem1" :> tokens, 1)
TwoWithQueue(th1, th2, size) ==
  Program(<<"th1", "th2">>, "th1" :> th1 @@ "th2" :> th2, <<>>, size)

-----------------------------------------------------------------------------
(* Periodic threads that print, and share nothing the others can tell.     *)
periodic_task ==
  One(Periodic(30, 0, 1000000, 1000000, 500000, "spins", <<>>))

periodic_task_overun == One(Periodic(30, 0, 1000000, 1000000, 0, "spins", <<>>))

periodic_1tasks_time ==
  One(Periodic(30, 0, 1000000, 1000000, 500000, "spins", <<>>))

periodic_1tasks_time_read_write_byte ==
  One(Periodic(30, 0, 1000000, 1000000, 500000, "spins", <<>>))

periodic_1tasks_led_info ==
  One(Periodic(30, 0, 1000000, 1000000, 500000, "spins", <<>>))

periodic_1tasks_get_params ==
  One(Periodic(30, 10000, 1000000, 1000000, 500000, "spins", <<>>))

periodic_1tasks_dump_all_info ==
  Two(Periodic(30, 0, 10000000, 10000000, 5000000, "spins", <<>>),
      Periodic(30, 0, 10000000, 10000000, 5000000, "spins", <<>>))

periodic_2tasks_read_write ==
  Two(Periodic(30, 10000, 1000000, 1000000, 500000, "spins",
               <<<<"use", "incoming_byte">>>>),
      Periodic(20, 0, 1000000, 1000000, 500000, "spins",
               <<<<"input", "Serial">>, <<"use", "incoming_byte">>>>))

-----------------------------------------------------------------------------
(* A semaphore, to wait for the other thread or to exclude it.             *)
Waiting   == <<<<"P", "sem1">>>>
Announces == <<<<"V", "sem1">>>>
Guarded   == <<<<"P", "sem1">>, <<"use", "handler">>, <<"V", "sem1">>>>

periodic_2_1SEMAPHORE_ ==
  TwoWithSemaphore(
    Periodic(30, 0, 1000000, 1000000, 500000, "returns", Waiting),
    Periodic(30, 100000, 1000000, 1000000, 500000, "returns", Announces), 0)

periodic_2_1SEMAPHORE_2P ==
  TwoWithSemaphore(
    Periodic(30, 0, 1000000, 1000000, 500000, "returns", Waiting),
    Periodic(30, 100000, 1000000, 1000000, 500000, "returns", Announces), 0)

periodic_2_1SEMAPHORE_2V ==
  TwoWithSemaphore(
    Periodic(30, 0, 1000000, 1000000, 500000, "returns", Waiting),
    Periodic(30, 100000, 1000000, 1000000, 500000, "returns", Announces), 0)

periodic_2_1SEMAPHORE_2Prate ==
  TwoWithSemaphore(
    Periodic(30, 0, 1000000, 1000000, 5000000, "returns", Waiting \o Waiting),
    Periodic(30, 100000, 1000000, 1000000, 5000000, "returns", Announces), 1)

(* The error handler of the second thread writes the shared variable, and  *)
(* takes no semaphore for it: what it writes is not in the model, only that*)
(* it returns.                                                             *)
periodic_2_1SEMAPHORE_2Prate_BAD ==
  TwoWithSemaphore(
    Periodic(30, 0, 1000000, 10000000, 5000000, "returns", Guarded),
    Periodic(30, 100000, 1000000, 10000000, 5000000, "returns", Guarded), 1)

periodic_2_1SEMAPHORE_BARRIER ==
  TwoWithSemaphore(
    Periodic(30, 0, 1000000, 10000000, 5000000, "returns", Guarded),
    Periodic(30, 0, 1000000, 10000000, 5000000, "returns", Guarded), 1)

-----------------------------------------------------------------------------
(* A queue.                                                                *)
periodic_2_QUEUES_ ==
  TwoWithQueue(
    Periodic(30, 0, 1000000, 1000000, 500000, "returns", <<<<"get", "q1">>>>),
    Periodic(30, 100000, 1000000, 1000000, 500000, "returns", <<>>), 2)

periodic_2_QUEUES_DOUBLE_READ ==
  TwoWithQueue(
    Periodic(30, 0, 1000000, 1000000, 500000, "returns",
             <<<<"get", "q1">>, <<"get", "q1">>>>),
    Periodic(30, 100000, 1000000, 1000000, 500000, "returns",
             <<<<"set", "q1">>>>), 2)

periodic_2_QUEUES_DOUBLE_WRITE ==
  TwoWithQueue(
    Periodic(30, 0, 1000000, 1000000, 500000, "returns",
             <<<<"get", "q1">>, <<"get", "q1">>>>),
    Periodic(30, 100000, 1000000, 1000000, 500000, "returns",
             <<<<"set", "q1">>>>), 2)

-----------------------------------------------------------------------------
(* Asynchronous signals.                                                   *)
periodic_1_ATS_auto ==
  One(Periodic(30, 0, 1000000, 1000000, 500000, "returns",
               <<<<"ATS_enable", "th1">>, <<"ATS_signal", "th1">>,
                 <<"ATS_signal", "th1">>, <<"ATS_disable", "th1">>>>))

periodic_2_ATS_ ==
  Two(Periodic(30, 0, 1000000, 1000000, 500000, "returns",
               <<<<"ATS_enable", "th1">>, <<"ATS_signal", "th2">>>>),
      Periodic(30, 100000, 1000000, 1000000, 500000, "returns",
               <<<<"ATS_enable", "th2">>>>))

(* The enable of the first thread is inside a comment.                     *)
periodic_2_ATS_BAD ==
  Two(Periodic(20, 100000, 1000000, 1000000, 500000, "returns",
               <<<<"ATS_signal", "th2">>>>),
      Periodic(30, 100, 1000000, 1000000, 500000, "returns",
               <<<<"ATS_enable", "th2">>>>))

periodic_2tasks_dump_all_info_debug_example ==
  Two(Periodic(30, 100000, 10000000, 10000000, 50000000, "none",
               <<<<"first", "counter">>, <<"ATS_signal", "th2">>,
                 <<"use", "thread_list">>>>),
      Periodic(20, 0, 10000000, 10000000, 5000000, "spins",
               <<<<"ATS_enable", "th2">>>>))

-----------------------------------------------------------------------------
(* A periodic thread that signals an event-driven one when it receives.    *)
Signalling(n) ==
  <<<<"input", "Serial">>>> \o [i \in 1 .. n |-> <<"signal", "th1">>]

periodic_2tasks_1_periodic_read_1_aperiodic_write ==
  Two(Aperiodic(20, 0, 1000000, 500000, "SAVE", 2, "none"),
      Periodic(30, 0, 1000000, 1000000, 500000, "spins", Signalling(2)))

periodic_2tasks_1_periodic_read_1_aperiodic_write_TRANS ==
  Two(Aperiodic(20, 0, 1000000, 500000, "SAVE", 2, "none"),
      Periodic(30, 0, 1000000, 1000000, 500000, "spins", Signalling(2)))

periodic_2tasks_1_periodic_read_1_aperiodic_write_IGNORE ==
  Two(Aperiodic(20, 0, 1000000, 500000, "IGNORE", 1, "none"),
      Periodic(30, 0, 1000000, 1000000, 500000, "spins", Signalling(3)))

(* Wakes the sporadic thread without a signal.                             *)
periodic_2tasks_1_periodic_read_1_sporadic_write ==
  Two(Sporadic(30, 10000, 1000000, 1000000, 500000, "NONE", "SAVE", 0, "spins"),
      Periodic(20, 0, 1000000, 1000000, 500000, "spins",
               <<<<"input", "Serial">>, <<"unblock", "th1">>>>))

periodic_2tasks_1_periodic_read_1_sporadic_write_SAVE ==
  Two(Sporadic(30, 10000, 1000000, 1000000, 500000, "SAVE", "SAVE", 4, "spins"),
      Periodic(40, 0, 1000000, 1000000, 500000, "spins", Signalling(3)))

periodic_2tasks_1_periodic_read_1_sporadic_write_EXCEPT_SAVE ==
  Two(Sporadic(30, 10000, 1000000, 1000000, 500000, "EXCEPT", "SAVE", 1,
               "spins"),
      Periodic(40, 0, 1000000, 1000000, 500000, "spins", Signalling(3)))

periodic_2tasks_1_periodic_read_1_sporadic_write_IGNORE_SAVE ==
  Two(Sporadic(30, 0, 100000, 100000, 10000000, "IGNORE", "SAVE", 0, "spins"),
      Periodic(40, 0, 1000000, 1000000, 10000000, "spins", Signalling(3)))

periodic_2tasks_1_periodic_read_1_sporadic_write_REPLACE_SAVE ==
  Two(Sporadic(30, 0, 100000, 100000, 10000000, "REPLACE", "SAVE", 0, "spins"),
      Periodic(40, 0, 1000000, 1000000, 10000000, "spins", Signalling(3)))

(* The policies these three pass are not those of their names.             *)
periodic_2tasks_1_periodic_read_1_sporadic_write_SAVE_EXCEPT ==
  Two(Sporadic(30, 0, 100000, 100000, 10000000, "IGNORE", "IGNORE", 3, "spins"),
      Periodic(40, 0, 1000000, 1000000, 10000000, "spins", Signalling(3)))

periodic_2tasks_1_periodic_read_1_sporadic_write_SAVE_IGNORE ==
  Two(Sporadic(30, 0, 100000, 100000, 10000000, "IGNORE", "IGNORE", 3, "spins"),
      Periodic(40, 0, 1000000, 1000000, 10000000, "spins", Signalling(3)))

periodic_2tasks_1_periodic_read_1_sporadic_write_SAVE_REPLACE ==
  Two(Sporadic(30, 0, 100000, 100000, 10000000, "IGNORE", "REPLACE", 3,
               "spins"),
      Periodic(40, 0, 1000000, 1000000, 10000000, "spins", Signalling(3)))

periodic_3tasks_2periodic_1sporadic ==
  Program(<<"th1", "th2", "th3">>,
    "th1" :> Sporadic(30, 10000, 1000000, 1000000, 500000, "NONE", "SAVE", 0,
                      "spins")
    @@ "th2" :> Periodic(20, 0, 1000000, 1000000, 500000, "spins",
                         Signalling(1))
    @@ "th3" :> Periodic(20, 0, 100000, 100000, 50000, "spins", <<>>),
    <<>>, 1)

(* Takes the other thread out of the table and frees its memory.           *)
periodic_1tasks_dump_all_info_remove ==
  Program(<<"th2", "th1">>,
    "th1" :> Periodic(20, 0, 10000000, 10000000, 5000000, "spins",
                      <<<<"use", "thread_list">>, <<"remove", "th2">>>>)
    @@ "th2" :> Periodic(30, 1000000, 10000000, 10000000, 5000000, "spins",
                         <<>>),
    <<>>, 1)

-----------------------------------------------------------------------------
(* The sketches with a kernel of their own, on a clock of 20 ticks a       *)
(* second.                                                                 *)
Twentieths(us) == (us + 49999) \div 50000

EarlyThread(prio, kind, offset, period, deadline, cost, errors, body) ==
  [InitPrio |-> prio, Kind |-> kind, Offset |-> Twentieths(offset),
   Period |-> Twentieths(period),
   Deadline |-> Twentieths(deadline),
   MaxCost |-> Twentieths(cost), Handler |-> errors, Body |-> body,
   OverPolicy |-> "NONE", MitPolicy |-> "NONE", QueueMax |-> 0]

EarlyProgram(version, th1, th2) == [Two(th1, th2) EXCEPT !.kernel = version]

context_switch ==
  EarlyProgram("first",
    EarlyThread(40, "periodic", 0, 100000, 100000, 0, "spins", <<>>),
    EarlyThread(30, "periodic", 0, 100000, 1000000, 1000000, "none", <<>>))

context_switch_2_0 ==
  EarlyProgram("second",
    EarlyThread(30, "sporadic", 100000, 1000000, 1000000, 500000, "spins",
                <<<<"cost">>>>),
    EarlyThread(20, "periodic", 100000, 100000, 100000, 128, "spins",
                <<<<"unblock", "th1">>>>))

context_switch_1_0 == context_switch_2_0

-----------------------------------------------------------------------------
Library ==
  {periodic_task, periodic_task_overun, periodic_1tasks_time,
   periodic_1tasks_time_read_write_byte, periodic_1tasks_led_info,
   periodic_1tasks_get_params, periodic_1tasks_dump_all_info,
   periodic_2tasks_read_write, periodic_2_1SEMAPHORE_,
   periodic_2_1SEMAPHORE_2P, periodic_2_1SEMAPHORE_2V,
   periodic_2_1SEMAPHORE_2Prate, periodic_2_1SEMAPHORE_2Prate_BAD,
   periodic_2_1SEMAPHORE_BARRIER, periodic_2_QUEUES_,
   periodic_2_QUEUES_DOUBLE_READ, periodic_2_QUEUES_DOUBLE_WRITE,
   periodic_1_ATS_auto, periodic_2_ATS_, periodic_2_ATS_BAD,
   periodic_2tasks_dump_all_info_debug_example,
   periodic_2tasks_1_periodic_read_1_aperiodic_write,
   periodic_2tasks_1_periodic_read_1_aperiodic_write_TRANS,
   periodic_2tasks_1_periodic_read_1_aperiodic_write_IGNORE,
   periodic_2tasks_1_periodic_read_1_sporadic_write,
   periodic_2tasks_1_periodic_read_1_sporadic_write_SAVE,
   periodic_2tasks_1_periodic_read_1_sporadic_write_EXCEPT_SAVE,
   periodic_2tasks_1_periodic_read_1_sporadic_write_IGNORE_SAVE,
   periodic_2tasks_1_periodic_read_1_sporadic_write_REPLACE_SAVE,
   periodic_2tasks_1_periodic_read_1_sporadic_write_SAVE_EXCEPT,
   periodic_2tasks_1_periodic_read_1_sporadic_write_SAVE_IGNORE,
   periodic_2tasks_1_periodic_read_1_sporadic_write_SAVE_REPLACE,
   periodic_3tasks_2periodic_1sporadic, periodic_1tasks_dump_all_info_remove}

Early == {context_switch, context_switch_1_0, context_switch_2_0}

VARIABLES
  sketch,      (* the program this behaviour runs                             *)
  thread_list, current_thread, status, priority,
  ticks_to_wait, carry_ticks_to_wait, queue_last_input, current_cost_ticks,
  global_tick, carry_tick_counter, tick_counter_previous,
  tick_counter_last_cost, frames,
  pc, queue_pending, thread_counter_us, ticks_aux,
  at, jobs, signals, value, blocked_semaphore,
  stored, read_index, write_index, elements, result,
  ats_active, ats_pending, to_yield, drain, sent, handled,
  interrupts

libraryVars ==
  <<queue_pending, value, blocked_semaphore, stored, read_index, write_index,
    elements, result, ats_active, ats_pending, to_yield, drain, sent, handled>>

vars == <<sketch, thread_list, current_thread, status, priority, ticks_to_wait,
          carry_ticks_to_wait, queue_last_input, current_cost_ticks,
          global_tick, carry_tick_counter, tick_counter_previous,
          tick_counter_last_cost, frames, pc, queue_pending,
          thread_counter_us, ticks_aux, at, jobs, signals, value,
          blocked_semaphore, stored, read_index, write_index, elements, result,
          ats_active, ats_pending, to_yield, drain, sent, handled, interrupts>>

Runs(k) == INSTANCE RTSketch WITH
  Main <- "main", Threads <- k.Threads, ThreadList <- k.ThreadList,
  InitPrio <- k.InitPrio, Kind <- k.Kind, Offset <- k.Offset,
  Period <- k.Period, Deadline <- k.Deadline, MaxCost <- k.MaxCost,
  OverPolicy <- k.OverPolicy, MitPolicy <- k.MitPolicy,
  QueueMax <- k.QueueMax, Handler <- k.Handler, Body <- k.Body,
  Tokens <- k.Tokens, QueueSize <- k.QueueSize,
  Targets <- [t \in k.Threads |-> {}], Interrupts <- {}, PendingCap <- TickMod,
  UninitTicks <- {0}, UninitStatus <- {"ACTIVE"}, PendingMod <- 8, SentCap <- 7

Switches(k) == INSTANCE EarlySwitch WITH
  Main <- "main", Threads <- k.Threads, ThreadList <- k.ThreadList,
  InitPrio <- k.InitPrio, Kind <- k.Kind, Offset <- k.Offset,
  Period <- k.Period, Deadline <- k.Deadline, MaxCost <- k.MaxCost,
  Handler <- k.Handler, Body <- k.Body, Version <- k.kernel,
  TickMod <- 2 * TickMod, LastTick <- EarlyTick,
  MaxNest <- EarlyNest, UninitTicks <- {0}, UninitStatus <- {"ACTIVE"}

(* What the theorems about RTSketch and EarlySwitch assume of a program is *)
(* true of these.                                                          *)
ASSUME LibraryAssumption ==
  \A k \in Library :
    /\ Runs(k)!ThreadsAssumption /\ Runs(k)!TickModAssumption
    /\ Runs(k)!ParamsAssumption  /\ Runs(k)!ThreadListAssumption
    /\ Runs(k)!PatternAssumption    /\ Runs(k)!NestAssumption
    /\ Runs(k)!SketchParams      /\ Runs(k)!EarlyEndsHarmless
    /\ Runs(k)!RemovedAreLeft    /\ Runs(k)!LocksPaired
    /\ Runs(k)!ListenersPeriodic /\ Runs(k)!OneSetter

ASSUME EarlyAssumption ==
  \A k \in Early :
    /\ Switches(k)!ThreadsAssumption /\ Switches(k)!TickModAssumption
    /\ Switches(k)!ParamsAssumption  /\ Switches(k)!ThreadListAssumption
    /\ Switches(k)!NestAssumption    /\ Switches(k)!EarlyParams
    /\ EarlyTick < 2 * TickMod

Init ==
  \/ \E k \in Library :
       /\ sketch = k
       /\ Runs(k)!SketchInit
       /\ interrupts = TRUE
  \/ \E k \in Early :
       /\ sketch = k
       /\ Switches(k)!EarlyInit
       /\ \A nothing \in {0} :
            /\ queue_pending = nothing /\ value = nothing
            /\ blocked_semaphore = nothing
            /\ stored = nothing /\ read_index = nothing
            /\ write_index = nothing /\ elements = nothing /\ result = nothing
            /\ ats_active = nothing /\ ats_pending = nothing
            /\ to_yield = nothing /\ drain = nothing
            /\ sent = nothing /\ handled = nothing

OnLibrary == sketch.kernel = "rtthreads"

Next ==
  \/ /\ OnLibrary
     /\ \E k \in {sketch} : Runs(k)!SketchNext
     /\ UNCHANGED <<sketch, interrupts>>
  \/ /\ ~OnLibrary
     /\ \E k \in {sketch} : Switches(k)!EarlyNext
     /\ UNCHANGED <<sketch, libraryVars>>

Spec == Init /\ [][Next]_vars

-----------------------------------------------------------------------------
(* Properties: what RTSketch and EarlySwitch say of the sketch that runs.  *)

(* Tokens of a semaphore are neither made nor lost in a sketch.            *)
TokensAccounted ==
  OnLibrary => \A k \in {sketch} : Runs(k)!TokensAccounted

(* The sketches that put P and V around shared data exclude each other.    *)
MutualExclusion ==
  OnLibrary => \A k \in {sketch} : Runs(k)!MutualExclusion

(* The event-driven threads serve what they are signalled.                 *)
SignalsServedOnce ==
  OnLibrary => \A k \in {sketch} : Runs(k)!SignalsServedOnce

(* A thread that signals itself has handled the signal when it goes on.    *)
OwnSignalsHandled ==
  OnLibrary => \A k \in {sketch} : Runs(k)!OwnSignalsHandled

(* What a queue stores is in the order it was set in.                      *)
StoredInOrder ==
  OnLibrary => \A k \in {sketch} : Runs(k)!StoredInOrder

(* thread_remove() takes out that thread alone, and it never runs again.   *)
RemovedStaysOut ==
  OnLibrary => \A k \in {sketch} : Runs(k)!RemovedStaysOut

(* Early kernels: which jobs run with interrupts off.                      *)
JobsInterruptible ==
  ~OnLibrary => \A k \in {sketch} : Switches(k)!JobsInterruptible

(* Early kernels: one job for each thread_unblock() of a blocked thread.   *)
JobPerUnblock ==
  ~OnLibrary => \A k \in {sketch} : Switches(k)!JobPerUnblock

(* Early kernels: no job starts before its thread is due.                  *)
NoJobTooEarly ==
  ~OnLibrary => \A k \in {sketch} : Switches(k)!NoJobTooEarly
=============================================================================
