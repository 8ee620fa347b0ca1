# A TLA+ model of the rtthreads library

`rtthreads` (`src/arduino/libraries/rtthreads/`) is a library of real-time
threads for AVR Arduinos: pre-emptive scheduling by priority, periodic, sporadic
and aperiodic threads with deadlines and cost budgets, signals with
interarrival and overflow policies, semaphores and queues. All of it is in
`rtthreads.cpp`; line numbers below are of that file.

This directory models the library in TLA+, the example sketches as programs over
it, and the three early sketches that contain a kernel of their own. TLC checks
small instances; TLAPS proves every safety property of every run that passes, for
every set of threads, every choice of their parameters and every width of the
tick counter, and for every program that uses the library the way the sketches
do.

## The system

| Part | State | Operations | Interacts with |
|---|---|---|---|
| Scheduler kernel | `thread_list`, `current_thread`, status, priority and sleep timer of each thread, the tick counter and its carry, cost counters | `thread_yield` 672, the timer interrupt 881, `tick_sleep` 854, `thread_block` 750, `thread_unblock` 826, `threads_subsystem_start` 940, `do_switch` 535 | everything: each call that can change who runs ends in `thread_yield` |
| Periodic, sporadic, aperiodic threads | `queue_pending`, `queue_last_input`, locals of `periodic_pattern` | `periodic_pattern` 155, `thread_signal` 760 | kernel; interrupt handlers signal |
| Semaphores | `value`, `blocked_semaphore` of each thread | create 1106, `P` 1117, `V` 1141, free 1180 | kernel; interrupt handlers call `V` |
| Non blocking queue | `stored`, `read_index`, `write_index`, the elements | create 1013, get 1029, set 1058 | none: its calls do not yield |
| ATS | `ats_active`, `ats_pending` | signal 980, enable 991, disable 1000, the drain in `thread_start` 654 | kernel, error handlers |
| Thread table | `thread_list` | `thread_create` 385, `thread_remove` 347 | kernel |
| Context frame | the stack of each thread | `do_switch` 535, `change_high` 482 | kernel |
| Example sketches | the threads, semaphores and queues they create | executors: straight-line code over the library | all of the above |
| Early kernels | as the scheduler kernel, and the interrupt flag | `context_switch.ino`, `context_switch_1_0.ino`, `context_switch_2_0.ino` | their own threads |
| Memory access | none | `thread_read_*`, `thread_write_*` 1206 | none |

The rest of the repository is measurement sketches, a serial client in Java by
another author, experiments with sound and I2C, backup files and vendored
binaries.

What is hard here:

* The processor is single, but interrupts arrive between any two instructions
  outside an `ATOMIC_BLOCK`, and `do_switch` ends with `reti`: **a thread that
  is dispatched runs with interrupts on although its caller is inside an
  `ATOMIC_BLOCK`**, so it can be pre-empted again before it returns.
* Times are `uint32_t` ticks and wrap around. A sleeper has a carry bit, the
  counter has another, stored only when the interrupted thread resumes.
* A blocked thread is woken by signals that may or may not count.
* Budgets are charged at every switch and a demotion is for good.
* Memory is used before it is assigned (`thmain->status`,
  `current_cost_ticks`).
* `ats_pending--` is interrupted by the loop it is part of.
* The early kernels protect themselves by `cli()` and `sei()`, which do not nest.

What makes each part correct:

* kernel: only a ready thread runs; no sleeper is overlooked; a thread loses
  its priority only for time the processor spent on it.
* threads: no signal is lost, none serves two jobs, jobs keep their distance,
  pending signals stay bounded, signals are served in the end.
* semaphores: blocked means listed, tokens are neither lost nor made, the one
  that waits gets in.
* queue: first in, first out.
* asynchronous signals: none is lost, each is handled.
* context: what is popped is what was pushed, for a thread that never ran too.
* sketches: what semaphores, signals, queues and `thread_remove` are used for
  there is what they do.

## The modules

| Module | Models |
|---|---|
| `RTKernel` | thread table, tick counter, `thread_yield`, timer interrupt, sleeping, blocking. No `Next`: programs are put on it |
| `RTThreads` | `periodic_pattern` and `thread_signal` on the kernel |
| `RTBudget` | RTThreads with a count, `ran`, of the ticks the processor was with each thread |
| `JobService` | abstract: what the threads promise, whatever the scheduler does |
| `RTSemaphores` | `P`, `V`, `free` on the kernel, with clients |
| `RTQueue` | the queue |
| `BoundedFifo` | abstract: the buffer a program expects of it |
| `RTATS` | the asynchronous signals, on the kernel |
| `RTContext` | `do_switch` and `thread_create` on stacks of bytes |
| `RTSketch` | a sketch: executors that are sequences of calls, on RTThreads, with `INSTANCE`s of RTSemaphores, RTQueue and RTATS on the same threads |
| `EarlySwitch` | the early kernels, on the list walk of RTKernel |
| `Sketches` | each sketch as a value: its threads in the order they are created, their parameters and calls; a behaviour runs one of them |
| `RTKernel_proofs` | lemmas on the operations of the kernel |
| `RTThreads_proofs`, `RTSemaphores_proofs`, `RTQueue_proofs`, `RTATS_proofs` | theorems on the parts of the library |
| `RTSketch_proofs`, `EarlySwitch_proofs` | theorems on programs: any sketch over the library, any threads over the early kernels |
| `Sketches_proofs` | that what these two say holds of every behaviour of `Sketches` |
| `MCThreads`, `MCBudget`, `MCSemaphores`, `MCATS`, `MCQueue`, `MCContext` | the values of the constants for TLC |

### Grain

Code in an `ATOMIC_BLOCK` up to the switch is one action. Code of a thread with
interrupts on is cut where it reads or writes shared state, so a tick or an
interrupt can fall between any two such accesses: the statements of
`periodic_pattern` from line 177 on are separate actions, with `pc[t]` saying
which is next.

`frames[t]` is the stack of calls thread `t` is suspended in. `Suspend` pushes
`"isr"` (the timer stopped it) or `"call"` (its own code called
`thread_yield`); `TimerInterruptReturn` and `YieldReturn` pop. A thread executes
its own code when its stack is empty (`Runs`). `TimerInterrupt` is enabled with
frames on the stack as well, which is the `reti` of `do_switch`, and the code
after the call of `thread_yield` (storing `tick_counter_previous`, line 897)
happens at the pop. The wait for a signal (lines 170-175) is inside an
`ATOMIC_BLOCK` of its own: when `thread_block` returns, the test of
`queue_pending` and the next block come with interrupts off, so `AwaitOver` and
`AwaitAgain` pop the last frame and act in one step.

`ThreadYield(st, wk, wc, li)` takes the statuses, timers, carries and last
inputs its caller has just written, and gives the state after the walk of the
list, the charge, the demotion and the switch. `thread_list` is the sequence of
the threads along `runq_next`; the walk visits every thread in it, the current
one last (`ScanPos`); who is visited where matters to the choice
among equal priorities only, so waking is a function on all of them at once and
`Candidate` picks the last walked of the highest priority, as the `>=` at line
718 does. The current thread is not among those it picks from: the walk passes
over it.

### From the code to the model

| Code | Model |
|---|---|
| `thread_yield` 672 | `ThreadYield`: `Awaken`, `CarryLeft` (688-702), `CatchUp` (703-716), `Candidate` (674-722), `ChargeCurrent` (725-728), `DemoteOverrun` (732-735) |
| `ISR(TIMER2_OVF_vect)` 881 | `TimerInterrupt`, `TimerInterruptReturn` |
| `tick_sleep` 854 | `TickSleep` |
| `thread_block`, `thread_unblock` | `ThreadBlock`, `ThreadUnblock` |
| `periodic_pattern` 155 | `Entry`, `SleepOffset`, `Proceed`, `Await`, `AwaitOver`, `AwaitAgain`, `Release`, `Reset`, `ExecutorEnds`, `Account`, `TestCost`, `SleepToNext`, `Decrement` |
| `thread_signal` 760 | `ThreadSignal` (`HasRoom`, `InTime`, `Counts`, `Stamps`), by an executor or an interrupt |
| `thread_semaphore_P`, `_V`, `_free` | `P`, `V`, `Free`, called by `Enter`, `Leave`, `WaitFor`, `Post`, `Delete`, `InterruptPosts` |
| `thread_ATS_signal`, `_enable`, `_disable` | `Signal` or `InterruptSignals`, `Enable`, `Disable`, each with its `YieldInCall` |
| `thread_start` 649, after `do_switch` | `Check`, `Test`, `Load`, `Store`, `Handle`, `Return`, one loop per frame |
| `thread_queue_nb_set_element`, `_get_element` | `Set`, `Get` |
| `do_switch` 535 | `Saves`, `ChangeHigh`, `Pops`, `GoesOn` |
| `thread_create` 385 | `NewStack`; the table it leaves is `KernelInit` |
| `thread_remove` 347 | `ThreadRemove` (`Linked`: the search; `Behind`: the unlinking), called by `Removes` |
| an executor of a sketch | `Body[t]`, performed by `Signals`, `Unblocks`, `Takes`, `Gives`, `Gets`, `Sets`, `Uses`, `Inputs`, `OnlyOnce`, `Enables`, `Disables`, `SignalsATS`, `Removes`, then `Ends` |
| `periodic_pattern` of `context_switch_2_0.ino` 163 | `Begins`, `SleepsOffset`, `IsReleased`, `Waits`, `Resets`, `Calls`, `Finishes`, `Charges`, `Tests`, `SleepsToNext` |
| its `thread_yield`, timer interrupt | `EarlyYield`, `TimerTicks`, `Returns`, `Stores` |

Where memory is read before it is assigned, the initial state is any of
`UninitTicks` and `UninitStatus`.

`ran` in `RTBudget` is a history variable: the program has no such count, and no
action reads it. It grows by one with each tick that finds the thread running and
is 0 again when the thread executes `current_cost_ticks=0`, so that
`current_cost_ticks`, kept by differences at each switch, has something to be held
against.

In `RTContext` a byte is named for what it was pushed as, so that popping the
wrong one shows. In `RTSketch` an executor is the sequence of its calls; between
two of them it can be preempted and take any time, so printing, computing and
`delay()` need no action. `Serial.available()` is a choice. The loop of
`thread_start` is left out in sketches where no thread enables the signals: it
would test `ats_active` and go on. The kernel of `context_switch_1_0.ino` is that
of `context_switch_2_0.ino` line by line. In `EarlySwitch` the interrupt flag
is a variable: a context comes back with interrupts off, and `sei()` at the end
of `thread_yield` turns them on, inside the timer interrupt as well (`Stores`).

## What TLC checks

| Run | Instance | Shows |
|---|---|---|
| `threads` | a periodic thread (priority 4, signals the other) and a sporadic one (priority 5, signalled by an interrupt too), 5 ticks, costs that start from 0 or from a word of the heap above both budgets | `RunningIsReady`, `NoLostSignal`, `JobHasSignal`, `DemotedOnlyAfterOverrun`, `CatchUpKeepsRoom`, and `ServiceSpec`: RTThreads implements JobService |
| `served` | a sporadic thread whose error handler never returns, signalled by an interrupt, above an aperiodic one that it signals; a counter that wraps for ever, arbitrary heap contents | `SignalServed`, `TypeOK`, `NoSleeperOverdue`, `QueueBound` |
| `semaphores` | two threads of different priority lock a semaphore, one of them and an interrupt post on a second one, a third thread waits on it and may free the first, all nap, 4 ticks | `TypeOK`, `BlockedIsListed`, `NoIdleToken`, `TokensConserved`, `NobodyWaitsForFreed` |
| `let_in` | three threads of one priority, two of which share a semaphore, counter modulo 2 | `LetIn` |
| `ats` | a thread signalled by itself and by an interrupt, three signals; time plays no part (`TickMod` 1) | `TypeOK`, `NoSignalLost`, `SignalsHandled` |
| `queue` | 3 elements, as many gets | `TypeOK`, `FifoSpec`: RTQueue implements BoundedFifo |
| `sketches` | 34 sketches on the library and 3 with a kernel of their own, each with the parameters it passes | `TokensAccounted`, `MutualExclusion`, `SignalsServedOnce`, `OwnSignalsHandled`, `StoredInOrder`, `RemovedStaysOut`; `JobsInterruptible`, `JobPerUnblock`, `NoJobTooEarly` of the early kernels |
| `first_dispatch` | two threads | violated, see below |
| `awake_after_wrap` | one sporadic thread that signals itself, a counter of 2 bits | violated, see below |
| `sleep_within_period` | as `threads` | violated, see below |
| `ats_once` | a thread signalled by another | violated, see below |
| `queue_lap` | as `queue`, one get more | violated, see below |

`NoSignalLost` and `SignalsHandled` suppose that no count ever goes below zero
(`WrapsBelowZero`). A thread preempted between the test of `ats_pending` and the
reading of it can find it taken by the nested loop; it then becomes 2^32-1, and
from there on the count says nothing of the signals: the next `++` takes it back
to zero and that signal is lost. Until then, a stale decrement loses none.

In `sketches`, `TokensAccounted` counts the calls the executors made and compares
them with the values of the semaphores, `SignalsServedOnce` the jobs with the
signals (a thread that is only unblocked, as in `..._sporadic_write`, does none;
one whose policies are SAVE serves every one), `StoredInOrder` the order of the
jobs that stored. `RemovedStaysOut` is about the sketch that removes a thread
which sleeps or is preempted: the list is that of the start without this thread,
in the order of creation, and the thread that runs is in it. There the thread
stands between two others; that the head is unlinked as well (the comment at line
345 says that it is not) is left to the theorem. `JobsInterruptible` has the first job of a thread of
`context_switch.ino` run with interrupts off: its first frame holds a zero status
register and no `sei()` is on its way.

`DemotedOnlyAfterOverrun` holds a demotion against `ran`: the processor was with
the thread for more than `MaxCost` ticks since the thread last set its cost to 0.
So a thread is charged for no other, and for each tick once, although a switch
and `get_current_cost_ticks()` both charge. The cost is set to 0 at the start of
`periodic_pattern` (162) and when a job is released; until the release the time
counted is that since the release before, as it is in the code. A thread that is
preempted before line 162 is charged on top of what `malloc()` left in
`current_cost_ticks`, and the code demotes it for that: the run reaches this
demotion, and the property, which leaves out a thread at `"entry"`, says nothing
of it.

The refinement of JobService maps `clock` to the tick counter, `backlog` to
`queue_pending`, `busy` to the threads between their release and the end of
their job, and `started` to the release time. A sporadic or periodic thread is
to start its jobs more than its period apart: this rests on the strict `<` of
line 698.

### Bounds

* `TickMod` stands for 2^32. In `served`, `let_in` and
  `awake_after_wrap` it is small and the clock runs for ever, so every wrap-around
  happens; in `served` periods are 0, and a signal is too early when it comes in the
  tick of the one before. In `ats` it is 1: a tick is an interruption and nothing else. In the
  others the clock stops at `LastTick`. In `threads`, five ticks are offset, two periods of
  one tick and an overrun of both budgets; in `semaphores`, four ticks are an
  offset and naps of one tick between two calls. Properties that compare times as
  numbers are checked there; they say "away from the wrap-around".
* `UninitTicks` is what `malloc()` may leave in `current_cost_ticks`: 0 and a
  value above both budgets in `threads`, every value of the counter in `served`.
* `MaxNest` bounds the calls a thread may be suspended in: 2 lets a thread be
  pre-empted while it returns from a switch. It is 1 in the liveness runs but
  `ats`, and in the sketches on the library.
* `PendingCap` stops signals: above every `QueueMax`+1 in use where the queue
  bound is checked. `ValueCap` stops posts
  on a semaphore that holds a token already.
* `SentCap` is the number of signals a thread is sent: with three, one arrives
  while another is being taken and a third in the nested loop. `handled`
  saturates one above it. `PendingMod` stands for 2^32. The sketches have
  `SentCap` 7 and `PendingMod` 8: more signals than their clock leaves time for.
* `MaxReads` in `queue` is the size of the queue, in `queue_lap` one more. The
  sketches stop there too, in a queue of two elements.
* In `Sketches` a tick is one second, times rounded up, and the clock of the
  library sketches stops at `LastTick` 4: an offset and two periods of one
  second. All from 5 s on is out of its reach. The early sketches have periods of
  0.1 s and 1 s: a tick is a twentieth of a second there, `EarlyTick` 8 and
  `EarlyNest` 2 give three periods of the faster thread with preemption in the
  return from a switch.

### Fairness

The timer does not stop and its flag stays up until it is served. Between two
ticks the processor executes about two thousand cycles, so a thread that is
dispatched again and again gets through the short stretch of code to its next
shared access: strong fairness of each thread's own steps and returns. An
executor ends. Nothing obliges an executor or an interrupt to signal, or an
error handler to return, and of `loop()` only `LetIn` supposes that it yields.
`SignalServed` supposes nothing of priorities: the thread above never yields, but
the walk passes over the thread that runs (718), so each tick takes the processor
from it for the best of the others, whether it was demoted or not (in this run it
never is). In `RTATS` each step of the loop is fair by itself, as the nested loop of a
thread is no progress of the outer one. `LetIn` supposes that a thread inside leaves.

### Where the code does not do what it says

* `StacksOk`: line 598 says "Aqui deberan de estar los stacks ok" (here the
  stacks should be all right). `do_switch` pops 35 bytes and a return address;
  the loop that reserved the 35 on a new stack is commented out (428), so the
  first dispatch of a thread pops its entry address into registers and returns
  to what lies behind its stack. `context_switch_2_0.ino` still has the loop. The
  other models suppose the dispatch the code means.
* `AwakeAfterWrap`: line 689 says "Overflow taken into consideration". A thread
  whose wake-up tick is 2^32-1, reached without a carry, is never woken: no
  value of the counter exceeds it.
* `SleepWithinPeriod`: line 213 says "It is safe". A job that ends after its
  next release time makes the difference negative, and the thread sleeps almost
  2^32 ticks.
* `NoSignalInvented`: line 653 says "if pending handlers, activate them". The
  loop runs with interrupts on and `ats_pending--` is not atomic: a tick in the
  middle lets the nested loop handle the signal the outer one then handles
  again, or takes the count below zero. Until it is below zero no signal is lost
  (`NoSignalLost`): before an outer loop overwrites a count that grew, a nested
  one has handled what was added.
* `GetsWhatWasSet`: the sketch `periodic_2_QUEUES_DOUBLE_READ` prints
  `DATA(!=0):` of a get that follows a set. `read_index` is never set back
  (line 1045 compares it with 0), so the get after the last element reads
  behind the queue.

## What is proved

All theorems hold for all constants that satisfy the assumptions of the modules,
which say what the declarations of the program say: Main is not one of the
created threads, every thread is in the list, parameters have the range of their
types, `TickMod` is positive. Those marked with a condition suppose more.

| Module | Theorem | States | Condition |
|---|---|---|---|
| `RTThreads_proofs` | `TypeCorrect` | `[]TypeOK` | |
| | `ReadyRuns` | `[]RunningIsReady` | |
| | `SleepersWake` | `[]NoSleeperOverdue` | |
| | `SignalsAreKept` | `[]NoLostSignal` | |
| | `JobsAreSignalled` | `[]JobHasSignal` | |
| | `QueueIsBounded` | `[]QueueBound` | |
| | `JobsAreServed` | `ServiceSpec`: RTThreads implements JobService | `LastTick < TickMod` |
| | `DemotionsAreDue` | `BudgetSpec => DemotedOnlyAfterOverrun` | |
| | `CatchUpIsSafe` | `CatchUpKeepsRoom` | `LastTick + 2 * Period[t] < TickMod` |
| `RTSemaphores_proofs` | `TypeCorrect` | `[]TypeOK` | |
| | `WaitersAreFound` | `[]BlockedIsListed` | |
| | `TokensAreUsed` | `[]NoIdleToken` | |
| | `TokensAreConserved` | `[]TokensConserved` | |
| | `FreeLeavesNobody` | `[]NobodyWaitsForFreed` | |
| `RTQueue_proofs` | `TypeCorrect` | `[]TypeOK` | |
| | `QueueIsFifo` | `FifoSpec`: RTQueue implements BoundedFifo | `MaxReads <= howmany` |
| `RTATS_proofs` | `TypeCorrect` | `[]TypeOK` | |
| | `SignalsAreKept` | `NoSignalLost` | (in the property) |
| `RTSketch_proofs` | `JobsAreSignalled` | `[]SignalsServedOnce` | `SketchParams` |
| | `TokensAreAccounted` | `[]TokensAccounted` | the same, `EarlyEndsHarmless`, `RemovedAreLeft` |
| | `LocksAreExclusive` | `[]MutualExclusion` | these three, `LocksPaired` |
| | `RemovedIsOut` | `[]RemovedStaysOut` | the first three |
| | `OwnSignalsAreHandled` | `[]OwnSignalsHandled` | `SketchParams`, `RemovedAreLeft`, `ListenersPeriodic` |
| | `StoredIsInOrder` | `[]StoredInOrder` | `SketchParams`, `OneSetter` |
| `EarlySwitch_proofs` | `JobsAreInterruptible` | `[]JobsInterruptible` | `EarlyParams` |
| | `UnblocksAreServed` | `[]JobPerUnblock` | `EarlyParams` |
| | `JobsAreDue` | `[]NoJobTooEarly` | `EarlyParams`, `LastTick < TickMod` |
| `Sketches_proofs` | `RunsAsRTSketch` | a behaviour that runs a sketch on the library is one of RTSketch | `Chosen` is one |
| | `RunsAsEarlySwitch` | one with a kernel of its own is one of EarlySwitch | `Chosen` is one |
| | `SketchTokens`, `SketchLocks`, `SketchSignals`, `SketchOwnSignals`, `SketchQueue`, `SketchRemoved` | `[](sketch = Chosen => ...)` of the six invariants of the library in `Sketches` | |
| | `EarlyInterrupts`, `EarlyUnblocks`, `EarlyTimes` | the same of the three of the early kernels | |

`LastTick < TickMod` is the time before the counter wraps, 6.4 days: `JobsAreServed`,
`CatchUpIsSafe`, `JobsAreDue` and `EarlyTimes` compare times as numbers, which says nothing across the
wrap-around. The other theorems hold whether the counter wraps or not.

The conditions of `RTSketch_proofs` and `EarlySwitch_proofs` are on programs, and
are operators of RTSketch and EarlySwitch:

* `SketchParams`, `EarlyParams`: bodies are sequences of calls with arguments of
  the right kind, semaphores are created with a count, queues are not empty.
* `EarlyEndsHarmless`: a body that `Serial.available()` may end early has no `P`,
  `V` or `thread_remove()` in it.
* `RemovedAreLeft`: a thread that is removed calls no `P`, and nobody signals or
  unblocks it. The library does not check either: `thread_signal()` of a removed
  thread writes to freed memory.
* `LocksPaired`: who uses a semaphore as a lock takes and gives it in turn.
* `ListenersPeriodic`: asynchronous signals are used among periodic threads only.
* `OneSetter`: one call in one thread sets the queue.

`Sketches` has each of them, and `LastTick < TickMod` of the early kernels, as an
`ASSUME` over all sketches, so TLC evaluates them for the 37 programs. Each
theorem states the invariant of RTSketch or EarlySwitch that the one of the same
name in `Sketches` asks of the program that runs. They say more than the run: for
any number of threads, calls, tokens and elements, any `MaxNest`, and a clock that
runs on.

**Programs.** `Sketches_proofs` brings them back to `Sketches`. Its theorems have
the form `Spec => [](sketch = Chosen => TokensAccounted)`, where `Chosen` is a
constant of which nothing is supposed. A state has one `sketch`, so together,
over all values of `Chosen`, they say that the invariant holds in every state of
every behaviour; the step from all values to `[]TokensAccounted` itself is
first-order reasoning inside a temporal formula, which the prover does not have.
`Sketches` takes the program as the parameter of an instance (`Runs(k)!...`), and
a theorem cannot be cited through such an instance. `Lib` and `Own` are the same
instances for `Chosen` alone, and `LibSketchInit`, `LibSketchNext`, ... show that
their definitions are those of `Runs(Chosen)` and `Switches(Chosen)`: with every
definition unfolded the two sides are the same formula. `KernelOfLibrary` and
`KernelOfEarly` go through the 37 programs to tell the two kinds apart, and
`LibraryHolds` and `EarlyHolds` get the conditions on `Chosen` from the two
`ASSUME`s. The constants `LastTick`, `MaxNest`, `EarlyTick` and `EarlyNest` are
any that make those true: any clock of the library sketches up to `TickMod`, of
the early ones up to their wrap-around, any nesting.

**Kernel.** `RTKernel_proofs` has what the others share. `RunningIsReady` is a
property of the choice at the end of `ThreadYield`, which depends on the table
its caller wrote: `CandidateIsReady` and `YieldType` show it, and that the types
survive, for any well-typed table, and a lemma for each operation of the kernel
(`TimerType`, `TickSleepType`, `BlockType`, `UnblockType`, ...) instantiates them
with the table that operation writes. `YieldWakes` says that a walk of the list
leaves no sleeper overdue and blocks nobody its caller did not block.

**Threads.** A thread blocks itself only at the head of its loop with nothing
pending, so `NoLostSignal` holds after every `ThreadBlock`; after that only a
signal counts, and it wakes the thread. The decrement at the end of a job keeps
the count from going negative because the job's own signal is still in it, which
is `JobHasSignal`; `QueueBound` needs the count not to be negative. The
invariants need each other, and the inductive one is

    IInv == TypeOK /\ RunningIsReady /\ Signals
    Signals == NoSleeperOverdue /\ NoLostSignal /\ JobHasSignal /\ QueueBound

`SafeStep` proves it action by action (`PatternStep`, `SignalStep`, `SameSignals`
for the steps that touch no signal).

**Service.** On top of `IInv`, until the counter wraps:

    UntilWrap == Clock /\ \A t \in Threads : Timed(t) /\ Rested(t)

`Clock`: `tick_counter_last_cost` is the present and there is no carry. `Timed`: a
release is in the past, and not later than the end of the job. `Rested`: a thread
on its way to its next job has waited its period, or still sleeps with a timer
that covers it; here the strict `<` of line 698 is needed, and it is what makes
jobs more than a period apart. `StepServes` maps each step to one of JobService or
a stutter. `CatchUpIsSafe` adds `Pasts`, that no
`queue_last_input` is in the future.

**Budgets.** `CInv == TypeOK /\ RunningIsReady /\ Charged`, whatever the counter
does: every tick yields and every yield charges, so `tick_counter_last_cost` is
always the present, what a switch charges is the tick that just came or nothing,
and the thread it is charged to is the one that ran (`ChargesTick`). So from its
first `current_cost_ticks=0` on, the cost of a thread is at most `ran`, and
`DemotionsAreDue` supposes nothing of the heap or of the wrap-around.

**Semaphores.** `IInv == Core /\ Users`. `Core` is about the library alone: that V
finds those whom P blocked needs `BlockedIsListed`, that it hands on a token only
when none is left needs `NoIdleToken`, and neither is inductive without the
other. `Users` is about the clients: the tokens of a lock are counted over the
threads inside, and a thread that waits for it is one of them (`WaitersAreInside`).

**Queue.** `IInv == TypeOK /\ Ends`, where `Ends` says that the write index is
where the stored elements end, `(read_index + stored) % howmany`. From it, a get
takes the head of the sequence `Inside` and a set appends to it.

**Asynchronous signals.** What is decremented is the value that was read, which may
be stale. The invariant says of each thread that one which is away has a new loop
on top (`Away`), that the loops below it take signals (`Busy`) that were sent
(`Sent`), that a value that was read covers what is not yet taken (`Read`), and
that a loop that is over leaves nothing to take (`Over`). It is inductive as long
as no count goes below zero.

**Sketches.** A call of an executor changes its body counters, the table of the
kernel and one of the parts; the proofs share the lemmas that say what the
kernel's calls leave alone. Four invariants stand on `BodyTypeOK`, where the
executors are:

* `ServedInv`: jobs that are served and signals that are pending make up the
  signals sent (at most these, without SAVE), and a thread in a job has one
  pending, which is what its decrement takes.
* `BlockedInv`: the thread that runs is ready, and who waits for a semaphore is
  `SEM_BLOCKED`; so nobody who performs a call is waiting, and `P` and `V` change
  one side of `TokensAccounted` by what they change the other. `AccountInv` has
  the finiteness of the sets counted. It also has what the list needs: the threads
  in it are in the order of creation, who runs or waits for a semaphore is in it,
  and none is in it twice, so unlinking one place takes out one thread
  (`DropOne`, `Without`).
* `RemovedInv`: the list holds all threads but those `thread_remove()` was called
  for. The walk looks nowhere else, so they never run again.
* `LockInv`: the value of a lock is 0 or 1, it is 0 while a thread holds it, at
  most one does, and those who wait are inside their P and V. No step alone
  shows mutual exclusion: the token that `V` hands over goes to a waiter, which
  must be known to be inside and not to hold it yet.
* `OwnInv`: each thread has a loop of `thread_start()` for each frame, and a
  pending signal of a thread that alone signals itself has one of them in front
  of it that has not found the count zero. A thread back in its own code has no
  frame left, hence no signal.

`QueueInv` is about the ring: the write index is where the stored elements end,
they increase, and none is past the last set of the thread that sets. It rests on
the lemmas of `RTQueue_proofs` about indices modulo the size.

**Early kernels.** `ProcessorInv` says that interrupts are on exactly when the
processor is outside the calls that turned them off (`Unprotected`), which needs
what lies on every stack: only the top frame can be a switch, all below it are
interrupts about to store (`Suspended`), and a thread that never ran has no
frame (`Visits` has the path of each version through the code). `ServiceInv`
pays each unblock of a blocked thread with a job: it owes one from the unblock to
the end of the executor. `DueInv` is the argument for time: a thread not yet due
sleeps with a timer that is not before its release (`Due`), and one past its
executor was due when it ended (`Lasted`), so the next release time and the sleep
add up.

**Only model-checked**: the liveness properties `SignalServed`, `LetIn` and
`SignalsHandled` (ENABLED and fairness are out of the prover's reach). The five
violations are found by TLC alone. Induction over data is out of the prover's
reach as well; the theorems need none.

## What is left out, and why

* Creation of threads while the timer runs, and a thread that removes itself (it
  would go on on a freed stack): no sketch does either. That freed memory is used
  again: `thread_remove` leaves the record as it was, and nothing reads it. `thread_create` before the start is the initial state.
* The first dispatch, outside `RTContext`: the other models suppose that it
  reaches the entry function.
* The moment inside `do_switch` when interrupts are on and registers are still on
  the stack: the switch is one step, `RTContext` has no timer.
* Torn reads of the 32-bit counter: a read of it is one access here.
* `queue_pending` of a periodic thread: it is decremented and never read.
* The size of a stack: the nesting is bounded by `MaxNest` and nothing counts
  bytes.
* ATS in `RTThreads` and `RTSemaphores`: `ats_active` is 0 there, so the loop in
  `thread_start` does nothing and a return from `thread_yield` is one step.
  `RTSketch` puts the two together.
* What an error handler does besides returning or looping. In
  `periodic_2_1SEMAPHORE_2Prate_BAD` it writes the shared value without the
  semaphore (line 63): `MutualExclusion` is about the executors.
* `malloc` returning NULL, and NULL given to `thread_ATS_signal`.
* What the sketches print, and the values that they share without protection.
* The performance sketches: they time one call after the other and loop for ever
  before `threads_subsystem_start()`, so none of their threads ever runs.
* `Network.java`: third-party code for the host.
* Memory access by address, the use case at the end of `rtthreads.cpp`, the
  ChibiOS and FreeRTOS measurements, sound, LED and I2C sketches: no state of the
  library, or no use of it.
