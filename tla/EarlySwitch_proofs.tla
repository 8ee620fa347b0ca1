------------------------- MODULE EarlySwitch_proofs -------------------------
(***************************************************************************)
(* What TLC checks on the early sketches, proved for every set of threads  *)
(* with parameters like theirs.                                            *)
(***************************************************************************)
EXTENDS EarlySwitch, RTKernel_proofs, TLAPS

EarlyPCs == {"entry", "offset", "release", "top", "reset", "exec", "charge",
             "test", "sleep", "spin"}
Nested == {"call", "isr", "store"}

TableTypeOK ==
  /\ thread_list \in Seq(All)
  /\ current_thread \in All
  /\ status \in [All -> Status]
  /\ ticks_to_wait \in [All -> Ticks]
  /\ carry_ticks_to_wait \in [All -> {0, 1}]

EarlyClockTypeOK == global_tick \in Ticks /\ tick_counter_previous \in Ticks

FramesTypeOK == frames \in [All -> Seq(Nested)] /\ interrupts \in BOOLEAN

EarlyPatternTypeOK ==
  /\ pc \in [Threads -> EarlyPCs]
  /\ thread_counter_us \in [Threads -> Ticks]
  /\ ticks_aux \in [Threads -> Ticks]
  /\ at \in [Threads -> Nat \ {0}]
  /\ jobs \in [Threads -> Nat]
  /\ signals \in [Threads -> Nat]

SystemTypeOK == TableTypeOK /\ EarlyClockTypeOK /\ FramesTypeOK
EarlyTypeOK  == SystemTypeOK /\ EarlyPatternTypeOK

(* The processor is handed on, to a thread that may have it.               *)
Hands(frame) ==
  /\ frames' = [frames EXCEPT ![current_thread] = <<frame>> \o @]
  /\ interrupts' = FALSE
  /\ RunningIsReady'
  /\ current_thread' = Main \/ current_thread' # current_thread

Blocked == {t \in All : status[t] = BLOCKED}

-----------------------------------------------------------------------------
(* What thread_yield() leaves behind, called with a table its caller made. *)
LEMMA YieldsType ==
  ASSUME TableTypeOK, FramesTypeOK,
         NEW STATE st, st \in [All -> Status],
         NEW STATE wk, wk \in [All -> Ticks],
         NEW STATE wc, wc \in [All -> {0, 1}],
         NEW f \in Nested,
         EarlyYield(st, wk, wc, f)
  PROVE  /\ TableTypeOK' /\ FramesTypeOK' /\ Hands(f)
         /\ Blocked' = {t \in All : st[t] = BLOCKED}
<1> USE DEF TableTypeOK
<1>1. current_thread' = Main \/ current_thread' \in Eligible(status')
  BY CandidateIsReady DEF EarlyYield
<1>2. /\ current_thread' \in All /\ RunningIsReady'
      /\ current_thread' = Main \/ current_thread' # current_thread
  BY <1>1, LinkedAreThreads DEF Eligible, All, RunningIsReady
<1>3. ASSUME NEW t \in All
      PROVE  /\ Awaken(st, wk, wc, t) \in Status
             /\ Awaken(st, wk, wc, t) = BLOCKED <=> st[t] = BLOCKED
             /\ CarryLeft(st, wc, t) \in {0, 1}
  BY DEF Awaken, CarryLeft, Status, SLEPT, ACTIVE, BLOCKED
<1>4. /\ status' = [t \in All |-> Awaken(st, wk, wc, t)]
      /\ carry_ticks_to_wait' = [t \in All |-> CarryLeft(st, wc, t)]
      /\ ticks_to_wait' = wk
  BY DEF EarlyYield
<1>5. TableTypeOK' /\ Blocked' = {t \in All : st[t] = BLOCKED}
  BY <1>2, <1>3, <1>4 DEF Blocked, EarlyYield
<1>6. FramesTypeOK'
  <2>1. <<f>> \o frames[current_thread] \in Seq(Nested)
    BY DEF FramesTypeOK
  <2> QED BY <2>1 DEF EarlyYield, Suspend, FramesTypeOK
<1>7. Hands(f)
  BY <1>2 DEF Hands, EarlyYield, Suspend
<1> QED BY <1>5, <1>6, <1>7

LEMMA SleepsType ==
  ASSUME SystemTypeOK, NEW STATE n, n \in Int, Sleeps(n)
  PROVE  /\ SystemTypeOK' /\ Hands("call") /\ UNCHANGED clockVars
         /\ Blocked' = Blocked \ {current_thread}
<1> DEFINE st == [status EXCEPT ![current_thread] = SLEPT]
           wk == [ticks_to_wait EXCEPT
                    ![current_thread] = (n + global_tick) % TickMod]
           wc == [carry_ticks_to_wait EXCEPT
                    ![current_thread] = IF global_tick > wk[current_thread]
                                        THEN 1 ELSE 0]
<1>0. TableTypeOK /\ EarlyClockTypeOK /\ FramesTypeOK
  BY DEF SystemTypeOK
<1>1. /\ st \in [All -> Status]
      /\ {t \in All : st[t] = BLOCKED} = Blocked \ {current_thread}
  BY <1>0 DEF TableTypeOK, Status, SLEPT, BLOCKED, Blocked
<1>2. wk \in [All -> Ticks]
  <2>1. n + global_tick \in Int
    BY <1>0, TicksAreInts DEF EarlyClockTypeOK
  <2>2. (n + global_tick) % TickMod \in Ticks
    BY <2>1, ModIsTick
  <2> QED BY <1>0, <2>2 DEF TableTypeOK
<1>3. wc \in [All -> {0, 1}]
  BY <1>0 DEF TableTypeOK
<1>4. UNCHANGED clockVars /\ EarlyYield(st, wk, wc, "call")
  BY DEF Sleeps
<1>5. "call" \in Nested
  BY DEF Nested
<1> HIDE DEF st, wk, wc
<1>6. /\ TableTypeOK' /\ FramesTypeOK' /\ Hands("call")
      /\ Blocked' = {t \in All : st[t] = BLOCKED}
  BY <1>0, <1>1, <1>2, <1>3, <1>4, <1>5, YieldsType
<1>7. EarlyClockTypeOK'
  BY <1>0, <1>4 DEF EarlyClockTypeOK, clockVars
<1> QED BY <1>1, <1>4, <1>6, <1>7 DEF SystemTypeOK

LEMMA BlocksType ==
  ASSUME SystemTypeOK, Blocks
  PROVE  /\ SystemTypeOK' /\ Hands("call") /\ UNCHANGED clockVars
         /\ Blocked' = Blocked \union {current_thread}
<1> DEFINE st == [status EXCEPT ![current_thread] = BLOCKED]
<1>0. TableTypeOK /\ EarlyClockTypeOK /\ FramesTypeOK
  BY DEF SystemTypeOK
<1>1. /\ st \in [All -> Status]
      /\ {t \in All : st[t] = BLOCKED} = Blocked \union {current_thread}
  BY <1>0 DEF TableTypeOK, Status, Blocked
<1>2. /\ UNCHANGED clockVars
      /\ EarlyYield(st, ticks_to_wait, carry_ticks_to_wait, "call")
      /\ "call" \in Nested
      /\ ticks_to_wait \in [All -> Ticks]
      /\ carry_ticks_to_wait \in [All -> {0, 1}]
  BY <1>0 DEF Blocks, Nested, TableTypeOK
<1> HIDE DEF st
<1>3. /\ TableTypeOK' /\ FramesTypeOK' /\ Hands("call")
      /\ Blocked' = {t \in All : st[t] = BLOCKED}
  BY <1>0, <1>1, <1>2, YieldsType
<1>4. EarlyClockTypeOK'
  BY <1>0, <1>2 DEF EarlyClockTypeOK, clockVars
<1> QED BY <1>1, <1>2, <1>3, <1>4 DEF SystemTypeOK

LEMMA UnblocksType ==
  ASSUME SystemTypeOK, NEW STATE th, th \in Threads, Unblocks(th)
  PROVE  /\ SystemTypeOK' /\ UNCHANGED clockVars
         /\ Blocked' = Blocked \ {th}
         /\ \/ /\ th \in Blocked /\ Hands("call")
               /\ signals' = [signals EXCEPT ![th] = @ + 1]
            \/ /\ th \notin Blocked /\ interrupts' = TRUE
               /\ UNCHANGED <<thread_list, current_thread, status, timerVars,
                              frames, signals>>
<1> DEFINE st == [status EXCEPT ![th] = ACTIVE]
<1>0. /\ TableTypeOK /\ EarlyClockTypeOK /\ FramesTypeOK /\ th \in All
      /\ UNCHANGED clockVars
  BY DEF SystemTypeOK, All, Unblocks
<1>1. CASE status[th] = BLOCKED
  <2>1. /\ st \in [All -> Status]
        /\ {t \in All : st[t] = BLOCKED} = Blocked \ {th}
    BY <1>0 DEF TableTypeOK, Status, Blocked, ACTIVE, BLOCKED
  <2>2. /\ EarlyYield(st, ticks_to_wait, carry_ticks_to_wait, "call")
        /\ signals' = [signals EXCEPT ![th] = @ + 1]
        /\ "call" \in Nested
        /\ ticks_to_wait \in [All -> Ticks]
        /\ carry_ticks_to_wait \in [All -> {0, 1}]
    BY <1>0, <1>1 DEF Unblocks, Nested, TableTypeOK
  <2> HIDE DEF st
  <2>3. /\ TableTypeOK' /\ FramesTypeOK' /\ Hands("call")
        /\ Blocked' = {t \in All : st[t] = BLOCKED}
    BY <1>0, <2>1, <2>2, YieldsType
  <2>4. EarlyClockTypeOK'
    BY <1>0 DEF EarlyClockTypeOK, clockVars
  <2> QED BY <1>0, <1>1, <2>1, <2>2, <2>3, <2>4 DEF SystemTypeOK, Blocked
<1>2. CASE status[th] # BLOCKED
  <2>1. /\ interrupts' = TRUE
        /\ UNCHANGED <<thread_list, current_thread, status, timerVars, frames,
                       signals>>
    BY <1>2 DEF Unblocks
  <2> QED BY <1>0, <1>2, <2>1 DEF SystemTypeOK, TableTypeOK, FramesTypeOK,
                                  EarlyClockTypeOK, clockVars, timerVars,
                                  Blocked
<1> QED BY <1>1, <1>2

LEMMA TimerTicksType ==
  ASSUME SystemTypeOK, TimerTicks
  PROVE  SystemTypeOK' /\ Hands("isr") /\ Blocked' = Blocked
<1>0. TableTypeOK /\ EarlyClockTypeOK /\ FramesTypeOK
  BY DEF SystemTypeOK
<1>1. /\ EarlyYield(status, ticks_to_wait, carry_ticks_to_wait, "isr")
      /\ "isr" \in Nested
      /\ status \in [All -> Status]
      /\ ticks_to_wait \in [All -> Ticks]
      /\ carry_ticks_to_wait \in [All -> {0, 1}]
  BY <1>0 DEF TimerTicks, Nested, TableTypeOK
<1>2. TableTypeOK' /\ FramesTypeOK' /\ Hands("isr") /\ Blocked' = Blocked
  BY <1>0, <1>1, YieldsType DEF Blocked
<1>3. EarlyClockTypeOK'
  <2>1. global_tick + 1 \in Int
    BY <1>0, TicksAreInts DEF EarlyClockTypeOK
  <2>2. (global_tick + 1) % TickMod \in Ticks
    BY <2>1, ModIsTick
  <2> QED BY <1>0, <2>2 DEF TimerTicks, EarlyClockTypeOK
<1> QED BY <1>2, <1>3 DEF SystemTypeOK

LEMMA MainYieldsType ==
  ASSUME SystemTypeOK, MainYields
  PROVE  /\ SystemTypeOK' /\ Hands("call") /\ UNCHANGED clockVars
         /\ Blocked' = Blocked
<1>0. TableTypeOK /\ EarlyClockTypeOK /\ FramesTypeOK
  BY DEF SystemTypeOK
<1>1. /\ EarlyYield(status, ticks_to_wait, carry_ticks_to_wait, "call")
      /\ UNCHANGED clockVars
      /\ "call" \in Nested
      /\ status \in [All -> Status]
      /\ ticks_to_wait \in [All -> Ticks]
      /\ carry_ticks_to_wait \in [All -> {0, 1}]
  BY <1>0 DEF MainYields, Nested, TableTypeOK
<1>2. TableTypeOK' /\ FramesTypeOK' /\ Hands("call") /\ Blocked' = Blocked
  BY <1>0, <1>1, YieldsType DEF Blocked
<1>3. EarlyClockTypeOK'
  BY <1>0, <1>1 DEF EarlyClockTypeOK, clockVars
<1> QED BY <1>1, <1>2, <1>3 DEF SystemTypeOK

(* The way back from thread_yield(): what Returns and Stores do.           *)
LEMMA ReturnsType ==
  ASSUME SystemTypeOK, Returns \/ Stores
  PROVE  /\ SystemTypeOK'
         /\ UNCHANGED <<thread_list, current_thread, status, timerVars,
                        global_tick, carry_tick_counter, patternVars>>
<1>0. TableTypeOK /\ EarlyClockTypeOK /\ FramesTypeOK
  BY DEF SystemTypeOK
<1>1. /\ UNCHANGED <<thread_list, current_thread, status, timerVars,
                     global_tick, carry_tick_counter, patternVars>>
      /\ tick_counter_previous' \in {tick_counter_previous, global_tick}
      /\ interrupts' \in {TRUE, interrupts}
  BY DEF Returns, Stores, clockVars
<1>2. frames' \in [All -> Seq(Nested)]
  <2>1. /\ frames[current_thread] \in Seq(Nested)
        /\ frames[current_thread] # <<>>
    BY <1>0 DEF FramesTypeOK, TableTypeOK, Returns, Stores, Innermost
  <2>2. /\ Tail(frames[current_thread]) \in Seq(Nested)
        /\ <<"store">> \o Tail(frames[current_thread]) \in Seq(Nested)
    BY <2>1 DEF Nested
  <2> QED BY <1>0, <2>2 DEF FramesTypeOK, Returns, Stores
<1>3. TableTypeOK' /\ EarlyClockTypeOK'
  BY <1>0, <1>1 DEF TableTypeOK, EarlyClockTypeOK, timerVars
<1> QED BY <1>0, <1>1, <1>2, <1>3 DEF SystemTypeOK, FramesTypeOK

-----------------------------------------------------------------------------
(* The steps of a thread.  Local ones do not yield.                        *)
Alone(t) ==
  /\ Runs(t)
  /\ \A u \in Threads \ {t} :
       /\ pc'[u] = pc[u] /\ at'[u] = at[u] /\ jobs'[u] = jobs[u]
       /\ thread_counter_us'[u] = thread_counter_us[u]
       /\ ticks_aux'[u] = ticks_aux[u]

Local(t) ==
  \/ Begins(t) \/ IsReleased(t) \/ Resets(t) \/ Finishes(t) \/ Charges(t)
  \/ Tests(t)

Acts(t) ==
  Local(t) \/ SleepsOffset(t) \/ Waits(t) \/ Calls(t) \/ SleepsToNext(t)

Keeps == UNCHANGED <<thread_list, current_thread, status, timerVars, frames,
                     clockVars>>

LEMMA KeepsType ==
  ASSUME SystemTypeOK, Keeps, interrupts' \in BOOLEAN
  PROVE  SystemTypeOK' /\ Blocked' = Blocked
BY DEF SystemTypeOK, TableTypeOK, EarlyClockTypeOK, FramesTypeOK, Keeps,
       clockVars, timerVars, Blocked

LEMMA LocalType ==
  ASSUME EarlyTypeOK, NEW t \in Threads, Local(t)
  PROVE  /\ EarlyTypeOK' /\ Alone(t) /\ Keeps /\ UNCHANGED signals
         /\ Blocked' = Blocked
<1>0. SystemTypeOK /\ EarlyPatternTypeOK
  BY DEF EarlyTypeOK
<1>1. global_tick \in Ticks
  BY <1>0 DEF SystemTypeOK, EarlyClockTypeOK
<1>2. Keeps /\ UNCHANGED signals /\ interrupts' \in {TRUE, interrupts}
  BY DEF Local, Begins, IsReleased, Resets, Finishes, Charges, Tests, GetsCost,
         kernelVars, costVars, Keeps, clockVars, timerVars
<1>3. interrupts \in BOOLEAN
  BY <1>0 DEF SystemTypeOK, FramesTypeOK
<1>4. SystemTypeOK' /\ Blocked' = Blocked
  BY <1>0, <1>2, <1>3, KeepsType
<1>5. \E p \in EarlyPCs : GoTo(t, p)
  BY DEF Local, Begins, IsReleased, Resets, Finishes, Charges, Tests, EarlyPCs
<1>6. /\ thread_counter_us' \in
           {thread_counter_us, [thread_counter_us EXCEPT ![t] = global_tick]}
      /\ ticks_aux' \in {ticks_aux, [ticks_aux EXCEPT ![t] = global_tick]}
      /\ at' \in {at, [at EXCEPT ![t] = 1]}
      /\ jobs' \in {jobs, [jobs EXCEPT ![t] = @ + 1]}
  BY DEF Local, Begins, IsReleased, Resets, Finishes, Charges, Tests
<1>7. EarlyPatternTypeOK'
  BY <1>0, <1>1, <1>2, <1>5, <1>6 DEF EarlyPatternTypeOK, GoTo
<1>8. Alone(t)
  <2>1. Runs(t)
    BY DEF Local, Begins, IsReleased, Resets, Finishes, Charges, Tests, At
  <2> QED BY <1>0, <1>5, <1>6, <2>1 DEF EarlyPatternTypeOK, Alone, GoTo
<1> QED BY <1>2, <1>4, <1>7, <1>8 DEF EarlyTypeOK

(* Those that sleep.                                                       *)
LEMMA SleepersType ==
  ASSUME EarlyParams, EarlyTypeOK, NEW t \in Threads,
         SleepsOffset(t) \/ SleepsToNext(t)
  PROVE  /\ EarlyTypeOK' /\ Alone(t) /\ Hands("call")
         /\ UNCHANGED <<clockVars, jobs, signals>>
         /\ Blocked' = Blocked \ {t}
<1>0. SystemTypeOK /\ EarlyPatternTypeOK
  BY DEF EarlyTypeOK
<1>1. Runs(t) /\ current_thread = t
  BY DEF SleepsOffset, SleepsToNext, At, Runs
<1>2. /\ Period[t] \in Ticks /\ Offset[t] \in Ticks
      /\ thread_counter_us[t] \in Ticks /\ ticks_aux[t] \in Ticks
  BY <1>0, ParamsAssumption DEF EarlyPatternTypeOK, EarlyParams
<1>3. /\ (thread_counter_us[t] + Period[t]) % TickMod \in Ticks
      /\ (thread_counter_us[t] + Period[t] - ticks_aux[t]) % TickMod \in Ticks
  <2>1. /\ thread_counter_us[t] + Period[t] \in Int
        /\ thread_counter_us[t] + Period[t] - ticks_aux[t] \in Int
    BY <1>2, TicksAreInts
  <2> QED BY <2>1, ModIsTick
<1>4. PICK n \in Ticks : Sleeps(n)
  BY <1>2, <1>3 DEF SleepsOffset, SleepsToNext
<1>5. n \in Int
  BY <1>4, TicksAreInts
<1>6. /\ SystemTypeOK' /\ Hands("call") /\ UNCHANGED clockVars
      /\ Blocked' = Blocked \ {t}
  BY <1>0, <1>1, <1>4, <1>5, SleepsType
<1>7. /\ \E p \in EarlyPCs : GoTo(t, p)
      /\ \/ thread_counter_us' = thread_counter_us
         \/ thread_counter_us' = [thread_counter_us EXCEPT ![t] =
              (thread_counter_us[t] + Period[t]) % TickMod]
      /\ UNCHANGED <<ticks_aux, at, jobs, signals>>
  BY DEF SleepsOffset, SleepsToNext, EarlyPCs
<1>8. EarlyPatternTypeOK'
  BY <1>0, <1>3, <1>7 DEF EarlyPatternTypeOK, GoTo
<1>9. Alone(t)
  BY <1>0, <1>1, <1>7 DEF EarlyPatternTypeOK, GoTo, Alone
<1> QED BY <1>6, <1>7, <1>8, <1>9 DEF EarlyTypeOK

(* The head of the loop, where only an event-driven thread blocks.         *)
LEMMA WaitsType ==
  ASSUME EarlyTypeOK, NEW t \in Threads, Waits(t)
  PROVE  /\ EarlyTypeOK' /\ Alone(t) /\ pc[t] = "top" /\ pc'[t] = "reset"
         /\ UNCHANGED <<clockVars, jobs, signals>>
         /\ thread_counter_us' = thread_counter_us
         /\ \/ /\ t \in EventDriven /\ Hands("call")
               /\ Blocked' = Blocked \union {t}
            \/ /\ t \notin EventDriven /\ Keeps /\ UNCHANGED interrupts
               /\ Blocked' = Blocked
<1>0. SystemTypeOK /\ EarlyPatternTypeOK
  BY DEF EarlyTypeOK
<1>1. /\ Runs(t) /\ current_thread = t /\ pc[t] = "top" /\ GoTo(t, "reset")
      /\ UNCHANGED <<thread_counter_us, ticks_aux, at, jobs, signals>>
  BY DEF Waits, At, Runs
<1>2. EarlyPatternTypeOK' /\ pc'[t] = "reset"
  BY <1>0, <1>1 DEF EarlyPatternTypeOK, GoTo, EarlyPCs
<1>3. Alone(t)
  BY <1>0, <1>1 DEF EarlyPatternTypeOK, GoTo, Alone
<1>4. CASE t \in EventDriven
  <2>1. /\ SystemTypeOK' /\ Hands("call") /\ UNCHANGED clockVars
        /\ Blocked' = Blocked \union {t}
    BY <1>0, <1>1, <1>4, BlocksType DEF Waits
  <2> QED BY <1>1, <1>2, <1>3, <1>4, <2>1 DEF EarlyTypeOK
<1>5. CASE t \notin EventDriven
  <2>1. Keeps /\ UNCHANGED interrupts
    BY <1>5 DEF Waits, kernelVars, Keeps, clockVars, timerVars
  <2>2. SystemTypeOK' /\ Blocked' = Blocked
    BY <1>0, <2>1, KeepsType DEF SystemTypeOK, FramesTypeOK
  <2> QED BY <1>1, <1>2, <1>3, <1>5, <2>1, <2>2 DEF EarlyTypeOK, Keeps
<1> QED BY <1>4, <1>5

(* A call of an executor.                                                  *)
LEMMA CallsType ==
  ASSUME EarlyParams, EarlyTypeOK, NEW t \in Threads, Calls(t)
  PROVE  /\ EarlyTypeOK' /\ Alone(t) /\ Version = "second" /\ pc[t] = "exec"
         /\ UNCHANGED <<pc, jobs, thread_counter_us, clockVars>>
         /\ \/ /\ Keeps /\ interrupts' = TRUE
               /\ UNCHANGED signals /\ Blocked' = Blocked
            \/ \E th \in Blocked \intersect Threads :
                 /\ Hands("call") /\ Blocked' = Blocked \ {th}
                 /\ signals' = [signals EXCEPT ![th] = @ + 1]
                 /\ Unblocks(th)
<1>0. SystemTypeOK /\ EarlyPatternTypeOK
  BY DEF EarlyTypeOK
<1> DEFINE call == Body[t][at[t]]
<1>1. /\ Runs(t) /\ pc[t] = "exec" /\ at[t] <= Len(Body[t])
      /\ at' = [at EXCEPT ![t] = @ + 1]
      /\ UNCHANGED <<pc, thread_counter_us, ticks_aux, jobs>>
      /\ \/ call[1] = "unblock" /\ Unblocks(call[2])
         \/ call[1] = "cost" /\ GetsCost /\ UNCHANGED signals
  BY DEF Calls, At
<1>2. /\ call \in ({"unblock"} \X Threads) \union {<<"cost">>}
      /\ Version = "second"
  <2>1. /\ Body[t] \in Seq(({"unblock"} \X Threads) \union {<<"cost">>})
        /\ at[t] \in Nat \ {0}
    BY <1>0 DEF EarlyParams, EarlyPatternTypeOK
  <2>2. at[t] \in 1 .. Len(Body[t])
    BY <1>1, <2>1
  <2>3. call \in ({"unblock"} \X Threads) \union {<<"cost">>}
    BY <2>1, <2>2
  <2>4. Body[t] # <<>>
    BY <2>1, <2>2
  <2> QED BY <2>3, <2>4 DEF EarlyParams
<1>3. Alone(t)
  BY <1>0, <1>1 DEF EarlyPatternTypeOK, Alone
<1>4. ASSUME signals' \in [Threads -> Nat]
      PROVE  EarlyPatternTypeOK'
  <2>1. at[t] + 1 \in Nat \ {0}
    BY <1>0 DEF EarlyPatternTypeOK
  <2>2. at' \in [Threads -> Nat \ {0}]
    BY <1>0, <1>1, <2>1 DEF EarlyPatternTypeOK
  <2> QED BY <1>0, <1>1, <1>4, <2>2 DEF EarlyPatternTypeOK
<1>5. CASE call[1] = "unblock" /\ Unblocks(call[2])
  <2>1. call[2] \in Threads
    BY <1>2, <1>5
  <2> DEFINE th == call[2]
  <2>2. /\ SystemTypeOK' /\ UNCHANGED clockVars
        /\ Blocked' = Blocked \ {th}
        /\ \/ /\ th \in Blocked /\ Hands("call")
              /\ signals' = [signals EXCEPT ![th] = @ + 1]
           \/ /\ th \notin Blocked /\ interrupts' = TRUE
              /\ UNCHANGED <<thread_list, current_thread, status, timerVars,
                             frames, signals>>
    BY <1>0, <1>5, <2>1, UnblocksType
  <2>3. signals' \in [Threads -> Nat]
    BY <1>0, <2>1, <2>2 DEF EarlyPatternTypeOK
  <2>4. EarlyTypeOK'
    BY <1>4, <2>2, <2>3 DEF EarlyTypeOK
  <2>5. th \in Threads /\ Unblocks(th)
    BY <1>5, <2>1
  <2> HIDE DEF th
  <2>6. CASE th \in Blocked
    <3>1. /\ th \in Blocked \intersect Threads /\ Hands("call")
          /\ Blocked' = Blocked \ {th}
          /\ signals' = [signals EXCEPT ![th] = @ + 1]
          /\ Unblocks(th)
      BY <2>2, <2>5, <2>6
    <3>2. \E x \in Blocked \intersect Threads :
            /\ Hands("call") /\ Blocked' = Blocked \ {x}
            /\ signals' = [signals EXCEPT ![x] = @ + 1]
            /\ Unblocks(x)
      BY <3>1
    <3> QED BY <1>1, <1>2, <1>3, <2>2, <2>4, <3>2
  <2>7. CASE th \notin Blocked
    <3>1. Keeps /\ interrupts' = TRUE /\ UNCHANGED signals
          /\ Blocked' = Blocked
      BY <2>2, <2>7 DEF Keeps
    <3> QED BY <1>1, <1>2, <1>3, <2>2, <2>4, <3>1
  <2> QED BY <2>6, <2>7
<1>6. CASE call[1] = "cost" /\ GetsCost /\ UNCHANGED signals
  <2>1. Keeps /\ interrupts' = TRUE
    BY <1>6 DEF GetsCost, Keeps
  <2>2. SystemTypeOK' /\ Blocked' = Blocked
    BY <1>0, <2>1, KeepsType
  <2>3. EarlyTypeOK'
    BY <1>0, <1>4, <1>6, <2>2 DEF EarlyTypeOK, EarlyPatternTypeOK
  <2> QED BY <1>1, <1>2, <1>3, <1>6, <2>1, <2>2, <2>3 DEF Keeps
<1> QED BY <1>1, <1>5, <1>6

-----------------------------------------------------------------------------
(***************************************************************************)
(* Interrupts.  A fresh thread has yet to run through its first sei(): it  *)
(* has not come back from a yield since it was created.                    *)
(***************************************************************************)
Fresh(t) ==
  \/ Version = "second" /\ pc[t] \in {"entry", "offset"}
  \/ Version = "first" /\ pc[t] \in {"entry", "reset", "exec"} /\ jobs[t] = 0
  \/ Version = "first" /\ pc[t] \in {"test", "sleep", "spin"} /\ jobs[t] = 1

(* The code each version goes through.                                     *)
Visits(t) ==
  /\ pc[t] = "entry" => jobs[t] = 0
  /\ Version = "first" =>
       /\ pc[t] \notin {"offset", "release", "top", "charge"}
       /\ pc[t] \in {"test", "sleep", "spin"} => jobs[t] > 0

(* A timer interrupt is taken outside a call of thread_yield(), or where   *)
(* another is about to store: only "store" frames can be below the top.    *)
(* Who does not run is inside thread_yield(), or was never given the       *)
(* processor.                                                              *)
Suspended(t) ==
  /\ \A i \in 2 .. Len(frames[t]) : frames[t][i] = "store"
  /\ t # current_thread =>
       IF frames[t] = <<>> THEN t \in Threads /\ pc[t] = "entry"
                           ELSE frames[t][1] \in {"call", "isr"}
  /\ t \in Threads /\ frames[t] # <<>> => ~Fresh(t)

Unprotected ==
  IF frames[current_thread] = <<>>
  THEN current_thread = Main \/ ~Fresh(current_thread)
  ELSE frames[current_thread][1] = "store"

ProcessorInv ==
  /\ \A t \in Threads : Visits(t)
  /\ \A t \in All : Suspended(t)
  /\ interrupts <=> Unprotected
  /\ RunningIsReady

LEMMA Push ==
  ASSUME NEW S, NEW s \in Seq(S), NEW f \in S
  PROVE  /\ <<f>> \o s # <<>> /\ (<<f>> \o s)[1] = f
         /\ Len(<<f>> \o s) = Len(s) + 1
         /\ \A i \in 2 .. Len(s) + 1 : (<<f>> \o s)[i] = s[i - 1]
OBVIOUS

LEMMA Pop ==
  ASSUME NEW S, NEW s \in Seq(S), s # <<>>
  PROVE  /\ Head(s) = s[1] /\ Len(s) >= 1
         /\ Len(Tail(s)) = Len(s) - 1
         /\ \A i \in 1 .. Len(s) - 1 : Tail(s)[i] = s[i + 1]
         /\ Tail(s) \in Seq(S)
OBVIOUS

(* The processor is handed on by a thread that will have passed a sei().   *)
LEMMA HandsOn ==
  ASSUME EarlyParams, EarlyTypeOK, EarlyTypeOK', ProcessorInv,
         NEW c \in All, c = current_thread,
         NEW f \in {"call", "isr"}, Hands(f),
         \A t \in Threads \ {c} : pc'[t] = pc[t] /\ jobs'[t] = jobs[t],
         \A t \in Threads : Visits(t)',
         c \in Threads => ~Fresh(c)',
         frames[c] = <<>> \/ frames[c][1] = "store"
  PROVE  ProcessorInv'
<1> DEFINE s == frames[c]
<1>1. frames \in [All -> Seq(Nested)] /\ current_thread' \in All
  BY DEF EarlyTypeOK, SystemTypeOK, FramesTypeOK, TableTypeOK
<1>2. /\ frames'[c] = <<f>> \o s
      /\ \A t \in All \ {c} : frames'[t] = frames[t]
  BY <1>1 DEF Hands
<1>3. /\ s \in Seq(Nested) /\ f \in Nested
      /\ \A i \in 2 .. Len(s) : s[i] = "store"
      /\ s = <<>> \/ s[1] = "store"
  BY <1>1 DEF Nested, ProcessorInv, Suspended
<1> HIDE DEF s
<1>4. /\ <<f>> \o s # <<>> /\ (<<f>> \o s)[1] = f
      /\ Len(<<f>> \o s) = Len(s) + 1
      /\ \A i \in 2 .. Len(s) + 1 : (<<f>> \o s)[i] = s[i - 1]
  BY <1>3, Push
<1>5. \A i \in 2 .. Len(<<f>> \o s) : (<<f>> \o s)[i] = "store"
  <2>1. ASSUME NEW i \in 2 .. Len(s) + 1  PROVE s[i - 1] = "store"
    <3>1. Len(s) \in Nat /\ (Len(s) = 0 => s = <<>>)
      BY <1>3
    <3>2. i - 1 = 1 \/ i - 1 \in 2 .. Len(s)
      BY <3>1
    <3>3. s # <<>>
      BY <3>1
    <3> QED BY <1>3, <3>2, <3>3
  <2> QED BY <1>4, <2>1
<1>6. Suspended(c)'
  BY <1>2, <1>4, <1>5 DEF Suspended
<1>7. ASSUME NEW t \in All, t # c  PROVE Suspended(t)'
  <2>1. Suspended(t) /\ frames'[t] = frames[t]
    BY <1>2, <1>7 DEF ProcessorInv
  <2>2. t \in Threads => pc'[t] = pc[t] /\ (Fresh(t)' <=> Fresh(t))
    BY <1>7 DEF Fresh
  <2> QED BY <1>7, <2>1, <2>2 DEF Suspended
<1>8. ~Unprotected'
  <2>0. PICK n \in All : n = current_thread'
    BY <1>1
  <2>1. CASE n = c
    BY <1>2, <1>4, <2>0, <2>1 DEF Unprotected
  <2>2. CASE n # c
    <3>1. Suspended(n) /\ frames'[n] = frames[n]
      BY <1>2, <2>2 DEF ProcessorInv
    <3>2. CASE frames[n] = <<>>
      <4>1. n \in Threads /\ pc[n] = "entry" /\ n # Main
        BY <2>2, <3>1, <3>2, ThreadsAssumption DEF Suspended
      <4>2. Visits(n)' /\ pc'[n] = "entry"
        BY <2>2, <4>1
      <4>3. Fresh(n)'
        BY <4>2 DEF EarlyParams, Fresh, Visits
      <4> QED BY <2>0, <3>1, <3>2, <4>1, <4>3 DEF Unprotected, Fresh
    <3>3. CASE frames[n] # <<>>
      BY <2>0, <2>2, <3>1, <3>3 DEF Suspended, Unprotected
    <3> QED BY <3>2, <3>3
  <2> QED BY <2>1, <2>2
<1>9. RunningIsReady' /\ ~interrupts'
  BY DEF Hands
<1> QED BY <1>6, <1>7, <1>8, <1>9 DEF ProcessorInv

(* The thread that runs goes on.                                           *)
LEMMA GoesOn ==
  ASSUME EarlyTypeOK, ProcessorInv, NEW t \in Threads, Alone(t), Keeps,
         Visits(t)', interrupts' <=> ~Fresh(t)'
  PROVE  ProcessorInv'
<1>1. /\ current_thread = t /\ current_thread' = t /\ frames[t] = <<>>
      /\ frames' = frames /\ status' = status /\ t # Main
  BY ThreadsAssumption DEF Alone, Runs, Keeps
<1>2. ASSUME NEW u \in Threads, u # t
      PROVE  Visits(u)' /\ pc'[u] = pc[u] /\ (Fresh(u)' <=> Fresh(u))
  BY <1>2 DEF Alone, ProcessorInv, Visits, Fresh
<1>3. ASSUME NEW u \in All  PROVE Suspended(u)'
  <2>1. CASE u = t
    BY <1>1, <2>1 DEF Suspended
  <2>2. CASE u # t
    BY <1>1, <1>2, <2>2 DEF ProcessorInv, Suspended
  <2> QED BY <2>1, <2>2
<1>4. interrupts' <=> Unprotected'
  BY <1>1 DEF Unprotected, Fresh
<1>5. RunningIsReady'
  BY <1>1 DEF ProcessorInv, RunningIsReady
<1> QED BY <1>2, <1>3, <1>4, <1>5 DEF ProcessorInv

(* thread_yield() returns, and the timer interrupt stores.                 *)
LEMMA ComesBack ==
  ASSUME EarlyTypeOK, ProcessorInv, Returns \/ Stores
  PROVE  ProcessorInv'
<1>1. PICK c \in All : c = current_thread
  BY DEF EarlyTypeOK, SystemTypeOK, TableTypeOK
<1>2. /\ frames \in [All -> Seq(Nested)] /\ frames[c] # <<>>
      /\ UNCHANGED <<current_thread, status, pc, jobs>>
  BY <1>1 DEF EarlyTypeOK, SystemTypeOK, FramesTypeOK, Returns, Stores,
              Innermost, patternVars
<1> DEFINE s == frames[c]
<1>3. /\ s \in Seq(Nested) /\ s # <<>>
      /\ \A i \in 2 .. Len(s) : s[i] = "store"
      /\ c \in Threads => ~Fresh(c)
  BY <1>2 DEF ProcessorInv, Suspended
<1> HIDE DEF s
<1>4. /\ Head(s) = s[1] /\ Len(s) >= 1
      /\ Len(Tail(s)) = Len(s) - 1
      /\ \A i \in 1 .. Len(s) - 1 : Tail(s)[i] = s[i + 1]
      /\ Tail(s) \in Seq(Nested)
  BY <1>3, Pop
<1>5. \A i \in 1 .. Len(Tail(s)) : Tail(s)[i] = "store"
  <2>1. Len(s) \in Nat
    BY <1>3
  <2> QED BY <1>3, <1>4, <2>1
<1>6. /\ \/ Tail(s) = <<>> \/ Tail(s)[1] = "store"
      /\ \A i \in 2 .. Len(Tail(s)) : Tail(s)[i] = "store"
  <2>1. Len(Tail(s)) \in Nat /\ (Len(Tail(s)) = 0 => Tail(s) = <<>>)
    BY <1>4
  <2> DEFINE q == Tail(s)
  <2>2. /\ Len(q) \in Nat /\ (Len(q) = 0 => q = <<>>)
        /\ \A i \in 1 .. Len(q) : q[i] = "store"
    BY <1>5, <2>1
  <2> HIDE DEF q
  <2>3. /\ q = <<>> \/ q[1] = "store"
        /\ \A i \in 2 .. Len(q) : q[i] = "store"
    BY <2>2
  <2> QED BY <2>3 DEF q
<1> DEFINE r == <<"store">> \o Tail(s)
<1>7. /\ r # <<>> /\ r[1] = "store"
      /\ \A i \in 2 .. Len(r) : r[i] = "store"
  <2>1. "store" \in Nested
    BY DEF Nested
  <2>2. /\ r # <<>> /\ r[1] = "store" /\ Len(r) = Len(Tail(s)) + 1
        /\ \A i \in 2 .. Len(Tail(s)) + 1 : r[i] = Tail(s)[i - 1]
    BY <1>4, <2>1, Push
  <2>3. \A i \in 2 .. Len(Tail(s)) + 1 : i - 1 \in 1 .. Len(Tail(s))
    BY <1>4
  <2> QED BY <1>5, <2>2, <2>3
<1> HIDE DEF r
<1>8. /\ frames'[c] = Tail(s) \/ frames'[c] = r
      /\ \A t \in All \ {c} : frames'[t] = frames[t]
  BY <1>1, <1>2 DEF Returns, Stores, r, s
<1>9. interrupts'
  <2>1. CASE Returns
    BY <2>1 DEF Returns
  <2>2. CASE Stores
    <3>1. s[1] = "store" /\ interrupts' = interrupts
      BY <1>1, <1>4, <2>2 DEF Stores, Innermost, s
    <3> QED BY <1>1, <1>3, <3>1 DEF ProcessorInv, Unprotected, s
  <2> QED BY <2>1, <2>2
<1>10. Unprotected'
  <2>1. c \in Threads \/ c = Main
    BY DEF All
  <2>2. c \in Threads => ~Fresh(c)'
    BY <1>2, <1>3 DEF Fresh
  <2>3. frames'[c] = <<>> \/ frames'[c][1] = "store"
    BY <1>6, <1>7, <1>8
  <2>4. current_thread' = c
    BY <1>1, <1>2
  <2>5. c = Main \/ ~Fresh(current_thread)'
    <3>1. c \in Threads => ~Fresh(current_thread)'
      BY <2>2, <2>4 DEF Fresh
    <3> QED BY <2>1, <3>1
  <2> HIDE DEF s, r
  <2>6. CASE frames'[c] = <<>>
    BY <2>4, <2>5, <2>6 DEF Unprotected
  <2>7. CASE frames'[c] # <<>>
    BY <2>3, <2>4, <2>7 DEF Unprotected
  <2> QED BY <2>6, <2>7
<1>11. ASSUME NEW t \in All  PROVE Suspended(t)'
  <2>1. t \in Threads => (Fresh(t)' <=> Fresh(t))
    BY <1>2 DEF Fresh
  <2>2. CASE t = c
    BY <1>1, <1>2, <1>3, <1>6, <1>7, <1>8, <2>1, <2>2 DEF Suspended
  <2>3. CASE t # c
    BY <1>2, <1>8, <2>1, <2>3 DEF ProcessorInv, Suspended
  <2> QED BY <2>2, <2>3
<1>12. ASSUME NEW t \in Threads  PROVE Visits(t)'
  BY <1>2 DEF ProcessorInv, Visits
<1>13. RunningIsReady'
  BY <1>2 DEF ProcessorInv, RunningIsReady
<1> QED BY <1>9, <1>10, <1>11, <1>12, <1>13 DEF ProcessorInv

(* Between two yields a thread turns interrupts on only where it has been  *)
(* through a sei() before.                                                 *)
LEMMA LocalFresh ==
  ASSUME EarlyParams, EarlyTypeOK, ProcessorInv, NEW t \in Threads, Local(t)
  PROVE  Visits(t)' /\ (interrupts' <=> ~Fresh(t)')
<1>1. /\ Alone(t) /\ t # Main /\ Visits(t) /\ jobs[t] \in Nat
      /\ pc \in [Threads -> EarlyPCs] /\ jobs \in [Threads -> Nat]
      /\ Version \in {"first", "second"}
  BY LocalType, ThreadsAssumption
     DEF ProcessorInv, EarlyTypeOK, EarlyPatternTypeOK, EarlyParams
<1>2. interrupts <=> ~Fresh(t)
  BY <1>1 DEF Alone, Runs, ProcessorInv, Unprotected
<1>3. CASE Begins(t)
  BY <1>1, <1>2, <1>3 DEF Begins, At, GoTo, Visits, Fresh
<1>4. CASE IsReleased(t) \/ Resets(t)
  BY <1>1, <1>2, <1>4 DEF IsReleased, Resets, At, GoTo, Visits, Fresh
<1>5. CASE Finishes(t)
  BY <1>1, <1>2, <1>5 DEF Finishes, At, GoTo, Visits, Fresh
<1>6. CASE Charges(t)
  BY <1>1, <1>6 DEF Charges, GetsCost, At, GoTo, Visits, Fresh
<1>7. CASE Tests(t)
  BY <1>1, <1>2, <1>7 DEF Tests, At, GoTo, Visits, Fresh
<1> QED BY <1>3, <1>4, <1>5, <1>6, <1>7 DEF Local

(* Every step keeps the types.                                             *)
LEMMA EarlyInitType ==
  ASSUME EarlyParams, EarlyInit
  PROVE  EarlyTypeOK /\ ProcessorInv
<1>1. /\ 0 \in Ticks /\ UninitTicks \subseteq Ticks
      /\ UninitStatus \subseteq Status
  BY TickModAssumption, ParamsAssumption DEF Ticks
<1>2. TableTypeOK /\ EarlyClockTypeOK
  <2>1. PICK s \in UninitStatus, w \in UninitTicks,
             c \in UninitTicks \intersect {0, 1} :
         /\ status = [t \in All |-> IF t = Main THEN s ELSE ACTIVE]
         /\ ticks_to_wait = [t \in All |-> IF t = Main THEN w ELSE 0]
         /\ carry_ticks_to_wait = [t \in All |-> IF t = Main THEN c ELSE 0]
    BY DEF EarlyInit, KernelInit
  <2>2. /\ current_thread \in All /\ s \in Status /\ w \in Ticks
        /\ ACTIVE \in Status /\ thread_list \in Seq(All)
    BY <1>1, ThreadListAssumption DEF EarlyInit, KernelInit, All, Status
  <2> QED BY <1>1, <2>1, <2>2
             DEF TableTypeOK, EarlyClockTypeOK, EarlyInit, KernelInit
<1>3. FramesTypeOK
  BY DEF FramesTypeOK, EarlyInit, KernelInit
<1>4. EarlyPatternTypeOK
  BY <1>1 DEF EarlyPatternTypeOK, EarlyInit, EarlyPCs
<1>5. \A t \in Threads : Visits(t)
  BY DEF EarlyInit, Visits
<1>6. ASSUME NEW t \in All  PROVE Suspended(t)
  <2>1. frames[t] = <<>> /\ Len(frames[t]) = 0 /\ (t # Main => t \in Threads)
    BY DEF EarlyInit, KernelInit, All
  <2>2. t \in Threads => pc[t] = "entry"
    BY DEF EarlyInit
  <2> QED BY <2>1, <2>2 DEF Suspended, EarlyInit, KernelInit
<1>7. (interrupts <=> Unprotected) /\ RunningIsReady
  BY DEF EarlyInit, KernelInit, Unprotected, RunningIsReady, All
<1> QED BY <1>2, <1>3, <1>4, <1>5, <1>6, <1>7
        DEF EarlyTypeOK, SystemTypeOK, ProcessorInv

(* A step is one of the system, one of a thread, or none.                  *)
LEMMA EarlySteps ==
  ASSUME [EarlyNext]_earlyVars
  PROVE  \/ TimerTicks \/ MainYields \/ Returns \/ Stores
         \/ \E t \in Threads : Acts(t)
         \/ UNCHANGED earlyVars
BY DEF EarlyNext, Acts, Local, Spins

LEMMA EarlyStepType ==
  ASSUME EarlyParams, EarlyTypeOK, [EarlyNext]_earlyVars
  PROVE  EarlyTypeOK'
<1>0. SystemTypeOK /\ EarlyPatternTypeOK
  BY DEF EarlyTypeOK
<1>1. CASE TimerTicks \/ MainYields \/ Returns \/ Stores
  <2>1. SystemTypeOK'
    BY <1>0, <1>1, TimerTicksType, MainYieldsType, ReturnsType
  <2>2. UNCHANGED patternVars
    BY <1>1 DEF TimerTicks, MainYields, Returns, Stores
  <2> QED BY <1>0, <2>1, <2>2 DEF EarlyTypeOK, EarlyPatternTypeOK, patternVars
<1>2. ASSUME NEW t \in Threads, Acts(t)  PROVE EarlyTypeOK'
  BY <1>2, LocalType, SleepersType, WaitsType, CallsType DEF Acts
<1>3. CASE UNCHANGED earlyVars
  <2>1. SystemTypeOK'
    BY <1>0, <1>3 DEF earlyVars, kernelVars, SystemTypeOK, TableTypeOK,
                      EarlyClockTypeOK, FramesTypeOK
  <2>2. EarlyPatternTypeOK'
    BY <1>0, <1>3 DEF earlyVars, patternVars, EarlyPatternTypeOK
  <2> QED BY <2>1, <2>2 DEF EarlyTypeOK
<1> QED BY <1>1, <1>2, <1>3, EarlySteps

LEMMA ProcessorStep ==
  ASSUME EarlyParams, EarlyTypeOK, ProcessorInv, [EarlyNext]_earlyVars
  PROVE  ProcessorInv'
<1>1. EarlyTypeOK' /\ SystemTypeOK
  BY EarlyStepType DEF EarlyTypeOK
<1>2. PICK c \in All : c = current_thread
  BY DEF EarlyTypeOK, SystemTypeOK, TableTypeOK
<1>3. CASE TimerTicks
  <2>1. Hands("isr") /\ UNCHANGED <<pc, jobs>> /\ interrupts
    BY <1>1, <1>3, TimerTicksType DEF TimerTicks, patternVars
  <2>2. \A t \in Threads : Visits(t)'
    BY <2>1 DEF ProcessorInv, Visits
  <2>3. /\ frames[c] = <<>> \/ frames[c][1] = "store"
        /\ c \in Threads => ~Fresh(c)
    BY <1>2, <2>1, ThreadsAssumption DEF ProcessorInv, Unprotected, Suspended
  <2>4. c \in Threads => ~Fresh(c)'
    BY <2>1, <2>3 DEF Fresh
  <2> QED BY <1>1, <1>2, <2>1, <2>2, <2>3, <2>4, HandsOn
<1>4. CASE MainYields
  <2>1. /\ Hands("call") /\ UNCHANGED <<pc, jobs>>
        /\ c = Main /\ frames[c] = <<>>
    BY <1>1, <1>2, <1>4, MainYieldsType DEF MainYields, patternVars, Runs
  <2>2. \A t \in Threads : Visits(t)'
    BY <2>1 DEF ProcessorInv, Visits
  <2> QED BY <1>1, <1>2, <2>1, <2>2, HandsOn, ThreadsAssumption
<1>5. CASE Returns \/ Stores
  BY <1>5, ComesBack
<1>6. ASSUME NEW t \in Threads, Acts(t)  PROVE ProcessorInv'
  <2>0. /\ t \in All /\ Visits(t) /\ jobs[t] \in Nat
        /\ pc \in [Threads -> EarlyPCs]
        /\ Version \in {"first", "second"}
    BY DEF All, ProcessorInv, EarlyTypeOK, EarlyPatternTypeOK, EarlyParams
  <2>1. ASSUME Alone(t), Hands("call"), Visits(t)', ~Fresh(t)'
        PROVE  ProcessorInv'
    <3>1. t = current_thread /\ frames[t] = <<>>
      BY <2>1 DEF Alone, Runs
    <3>2. \A u \in Threads : Visits(u)'
      BY <2>1 DEF Alone, ProcessorInv, Visits
    <3>3. \A u \in Threads \ {t} : pc'[u] = pc[u] /\ jobs'[u] = jobs[u]
      BY <2>1 DEF Alone
    <3> QED BY <1>1, <2>0, <2>1, <3>1, <3>2, <3>3, HandsOn
  <2>2. CASE Local(t)
    BY <2>2, LocalType, LocalFresh, GoesOn
  <2>3. CASE SleepsOffset(t) \/ SleepsToNext(t)
    <3>1. Alone(t) /\ Hands("call") /\ UNCHANGED jobs
      BY <2>3, SleepersType
    <3>2. Visits(t)' /\ ~Fresh(t)'
      BY <2>0, <2>3, <3>1
         DEF SleepsOffset, SleepsToNext, At, GoTo, Visits, Fresh
    <3> QED BY <2>1, <3>1, <3>2
  <2>4. CASE Waits(t)
    <3>1. /\ Alone(t) /\ pc[t] = "top" /\ pc'[t] = "reset" /\ UNCHANGED jobs
          /\ \/ Hands("call")
             \/ Keeps /\ UNCHANGED interrupts
      BY <2>4, WaitsType
    <3>2. Version = "second" /\ Visits(t)' /\ ~Fresh(t)' /\ ~Fresh(t)
      BY <2>0, <3>1 DEF Visits, Fresh
    <3>3. CASE Hands("call")
      BY <2>1, <3>1, <3>2, <3>3
    <3>4. CASE Keeps /\ UNCHANGED interrupts
      <4>1. interrupts
        BY <3>1, <3>2, ThreadsAssumption
           DEF Alone, Runs, ProcessorInv, Unprotected
      <4> QED BY <3>1, <3>2, <3>4, <4>1, GoesOn
    <3> QED BY <3>1, <3>3, <3>4
  <2>5. CASE Calls(t)
    <3>1. /\ Alone(t) /\ Version = "second" /\ pc[t] = "exec"
          /\ UNCHANGED <<pc, jobs>>
          /\ \/ Hands("call")
             \/ Keeps /\ interrupts' = TRUE
      BY <2>5, CallsType
    <3>2. Visits(t)' /\ ~Fresh(t)'
      BY <2>0, <3>1 DEF Visits, Fresh
    <3> QED BY <2>1, <3>1, <3>2, GoesOn
  <2> QED BY <1>6, <2>2, <2>3, <2>4, <2>5 DEF Acts
<1>7. CASE UNCHANGED earlyVars
  BY <1>7 DEF earlyVars, kernelVars, patternVars, ProcessorInv, Visits,
              Suspended, Unprotected, Fresh, RunningIsReady
<1> QED BY <1>3, <1>4, <1>5, <1>6, <1>7, EarlySteps

LEMMA ProcessorInvariance ==
  ASSUME EarlyParams  PROVE EarlySpec => [](EarlyTypeOK /\ ProcessorInv)
<1>1. EarlyInit => EarlyTypeOK /\ ProcessorInv
  BY EarlyInitType
<1>2. EarlyTypeOK /\ ProcessorInv /\ [EarlyNext]_earlyVars
        => (EarlyTypeOK /\ ProcessorInv)'
  BY EarlyStepType, ProcessorStep
<1> QED BY <1>1, <1>2, PTL DEF EarlySpec

(* A job can be interrupted, but for the first job of a thread of the      *)
(* first version.                                                          *)
THEOREM JobsAreInterruptible ==
  ASSUME EarlyParams  PROVE EarlySpec => []JobsInterruptible
<1>1. EarlyTypeOK /\ ProcessorInv => JobsInterruptible
  <2> SUFFICES ASSUME EarlyTypeOK, ProcessorInv, NEW t \in Threads,
                      At(t, "exec")
               PROVE  interrupts <=> Version = "second" \/ jobs[t] > 0
    BY DEF JobsInterruptible
  <2>1. interrupts <=> ~Fresh(t)
    BY ThreadsAssumption DEF At, Runs, ProcessorInv, Unprotected
  <2>2. jobs[t] \in Nat /\ Version \in {"first", "second"} /\ pc[t] = "exec"
    BY DEF EarlyTypeOK, EarlyPatternTypeOK, EarlyParams, At
  <2> QED BY <2>1, <2>2 DEF Fresh
<1> QED BY <1>1, ProcessorInvariance, PTL

-----------------------------------------------------------------------------
(* A thread is blocked only where it waits for its next job, so who        *)
(* unblocks it makes it owe one.                                           *)
Waiting(t) == t \in Blocked => pc[t] = "reset"

Paid(t) == signals[t] = jobs[t] + IF Owes(t) THEN 1 ELSE 0

ServiceInv == \A t \in EventDriven : Waiting(t) /\ Paid(t)

(* A thread that neither acts nor is unblocked.                            *)
LEMMA StillPaid ==
  ASSUME EarlyTypeOK, EarlyTypeOK', ServiceInv, NEW t \in EventDriven,
         pc'[t] = pc[t], jobs'[t] = jobs[t], signals'[t] = signals[t],
         t \in Blocked' <=> t \in Blocked
  PROVE  Waiting(t)' /\ Paid(t)'
<1>1. t \in All
  BY DEF EventDriven, All
<1>2. status'[t] = BLOCKED <=> status[t] = BLOCKED
  BY <1>1 DEF Blocked
<1> QED BY <1>1, <1>2 DEF ServiceInv, Waiting, Paid, Owes, Blocked

(* The steps of the event-driven thread itself.                            *)
LEMMA ActorPaid ==
  ASSUME EarlyParams, EarlyTypeOK, ProcessorInv, ServiceInv,
         NEW t \in EventDriven, Local(t) \/ SleepsOffset(t) \/ SleepsToNext(t)
                                \/ Waits(t)
  PROVE  Waiting(t)' /\ Paid(t)'
<1>1. /\ t \in Threads /\ t \in All /\ Version = "second"
      /\ pc \in [Threads -> EarlyPCs] /\ jobs \in [Threads -> Nat]
      /\ signals \in [Threads -> Nat]
      /\ Waiting(t) /\ Paid(t)
  BY DEF EventDriven, All, EarlyTypeOK, EarlyPatternTypeOK, EarlyParams,
         ServiceInv
<1>2. t \notin Blocked
  <2>1. current_thread = t
    BY <1>1, LocalType, SleepersType, WaitsType DEF Alone, Runs
  <2> QED BY <1>1, <2>1, ThreadsAssumption
          DEF ProcessorInv, RunningIsReady, Blocked, ACTIVE, BLOCKED
<1>3. UNCHANGED signals /\ (t \in Blocked' <=> Waits(t) /\ pc'[t] = "reset")
  <2>1. CASE Local(t)
    BY <1>1, <1>2, <2>1, LocalType
       DEF Local, Begins, IsReleased, Resets, Finishes, Charges, Tests, Waits,
           At
  <2>2. CASE SleepsOffset(t) \/ SleepsToNext(t)
    BY <1>1, <1>2, <2>2, SleepersType DEF SleepsOffset, SleepsToNext, Waits, At
  <2>3. CASE Waits(t)
    BY <1>1, <1>2, <2>3, WaitsType
  <2> QED BY <2>1, <2>2, <2>3
<1>4. /\ status[t] # BLOCKED
      /\ status'[t] = BLOCKED <=> t \in Blocked'
  BY <1>1, <1>2 DEF Blocked
<1>5. CASE Waits(t)
  <2>1. pc[t] = "top" /\ pc'[t] = "reset" /\ UNCHANGED jobs
    BY <1>1, <1>5, WaitsType
  <2>2. t \in Blocked'
    BY <1>3, <1>5, <2>1
  <2> QED BY <1>1, <1>3, <1>4, <2>1, <2>2 DEF Waiting, Paid, Owes
<1>6. CASE Resets(t)
  <2>1. pc[t] = "reset" /\ pc'[t] = "exec" /\ UNCHANGED jobs /\ ~Waits(t)
    BY <1>1, <1>6 DEF Resets, Waits, At, GoTo
  <2> QED BY <1>1, <1>3, <1>4, <2>1 DEF Waiting, Paid, Owes
<1>7. CASE Finishes(t)
  <2>1. /\ pc[t] = "exec" /\ pc'[t] = "charge" /\ jobs'[t] = jobs[t] + 1
        /\ ~Waits(t)
    BY <1>1, <1>7 DEF Finishes, Waits, At, GoTo
  <2>2. jobs[t] \in Nat /\ signals[t] \in Nat
    BY <1>1
  <2>3. signals[t] = jobs[t] + 1 /\ signals'[t] = signals[t]
    BY <1>1, <1>3, <2>1 DEF Paid, Owes
  <2>4. ~Owes(t)' /\ Waiting(t)'
    BY <1>3, <2>1 DEF Owes, Waiting
  <2> QED BY <2>1, <2>2, <2>3, <2>4 DEF Paid
<1>8. CASE \/ Begins(t) \/ IsReleased(t) \/ Charges(t) \/ Tests(t)
           \/ SleepsOffset(t) \/ SleepsToNext(t)
  <2>1. /\ pc[t] \notin {"exec", "reset"} /\ pc'[t] \notin {"exec", "reset"}
        /\ UNCHANGED jobs /\ ~Waits(t)
    BY <1>1, <1>8 DEF Begins, IsReleased, Charges, Tests, SleepsOffset,
                      SleepsToNext, Waits, At, GoTo
  <2> QED BY <1>1, <1>3, <2>1 DEF Waiting, Paid, Owes
<1> QED BY <1>5, <1>6, <1>7, <1>8 DEF Local

LEMMA ServiceStep ==
  ASSUME EarlyParams, EarlyTypeOK, ProcessorInv, ServiceInv,
         [EarlyNext]_earlyVars
  PROVE  ServiceInv'
<1>1. EarlyTypeOK' /\ SystemTypeOK
  BY EarlyStepType DEF EarlyTypeOK
<1>2. CASE TimerTicks \/ MainYields \/ Returns \/ Stores
  <2>1. Blocked' = Blocked
    BY <1>1, <1>2, TimerTicksType, MainYieldsType, ReturnsType DEF Blocked
  <2>2. UNCHANGED <<pc, jobs, signals>>
    BY <1>2 DEF TimerTicks, MainYields, Returns, Stores, patternVars
  <2> QED BY <1>1, <2>1, <2>2, StillPaid DEF ServiceInv
<1>3. ASSUME NEW u \in Threads, Acts(u)  PROVE ServiceInv'
  <2> SUFFICES ASSUME NEW t \in EventDriven  PROVE Waiting(t)' /\ Paid(t)'
    BY DEF ServiceInv
  <2>0. t \in Threads /\ t \in All
    BY DEF EventDriven, All
  <2>1. CASE ~Calls(u)
    <3>1. CASE t = u
      BY <1>3, <2>1, <3>1, ActorPaid DEF Acts
    <3>2. CASE t # u
      <4>1. Alone(u) /\ UNCHANGED signals /\ (t \in Blocked' <=> t \in Blocked)
        BY <1>3, <2>1, <3>2, LocalType, SleepersType, WaitsType DEF Acts
      <4> QED BY <1>1, <2>0, <3>2, <4>1, StillPaid DEF Alone
    <3> QED BY <3>1, <3>2
  <2>2. CASE Calls(u)
    <3>1. /\ UNCHANGED <<pc, jobs>>
          /\ \/ UNCHANGED signals /\ Blocked' = Blocked
             \/ \E th \in Blocked \intersect Threads :
                  /\ Blocked' = Blocked \ {th}
                  /\ signals' = [signals EXCEPT ![th] = @ + 1]
      BY <2>2, CallsType
    <3>2. CASE UNCHANGED signals /\ Blocked' = Blocked
      BY <1>1, <3>1, <3>2, StillPaid
    <3>3. CASE \E th \in Blocked \intersect Threads :
                  /\ Blocked' = Blocked \ {th}
                  /\ signals' = [signals EXCEPT ![th] = @ + 1]
      <4>1. PICK th \in Blocked \intersect Threads :
                  /\ Blocked' = Blocked \ {th}
                  /\ signals' = [signals EXCEPT ![th] = @ + 1]
        BY <3>3
      <4>2. signals \in [Threads -> Nat] /\ jobs[t] \in Nat
        BY <2>0 DEF EarlyTypeOK, EarlyPatternTypeOK
      <4>3. CASE t # th
        BY <1>1, <2>0, <3>1, <4>1, <4>2, <4>3, StillPaid
      <4>4. CASE t = th
        <5>1. pc[t] = "reset" /\ signals[t] = jobs[t]
          BY <2>0, <4>1, <4>2, <4>4
             DEF ServiceInv, Waiting, Paid, Owes, Blocked
        <5>2. status'[t] # BLOCKED
          BY <2>0, <4>1, <4>4 DEF Blocked
        <5>3. signals'[t] = jobs'[t] + 1 /\ pc'[t] = "reset"
          BY <2>0, <3>1, <4>1, <4>2, <4>4, <5>1
        <5> QED BY <5>2, <5>3 DEF Waiting, Paid, Owes
      <4> QED BY <4>3, <4>4
    <3> QED BY <3>1, <3>2, <3>3
  <2> QED BY <2>1, <2>2
<1>4. CASE UNCHANGED earlyVars
  BY <1>4 DEF earlyVars, kernelVars, patternVars, ServiceInv, Waiting, Paid,
              Owes, Blocked
<1> QED BY <1>2, <1>3, <1>4, EarlySteps

(* An event-driven thread does one job for each thread_unblock() that      *)
(* found it blocked.                                                       *)
THEOREM UnblocksAreServed ==
  ASSUME EarlyParams  PROVE EarlySpec => []JobPerUnblock
<1>1. EarlyInit => ServiceInv
  <2> SUFFICES ASSUME EarlyInit, NEW t \in EventDriven
               PROVE  Waiting(t) /\ Paid(t)
    BY DEF ServiceInv
  <2>1. t \in Threads /\ t \in All /\ t # Main
    BY ThreadsAssumption DEF EventDriven, All
  <2>2. /\ status[t] = ACTIVE /\ pc[t] = "entry"
        /\ signals[t] = 0 /\ jobs[t] = 0
    BY <2>1 DEF EarlyInit, KernelInit
  <2> QED BY <2>2 DEF Waiting, Paid, Owes, Blocked, ACTIVE, BLOCKED
<1>2. EarlyTypeOK /\ ProcessorInv /\ ServiceInv /\ [EarlyNext]_earlyVars
        => ServiceInv'
  BY ServiceStep
<1>3. ServiceInv => JobPerUnblock
  BY DEF ServiceInv, Paid, JobPerUnblock
<1> QED BY <1>1, <1>2, <1>3, ProcessorInvariance, PTL DEF EarlySpec

-----------------------------------------------------------------------------
(***************************************************************************)
(* Time, until the tick counter wraps around.  A thread that is not due    *)
(* sleeps, until it is or the counter has wrapped.                         *)
(***************************************************************************)
ClockInv ==
  /\ global_tick <= LastTick
  /\ carry_tick_counter = 0
  /\ tick_counter_previous <= global_tick

Due(t) ==
  \/ thread_counter_us[t] <= global_tick
  \/ /\ pc[t] \in {"top", "reset"} /\ status[t] = SLEPT
     /\ \/ carry_ticks_to_wait[t] = 1
        \/ ticks_to_wait[t] >= thread_counter_us[t]

(* The executor has ended after the job was due, and in the past.          *)
Lasted(t) ==
  pc[t] \in {"charge", "test", "sleep"} =>
    thread_counter_us[t] <= ticks_aux[t] /\ ticks_aux[t] <= global_tick

DueInv == ClockInv /\ \A t \in Threads : Due(t) /\ Lasted(t)

(* What a step makes of a sleeper.                                         *)
SleepsOn(t) ==
  status[t] = SLEPT =>
    /\ ticks_to_wait'[t] = ticks_to_wait[t]
    /\ carry_ticks_to_wait'[t] = carry_ticks_to_wait[t]
    /\ \/ status'[t] = SLEPT
       \/ carry_ticks_to_wait[t] = 0 /\ ticks_to_wait[t] < global_tick'

Passes(S) ==
  ClockInv' /\ global_tick <= global_tick' /\ \A t \in All \ S : SleepsOn(t)

(* The numbers of a thread.                                                *)
LEMMA DueTimes ==
  ASSUME EarlyTypeOK, NEW t \in Threads
  PROVE  /\ TickMod \in Nat \ {0} /\ LastTick \in Nat /\ t \in All
         /\ global_tick \in 0 .. TickMod - 1
         /\ tick_counter_previous \in 0 .. TickMod - 1
         /\ ticks_to_wait[t] \in 0 .. TickMod - 1
         /\ thread_counter_us[t] \in 0 .. TickMod - 1
         /\ ticks_aux[t] \in 0 .. TickMod - 1
         /\ Period[t] \in 0 .. TickMod - 1
<1>1. TickMod \in Nat \ {0} /\ LastTick \in Nat /\ t \in All
  BY TickModAssumption DEF All
<1>2. /\ global_tick \in Ticks /\ tick_counter_previous \in Ticks
      /\ ticks_to_wait[t] \in Ticks /\ thread_counter_us[t] \in Ticks
      /\ ticks_aux[t] \in Ticks
  BY <1>1 DEF EarlyTypeOK, SystemTypeOK, TableTypeOK, EarlyClockTypeOK,
              EarlyPatternTypeOK
<1>3. Period[t] \in Ticks
  BY ParamsAssumption
<1> QED BY <1>1, <1>2, <1>3 DEF Ticks

LEMMA YieldSleeps ==
  ASSUME carry_tick_counter' = 0,
         NEW STATE st, NEW STATE wk, NEW STATE wc,
         NEW f, EarlyYield(st, wk, wc, f), NEW t \in All,
         st[t] = SLEPT
  PROVE  /\ ticks_to_wait'[t] = wk[t] /\ carry_ticks_to_wait'[t] = wc[t]
         /\ status'[t] = SLEPT \/ (wc[t] = 0 /\ wk[t] < global_tick')
BY DEF EarlyYield, Awaken, CarryLeft

(* The calls of thread_yield() that put nobody to sleep.                   *)
LEMMA AwakeYields ==
  ASSUME carry_tick_counter' = 0, NEW t \in All,
         \/ TimerTicks \/ MainYields \/ Blocks
         \/ \E th \in Threads : status[th] = BLOCKED /\ Unblocks(th)
  PROVE  SleepsOn(t)
<1> SUFFICES ASSUME status[t] = SLEPT  PROVE SleepsOn(t)
  BY DEF SleepsOn
<1>1. CASE TimerTicks
  BY <1>1, YieldSleeps DEF TimerTicks, SleepsOn
<1>2. CASE MainYields
  BY <1>2, YieldSleeps DEF MainYields, SleepsOn
<1>3. CASE Blocks
  <2> DEFINE st == [status EXCEPT ![current_thread] = BLOCKED]
  <2>1. /\ EarlyYield(st, ticks_to_wait, carry_ticks_to_wait, "call")
        /\ t # current_thread
    BY <1>3 DEF Blocks, SLEPT, ACTIVE
  <2>2. st[t] = SLEPT
    BY <2>1
  <2> HIDE DEF st
  <2> QED BY <2>1, <2>2, YieldSleeps DEF SleepsOn
<1>4. CASE \E th \in Threads : status[th] = BLOCKED /\ Unblocks(th)
  <2>1. PICK th \in Threads : status[th] = BLOCKED /\ Unblocks(th)
    BY <1>4
  <2> DEFINE st == [status EXCEPT ![th] = ACTIVE]
  <2>2. /\ EarlyYield(st, ticks_to_wait, carry_ticks_to_wait, "call")
        /\ t # th
    BY <2>1 DEF Unblocks, SLEPT, BLOCKED
  <2>3. st[t] = SLEPT
    BY <2>2
  <2> HIDE DEF st
  <2> QED BY <2>2, <2>3, YieldSleeps DEF SleepsOn
<1> QED BY <1>1, <1>2, <1>3, <1>4

(* A step that leaves the table alone.                                     *)
LEMMA KeepsSleeps ==
  ASSUME UNCHANGED <<status, timerVars>>, NEW t
  PROVE  SleepsOn(t)
BY DEF SleepsOn, timerVars

LEMMA SystemPasses ==
  ASSUME EarlyTypeOK, DueInv, LastTick < TickMod,
         TimerTicks \/ MainYields \/ Returns \/ Stores
  PROVE  Passes({}) /\ UNCHANGED patternVars
<1>1. UNCHANGED patternVars
  BY DEF TimerTicks, MainYields, Returns, Stores
<1>2. /\ TickMod \in Nat \ {0} /\ LastTick \in Nat
      /\ global_tick \in 0 .. TickMod - 1
      /\ tick_counter_previous \in 0 .. TickMod - 1
  <2>1. global_tick \in Ticks /\ tick_counter_previous \in Ticks
    BY DEF EarlyTypeOK, SystemTypeOK, EarlyClockTypeOK
  <2> QED BY <2>1, TickModAssumption DEF Ticks
<1>3. /\ global_tick <= LastTick /\ carry_tick_counter = 0
      /\ tick_counter_previous <= global_tick
  BY DEF DueInv, ClockInv
<1>4. CASE TimerTicks
  <2>1. /\ global_tick # LastTick
        /\ global_tick' = (global_tick + 1) % TickMod
        /\ carry_tick_counter' =
             IF tick_counter_previous > global_tick' THEN 1 ELSE 0
        /\ tick_counter_previous' = tick_counter_previous
    BY <1>4 DEF TimerTicks
  <2>2. global_tick + 1 \in 0 .. TickMod - 1 /\ global_tick + 1 <= LastTick
    BY <1>2, <1>3, <2>1
  <2>3. global_tick' = global_tick + 1
    BY <1>2, <2>1, <2>2, ModSmaller
  <2>4. ClockInv' /\ global_tick <= global_tick' /\ carry_tick_counter' = 0
    BY <1>2, <1>3, <2>1, <2>2, <2>3 DEF ClockInv
  <2> QED BY <1>1, <1>4, <2>4, AwakeYields DEF Passes
<1>5. CASE MainYields
  <2>1. ClockInv' /\ global_tick <= global_tick' /\ carry_tick_counter' = 0
    BY <1>2, <1>3, <1>5 DEF MainYields, clockVars, ClockInv
  <2> QED BY <1>1, <1>5, <2>1, AwakeYields DEF Passes
<1>6. CASE Returns \/ Stores
  <2>1. ClockInv' /\ global_tick <= global_tick'
    BY <1>2, <1>3, <1>6 DEF Returns, Stores, clockVars, ClockInv
  <2>2. UNCHANGED <<status, timerVars>>
    BY <1>6 DEF Returns, Stores
  <2> QED BY <1>1, <2>1, <2>2, KeepsSleeps DEF Passes
<1> QED BY <1>4, <1>5, <1>6

(* A thread that does not act.                                             *)
LEMMA OthersDue ==
  ASSUME EarlyTypeOK, EarlyTypeOK', DueInv, NEW S, Passes(S),
         NEW t \in Threads, t \notin S,
         pc'[t] = pc[t], thread_counter_us'[t] = thread_counter_us[t],
         ticks_aux'[t] = ticks_aux[t]
  PROVE  Due(t)' /\ Lasted(t)'
<1>1. /\ global_tick \in Int /\ ticks_to_wait[t] \in Int /\ t \in All
      /\ thread_counter_us[t] \in Int /\ ticks_aux[t] \in Int
  BY DueTimes
<1>2. global_tick' \in Int
  BY TicksAreInts DEF EarlyTypeOK, SystemTypeOK, EarlyClockTypeOK
<1>3. Due(t) /\ Lasted(t) /\ SleepsOn(t) /\ global_tick <= global_tick'
  BY <1>1 DEF DueInv, Passes
<1>4. Lasted(t)'
  BY <1>1, <1>2, <1>3 DEF Lasted
<1>5. Due(t)'
  <2>1. CASE thread_counter_us[t] <= global_tick
    BY <1>1, <1>2, <1>3, <2>1 DEF Due
  <2>2. CASE ~(thread_counter_us[t] <= global_tick)
    BY <1>1, <1>2, <1>3, <2>2 DEF Due, SleepsOn
  <2> QED BY <2>1, <2>2
<1> QED BY <1>4, <1>5

(* The thread that acts is awake, and so it is due.                        *)
LEMMA ActorIsDue ==
  ASSUME ProcessorInv, DueInv, NEW t \in Threads, Runs(t)
  PROVE  status[t] = ACTIVE /\ thread_counter_us[t] <= global_tick /\ Lasted(t)
BY ThreadsAssumption
   DEF ProcessorInv, RunningIsReady, Runs, DueInv, Due, ACTIVE, SLEPT

(* The steps that put nobody to sleep.                                     *)
LEMMA AwakePasses ==
  ASSUME EarlyParams, EarlyTypeOK, DueInv, NEW t \in Threads,
         Local(t) \/ Waits(t) \/ Calls(t)
  PROVE  Passes({}) /\ global_tick' = global_tick
<1>1. UNCHANGED clockVars
  BY LocalType, WaitsType, CallsType DEF Keeps
<1>2. global_tick \in Int
  BY DueTimes
<1>3. /\ ClockInv' /\ global_tick' = global_tick /\ global_tick <= global_tick'
      /\ carry_tick_counter' = 0
  BY <1>1, <1>2 DEF DueInv, ClockInv, clockVars
<1>4. ASSUME NEW u \in All  PROVE SleepsOn(u)
  <2>1. CASE Local(t)
    BY <2>1, LocalType, KeepsSleeps DEF Keeps
  <2>2. CASE Waits(t)
    <3>1. Blocks \/ UNCHANGED <<status, timerVars>>
      BY <2>2 DEF Waits, kernelVars, timerVars
    <3> QED BY <1>3, <3>1, AwakeYields, KeepsSleeps
  <2>3. CASE Calls(t)
    <3>1. \/ Keeps
          \/ \E th \in Blocked \intersect Threads : Unblocks(th)
      BY <2>3, CallsType
    <3>2. CASE Keeps
      BY <3>2, KeepsSleeps DEF Keeps
    <3>3. CASE \E th \in Blocked \intersect Threads : Unblocks(th)
      <4>1. \E th \in Threads : status[th] = BLOCKED /\ Unblocks(th)
        BY <3>3 DEF Blocked
      <4> QED BY <1>3, <4>1, AwakeYields
    <3> QED BY <3>1, <3>2, <3>3
  <2> QED BY <2>1, <2>2, <2>3
<1> QED BY <1>3, <1>4 DEF Passes

LEMMA AwakeDue ==
  ASSUME EarlyParams, EarlyTypeOK, ProcessorInv, DueInv, NEW t \in Threads,
         Local(t) \/ Waits(t) \/ Calls(t)
  PROVE  Due(t)' /\ Lasted(t)'
<1>1. Runs(t)
  BY LocalType, WaitsType, CallsType DEF Alone
<1>2. /\ thread_counter_us[t] <= global_tick /\ Lasted(t)
      /\ global_tick' = global_tick /\ global_tick \in Int
      /\ pc \in [Threads -> EarlyPCs]
      /\ thread_counter_us \in [Threads -> Ticks]
      /\ ticks_aux \in [Threads -> Ticks]
  BY <1>1, ActorIsDue, AwakePasses, DueTimes
     DEF EarlyTypeOK, EarlyPatternTypeOK
<1>3. CASE Begins(t) \/ IsReleased(t)
  <2>1. /\ thread_counter_us'[t] = global_tick
        /\ pc'[t] \in {"reset", "offset", "top"}
    BY <1>2, <1>3 DEF Begins, IsReleased, GoTo
  <2> QED BY <1>2, <2>1 DEF Due, Lasted
<1>4. CASE Waits(t) \/ Resets(t) \/ Calls(t)
  <2>1. /\ thread_counter_us'[t] = thread_counter_us[t]
        /\ pc'[t] \in {"reset", "exec"}
    BY <1>2, <1>4, CallsType DEF Waits, Resets, GoTo
  <2> QED BY <1>2, <2>1 DEF Due, Lasted
<1>5. CASE Finishes(t)
  <2>1. /\ thread_counter_us'[t] = thread_counter_us[t]
        /\ ticks_aux'[t] = global_tick
    BY <1>2, <1>5 DEF Finishes
  <2> QED BY <1>2, <2>1 DEF Due, Lasted
<1>6. CASE Charges(t) \/ Tests(t)
  <2>1. /\ thread_counter_us'[t] = thread_counter_us[t]
        /\ ticks_aux'[t] = ticks_aux[t] /\ pc[t] \in {"charge", "test"}
    BY <1>6 DEF Charges, Tests, At
  <2> QED BY <1>2, <2>1 DEF Due, Lasted
<1> QED BY <1>3, <1>4, <1>5, <1>6 DEF Local

LEMMA SleepsPasses ==
  ASSUME EarlyTypeOK, DueInv, NEW t \in Threads, Runs(t), NEW n, Sleeps(n)
  PROVE  /\ Passes({t}) /\ global_tick' = global_tick
         /\ ticks_to_wait'[t] = (n + global_tick) % TickMod
         /\ carry_ticks_to_wait'[t] =
              IF global_tick > (n + global_tick) % TickMod THEN 1 ELSE 0
         /\ \/ status'[t] = SLEPT
            \/ carry_ticks_to_wait'[t] = 0 /\ ticks_to_wait'[t] < global_tick
<1> DEFINE w  == (n + global_tick) % TickMod
           st == [status EXCEPT ![current_thread] = SLEPT]
           wk == [ticks_to_wait EXCEPT ![current_thread] = w]
           wc == [carry_ticks_to_wait EXCEPT
                    ![current_thread] = IF global_tick > wk[current_thread]
                                        THEN 1 ELSE 0]
<1>1. UNCHANGED clockVars /\ EarlyYield(st, wk, wc, "call")
  BY DEF Sleeps
<1>2. /\ global_tick \in Int /\ t \in All /\ current_thread = t
      /\ status \in [All -> Status] /\ ticks_to_wait \in [All -> Ticks]
      /\ carry_ticks_to_wait \in [All -> {0, 1}]
  BY DueTimes DEF EarlyTypeOK, SystemTypeOK, TableTypeOK, Runs
<1>3. /\ ClockInv' /\ global_tick' = global_tick /\ global_tick <= global_tick'
      /\ carry_tick_counter' = 0
  BY <1>1, <1>2 DEF DueInv, ClockInv, clockVars
<1>4. /\ st[t] = SLEPT /\ wk[t] = w
      /\ wc[t] = IF global_tick > w THEN 1 ELSE 0
      /\ \A u \in All \ {t} :
           /\ st[u] = status[u] /\ wk[u] = ticks_to_wait[u]
           /\ wc[u] = carry_ticks_to_wait[u]
  BY <1>2
<1> HIDE DEF w, st, wk, wc
<1>5. /\ ticks_to_wait'[t] = w /\ carry_ticks_to_wait'[t] = wc[t]
      /\ \/ status'[t] = SLEPT
         \/ carry_ticks_to_wait'[t] = 0 /\ ticks_to_wait'[t] < global_tick
  BY <1>1, <1>2, <1>3, <1>4, YieldSleeps
<1>6. ASSUME NEW u \in All \ {t}  PROVE SleepsOn(u)
  <2> SUFFICES ASSUME status[u] = SLEPT  PROVE SleepsOn(u)
    BY DEF SleepsOn
  <2>1. st[u] = SLEPT
    BY <1>4
  <2>2. /\ ticks_to_wait'[u] = wk[u] /\ carry_ticks_to_wait'[u] = wc[u]
        /\ status'[u] = SLEPT \/ (wc[u] = 0 /\ wk[u] < global_tick')
    BY <1>1, <1>3, <2>1, YieldSleeps
  <2> QED BY <1>4, <2>2 DEF SleepsOn
<1> QED BY <1>3, <1>4, <1>5, <1>6 DEF Passes, w

(* The sleep before the first job, and the one to the next.                *)
LEMMA SleepersDue ==
  ASSUME EarlyParams, EarlyTypeOK, ProcessorInv, DueInv, NEW t \in Threads,
         SleepsOffset(t) \/ SleepsToNext(t)
  PROVE  Passes({t}) /\ Due(t)' /\ Lasted(t)'
<1>1. Runs(t) /\ Alone(t)
  BY SleepersType DEF Alone
<1>2. /\ thread_counter_us[t] <= global_tick /\ Lasted(t)
      /\ pc \in [Threads -> EarlyPCs]
      /\ thread_counter_us \in [Threads -> Ticks]
  BY <1>1, ActorIsDue DEF EarlyTypeOK, EarlyPatternTypeOK
<1>3. CASE SleepsOffset(t)
  <2>1. /\ Sleeps(Offset[t]) /\ pc'[t] = "release"
        /\ thread_counter_us'[t] = thread_counter_us[t]
    BY <1>2, <1>3 DEF SleepsOffset, GoTo
  <2>2. Passes({t}) /\ global_tick' = global_tick
    BY <1>1, <2>1, SleepsPasses
  <2> QED BY <1>2, <2>1, <2>2 DEF Due, Lasted
<1>4. CASE SleepsToNext(t)
  <2> DEFINE c == thread_counter_us[t]
             a == ticks_aux[t]
             p == Period[t]
             n == (c + p - a) % TickMod
             w == (n + global_tick) % TickMod
             d == (c + p) % TickMod
  <2>1. /\ Sleeps(n) /\ thread_counter_us'[t] = d /\ pc[t] = "sleep"
        /\ pc'[t] \in {"top", "reset"}
    BY <1>2, <1>4 DEF SleepsToNext, GoTo, At
  <2>2. /\ TickMod \in Nat \ {0} /\ global_tick \in 0 .. TickMod - 1
        /\ c \in 0 .. TickMod - 1 /\ a \in 0 .. TickMod - 1
        /\ p \in 0 .. TickMod - 1
        /\ c <= a /\ a <= global_tick
    BY <1>2, <2>1, DueTimes DEF Lasted
  <2> HIDE DEF c, a, p
  <2>3. /\ w \in 0 .. TickMod - 1
        /\ w >= global_tick => w >= c + p
    BY <2>2, SleepCoversPeriod
  <2>4. d \in Nat /\ d <= c + p
    BY <2>2, ModSmaller
  <2> HIDE DEF n, d
  <2>5. /\ Passes({t}) /\ global_tick' = global_tick
        /\ ticks_to_wait'[t] = w
        /\ carry_ticks_to_wait'[t] = IF global_tick > w THEN 1 ELSE 0
        /\ \/ status'[t] = SLEPT
           \/ carry_ticks_to_wait'[t] = 0 /\ ticks_to_wait'[t] < global_tick
    BY <1>1, <2>1, SleepsPasses
  <2> HIDE DEF w
  <2>6. \/ carry_ticks_to_wait'[t] = 1
        \/ ticks_to_wait'[t] >= thread_counter_us'[t]
    BY <2>1, <2>2, <2>3, <2>4, <2>5
  <2>7. status'[t] = SLEPT
    BY <2>2, <2>3, <2>5
  <2>8. Due(t)' /\ Lasted(t)'
    BY <2>1, <2>6, <2>7 DEF Due, Lasted
  <2> QED BY <2>5, <2>8
<1> QED BY <1>3, <1>4

LEMMA DueStep ==
  ASSUME EarlyParams, EarlyTypeOK, ProcessorInv, DueInv, LastTick < TickMod,
         [EarlyNext]_earlyVars
  PROVE  DueInv'
<1>1. EarlyTypeOK'
  BY EarlyStepType
<1>2. CASE TimerTicks \/ MainYields \/ Returns \/ Stores
  <2>1. Passes({}) /\ UNCHANGED patternVars
    BY <1>2, SystemPasses
  <2>2. ASSUME NEW t \in Threads  PROVE Due(t)' /\ Lasted(t)'
    BY <1>1, <2>1, OthersDue DEF patternVars
  <2> QED BY <2>1, <2>2 DEF DueInv, Passes
<1>3. ASSUME NEW t \in Threads, Acts(t)  PROVE DueInv'
  <2>1. PICK S \in {{}, {t}} : Passes(S)
    BY <1>3, AwakePasses, SleepersDue DEF Acts
  <2>2. Due(t)' /\ Lasted(t)' /\ Alone(t)
    BY <1>3, AwakeDue, SleepersDue, LocalType, SleepersType, WaitsType,
       CallsType DEF Acts
  <2>3. ASSUME NEW u \in Threads, u # t  PROVE Due(u)' /\ Lasted(u)'
    <3>1. /\ pc'[u] = pc[u] /\ thread_counter_us'[u] = thread_counter_us[u]
          /\ ticks_aux'[u] = ticks_aux[u] /\ u \notin S
      BY <2>1, <2>2, <2>3 DEF Alone
    <3> QED BY <1>1, <2>1, <3>1, OthersDue
  <2> QED BY <2>1, <2>2, <2>3 DEF DueInv, Passes
<1>4. CASE UNCHANGED earlyVars
  BY <1>4 DEF earlyVars, kernelVars, patternVars, DueInv, ClockInv, Due, Lasted
<1> QED BY <1>2, <1>3, <1>4, EarlySteps

(* No job starts before it is due, as long as the counter does not wrap.   *)
THEOREM JobsAreDue ==
  ASSUME EarlyParams, LastTick < TickMod  PROVE EarlySpec => []NoJobTooEarly
<1>1. EarlyInit => DueInv
  <2> SUFFICES ASSUME EarlyInit  PROVE DueInv
    OBVIOUS
  <2>1. ClockInv
    BY TickModAssumption DEF EarlyInit, KernelInit, ClockInv
  <2>2. ASSUME NEW t \in Threads  PROVE Due(t) /\ Lasted(t)
    BY DEF EarlyInit, KernelInit, Due, Lasted
  <2> QED BY <2>1, <2>2 DEF DueInv
<1>2. EarlyTypeOK /\ ProcessorInv /\ DueInv /\ [EarlyNext]_earlyVars => DueInv'
  BY DueStep
<1>3. DueInv => NoJobTooEarly
  BY DEF DueInv, Due, NoJobTooEarly
<1> QED BY <1>1, <1>2, <1>3, ProcessorInvariance, PTL DEF EarlySpec
=============================================================================
