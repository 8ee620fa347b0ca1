------------------------ MODULE RTSemaphores_proofs -------------------------
(***************************************************************************)
(* What TLC checks on small instances of RTSemaphores, proved for every    *)
(* set of threads and semaphores and every program of the kind it models.  *)
(***************************************************************************)
EXTENDS RTSemaphores, RTKernel_proofs, FiniteSetTheorems, TLAPS

(***************************************************************************)
(* The inductive invariant.  That V meets the threads P has blocked, and   *)
(* only those, needs BlockedIsListed, and that they are in the list V      *)
(* walks; that it does so with no token left over, NoIdleToken.  The       *)
(* tokens of a lock are counted over the threads inside: a thread that     *)
(* waits for a lock is one of them.                                        *)
(***************************************************************************)
SemTypeOK ==
  /\ value \in [Sems -> Int]
  /\ freed \in SUBSET Sems
  /\ blocked_semaphore \in [Threads -> Sems \union {NULL}]

Waiters == BlockedIsListed /\ NoIdleToken

AllLinked == Threads \subseteq Linked

Core == KernelTypeOK /\ RunningIsReady /\ SemTypeOK /\ Waiters /\ AllLinked

WaitersAreInside ==
  \A sem \in Sems : MutexOnly(sem) =>
    \A t \in Threads : blocked_semaphore[t] = sem => <<t, sem>> \in inside

Users ==
  /\ inside \in SUBSET (Threads \X Sems)
  /\ NobodyWaitsForFreed
  /\ WaitersAreInside
  /\ TokensConserved

IInv == Core /\ Users

-----------------------------------------------------------------------------
(* The status of a waiting thread: thread_yield() leaves it alone.         *)
LEMMA YieldKeepsWaiters ==
  ASSUME NEW STATE st, NEW STATE wk, NEW STATE wc, NEW STATE li,
         ThreadYield(st, wk, wc, li)
  PROVE  \A t \in All : status'[t] = SEM_BLOCKED <=> st[t] = SEM_BLOCKED
<1>1. ASSUME NEW t \in All
      PROVE  status'[t] = SEM_BLOCKED <=> st[t] = SEM_BLOCKED
  <2>1. status'[t] = Awaken(st, wk, wc, t)
    BY DEF ThreadYield
  <2> QED BY <2>1 DEF Awaken, SEM_BLOCKED, SLEPT, ACTIVE
<1> QED BY <1>1

(* V and free find all who wait, as nobody is removed from the list.       *)
LEMMA AllFound ==
  ASSUME Core, NEW sem
  PROVE  Found(sem) = Waiting(sem)
BY DEF Core, AllLinked, Found, Waiting

LEMMA StaysLinked ==
  ASSUME Core, thread_list' = thread_list
  PROVE  AllLinked'
BY DEF Core, AllLinked, Linked

(* The thread that runs waits for nothing.                                 *)
LEMMA RunningWaitsForNone ==
  ASSUME Core, NEW t \in Threads, Runs(t)
  PROVE  /\ current_thread = t /\ status[t] = ACTIVE
         /\ blocked_semaphore[t] = NULL
<1>1. current_thread = t /\ t # Main
  BY ThreadsAssumption DEF Runs
<1>2. status[t] = ACTIVE
  BY <1>1 DEF Core, RunningIsReady
<1>3. status[t] # SEM_BLOCKED
  BY <1>2 DEF ACTIVE, SEM_BLOCKED
<1> QED BY <1>1, <1>2, <1>3 DEF Core, Waiters, BlockedIsListed

(* A yield by the current thread, after it has written st.                 *)
LEMMA CallKeepsKernel ==
  ASSUME KernelTypeOK, NEW STATE st, st \in [All -> Status],
         UNCHANGED clockVars, Suspend("call"),
         ThreadYield(st, ticks_to_wait, carry_ticks_to_wait, queue_last_input)
  PROVE  /\ KernelTypeOK' /\ RunningIsReady' /\ thread_list' = thread_list
         /\ \A t \in All : status'[t] = SEM_BLOCKED <=> st[t] = SEM_BLOCKED
<1>1. FramesOK'
  BY SuspendType DEF Frames
<1>2. /\ ticks_to_wait \in [All -> Ticks]
      /\ carry_ticks_to_wait \in [All -> {0, 1}]
      /\ queue_last_input \in [Threads -> Ticks]
  BY DEF KernelTypeOK
<1>3. thread_list' = thread_list
  BY DEF ThreadYield
<1> QED BY <1>1, <1>2, <1>3, CallType, YieldKeepsWaiters

-----------------------------------------------------------------------------
(* The operations keep Core.                                               *)

LEMMA PKeepsCore ==
  ASSUME Core, NEW t \in Threads, Runs(t), NEW sem \in Sems, P(sem)
  PROVE  Core'
<1>0. /\ current_thread = t /\ status[t] = ACTIVE
      /\ blocked_semaphore[t] = NULL
  BY RunningWaitsForNone
<1>1. CASE value[sem] <= 0
  <2> DEFINE st == [status EXCEPT ![current_thread] = SEM_BLOCKED]
  <2>1. /\ blocked_semaphore' = [blocked_semaphore EXCEPT ![t] = sem]
        /\ UNCHANGED <<clockVars, value, freed>>
        /\ ThreadYield(st, ticks_to_wait, carry_ticks_to_wait,
                       queue_last_input)
        /\ Suspend("call")
    BY <1>0, <1>1 DEF P, Core, SemTypeOK
  <2>2. st \in [All -> Status] /\ t \in All
    BY DEF Core, KernelTypeOK, Status, All
  <2>3. \A u \in All : st[u] = IF u = t THEN SEM_BLOCKED ELSE status[u]
    BY <1>0, <2>2 DEF Core, KernelTypeOK
  <2> HIDE DEF st
  <2>4. /\ KernelTypeOK' /\ RunningIsReady' /\ AllLinked'
        /\ \A u \in All : status'[u] = SEM_BLOCKED <=> st[u] = SEM_BLOCKED
    BY <2>1, <2>2, CallKeepsKernel, StaysLinked DEF Core
  <2>5. SemTypeOK'
    BY <2>1 DEF Core, SemTypeOK
  <2>6. BlockedIsListed'
    BY <2>1, <2>3, <2>4, SemsAssumption
    DEF Core, SemTypeOK, Waiters, BlockedIsListed, All
  <2>7. NoIdleToken'
    BY <1>1, <2>1 DEF Core, SemTypeOK, Waiters, NoIdleToken, Waiting
  <2> QED BY <2>4, <2>5, <2>6, <2>7 DEF Core, Waiters
<1>2. CASE value[sem] > 0
  <2>1. /\ value' = [value EXCEPT ![sem] = @ - 1]
        /\ UNCHANGED <<kernelVars, freed, blocked_semaphore>>
    BY <1>2 DEF P, Core, SemTypeOK
  <2>2. KernelTypeOK' /\ RunningIsReady' /\ AllLinked'
    BY <2>1, StaysLinked DEF Core, KernelTypeOK, RunningIsReady, kernelVars
  <2>3. SemTypeOK'
    BY <2>1 DEF Core, SemTypeOK
  <2>4. BlockedIsListed'
    BY <2>1 DEF Core, Waiters, BlockedIsListed, kernelVars
  <2>5. NoIdleToken'
    BY <1>2, <2>1 DEF Core, SemTypeOK, Waiters, NoIdleToken, Waiting
  <2> QED BY <2>2, <2>3, <2>4, <2>5 DEF Core, Waiters
<1> QED BY <1>1, <1>2 DEF P

LEMMA VKeepsCore ==
  ASSUME Core, NEW sem \in Sems, V(sem)
  PROVE  Core'
<1>1. CASE Waiting(sem) # {}
  <2>1. PICK t \in Waiting(sem) :
          /\ blocked_semaphore' = [blocked_semaphore EXCEPT ![t] = NULL]
          /\ UNCHANGED <<clockVars, value, freed>>
          /\ ThreadYield([status EXCEPT ![t] = ACTIVE], ticks_to_wait,
                         carry_ticks_to_wait, queue_last_input)
          /\ Suspend("call")
    BY <1>1, AllFound DEF V
  <2> DEFINE st == [status EXCEPT ![t] = ACTIVE]
  <2>2. t \in Threads /\ t \in All /\ st \in [All -> Status]
    BY DEF Waiting, Core, KernelTypeOK, Status, All
  <2>3. \A u \in All : st[u] = IF u = t THEN ACTIVE ELSE status[u]
    BY <2>2 DEF Core, KernelTypeOK
  <2>4. ThreadYield(st, ticks_to_wait, carry_ticks_to_wait, queue_last_input)
    BY <2>1
  <2> HIDE DEF st
  <2>5. /\ KernelTypeOK' /\ RunningIsReady' /\ AllLinked'
        /\ \A u \in All : status'[u] = SEM_BLOCKED <=> st[u] = SEM_BLOCKED
    BY <2>1, <2>2, <2>4, CallKeepsKernel, StaysLinked DEF Core
  <2>6. SemTypeOK'
    BY <2>1, <2>2 DEF Core, SemTypeOK
  <2>7. BlockedIsListed'
    BY <2>1, <2>2, <2>3, <2>5
    DEF Core, SemTypeOK, Waiters, BlockedIsListed, All, ACTIVE, SEM_BLOCKED
  <2>8. NoIdleToken'
    BY <2>1, <2>2, SemsAssumption
    DEF Core, SemTypeOK, Waiters, NoIdleToken, Waiting
  <2> QED BY <2>5, <2>6, <2>7, <2>8 DEF Core, Waiters
<1>2. CASE Waiting(sem) = {}
  <2>1. /\ value' = [value EXCEPT ![sem] = @ + 1]
        /\ UNCHANGED <<kernelVars, freed, blocked_semaphore>>
    BY <1>2, AllFound DEF V
  <2>2. KernelTypeOK' /\ RunningIsReady' /\ AllLinked'
    BY <2>1, StaysLinked DEF Core, KernelTypeOK, RunningIsReady, kernelVars
  <2>3. SemTypeOK'
    BY <2>1 DEF Core, SemTypeOK
  <2>4. BlockedIsListed'
    BY <2>1 DEF Core, Waiters, BlockedIsListed, kernelVars
  <2>5. NoIdleToken'
    BY <1>2, <2>1 DEF Core, SemTypeOK, Waiters, NoIdleToken, Waiting
  <2> QED BY <2>2, <2>3, <2>4, <2>5 DEF Core, Waiters
<1> QED BY <1>1, <1>2

LEMMA FreeKeepsCore ==
  ASSUME Core, NEW sem \in Sems, Free(sem)
  PROVE  /\ Core'
         /\ freed' = freed \union {sem} /\ value' = value
         /\ \A t \in Threads :
              blocked_semaphore'[t] = IF blocked_semaphore[t] = sem
                                      THEN NULL ELSE blocked_semaphore[t]
<1> DEFINE W == {t \in Waiting(sem) : status[t] = SEM_BLOCKED}
<1>1. /\ freed' = freed \union {sem} /\ value' = value
      /\ status' = [t \in All |-> IF t \in W THEN ACTIVE ELSE status[t]]
      /\ blocked_semaphore' =
           [t \in Threads |-> IF t \in W THEN NULL ELSE blocked_semaphore[t]]
      /\ UNCHANGED <<thread_list, current_thread, timerVars, clockVars,
                     costVars, queue_last_input, frames>>
  BY AllFound DEF Free
<1>2. \A t \in Threads : t \in W <=> blocked_semaphore[t] = sem
  BY SemsAssumption DEF Waiting, Core, Waiters, BlockedIsListed
<1>3. W \subseteq Threads
  BY DEF Waiting
<1> HIDE DEF W
<1>4. KernelTypeOK' /\ AllLinked'
  BY <1>1, StaysLinked
     DEF Core, KernelTypeOK, Status, timerVars, clockVars, costVars
<1>5. RunningIsReady'
  BY <1>1 DEF Core, KernelTypeOK, RunningIsReady
<1>6. SemTypeOK'
  BY <1>1 DEF Core, SemTypeOK
<1>7. BlockedIsListed'
  BY <1>1, <1>2, <1>3
  DEF Core, Waiters, BlockedIsListed, All, ACTIVE, SEM_BLOCKED
<1>8. NoIdleToken'
  BY <1>1, <1>2, SemsAssumption DEF Core, Waiters, NoIdleToken, Waiting
<1> QED BY <1>1, <1>2, <1>4, <1>5, <1>6, <1>7, <1>8 DEF Core, Waiters

(* The timer, naps, the return from thread_yield(): no semaphore changes.  *)
LEMMA OthersKeepCore ==
  ASSUME Core, UNCHANGED <<value, freed, blocked_semaphore>>,
         \/ TimerInterrupt \/ MainYield \/ YieldReturn \/ TimerInterruptReturn
         \/ \E t \in Threads : \E n \in Nat : Runs(t) /\ TickSleep(n)
         \/ UNCHANGED kernelVars
  PROVE  Core'
<1>1. /\ KernelTypeOK' /\ RunningIsReady' /\ thread_list' = thread_list
      /\ \A t \in Threads : status'[t] = SEM_BLOCKED <=> status[t] = SEM_BLOCKED
  <2>1. CASE TimerInterrupt \/ MainYield
    <3>1. KernelTypeOK' /\ RunningIsReady'
      BY <2>1, TimerType, MainYieldType DEF Core
    <3>2. ThreadYield(status, ticks_to_wait, carry_ticks_to_wait,
                      queue_last_input)
      BY <2>1 DEF TimerInterrupt, MainYield
    <3> QED BY <3>1, <3>2, YieldKeepsWaiters DEF All, ThreadYield
  <2>2. CASE YieldReturn \/ TimerInterruptReturn
    BY <2>2, ReturnType DEF Core, YieldReturn, TimerInterruptReturn
  <2>3. CASE \E t \in Threads : \E n \in Nat : Runs(t) /\ TickSleep(n)
    <3>1. PICK t \in Threads, n \in Nat : Runs(t) /\ TickSleep(n)
      BY <2>3
    <3> DEFINE st == [status EXCEPT ![current_thread] = SLEPT]
               wk == [ticks_to_wait EXCEPT
                        ![current_thread] = (n + global_tick) % TickMod]
               wc == [carry_ticks_to_wait EXCEPT
                        ![current_thread] =
                          IF global_tick > wk[current_thread] THEN 1 ELSE 0]
    <3>2. KernelTypeOK' /\ RunningIsReady'
      BY <3>1, TickSleepType DEF Core
    <3>3. ThreadYield(st, wk, wc, queue_last_input)
      BY <3>1 DEF TickSleep
    <3>4. current_thread = t /\ status[t] = ACTIVE
      BY <3>1, RunningWaitsForNone
    <3>5. \A u \in All : st[u] = SEM_BLOCKED <=> status[u] = SEM_BLOCKED
      BY <3>4 DEF Core, KernelTypeOK, ACTIVE, SLEPT, SEM_BLOCKED
    <3> HIDE DEF st, wk, wc
    <3>6. thread_list' = thread_list
      BY <3>3 DEF ThreadYield
    <3> QED BY <3>2, <3>3, <3>5, <3>6, YieldKeepsWaiters DEF All
  <2>4. CASE UNCHANGED kernelVars
    BY <2>4 DEF Core, KernelTypeOK, RunningIsReady, kernelVars
  <2> QED BY <2>1, <2>2, <2>3, <2>4
<1>2. SemTypeOK' /\ BlockedIsListed' /\ NoIdleToken'
  BY <1>1 DEF Core, SemTypeOK, Waiters, BlockedIsListed, NoIdleToken, Waiting
<1> QED BY <1>1, <1>2, StaysLinked DEF Core, Waiters

-----------------------------------------------------------------------------
(* Who is inside.  The holders of a semaphore are finitely many, and a     *)
(* step that neither lets a thread in, or out, nor makes it wait changes   *)
(* nothing for them.                                                       *)
LEMMA FiniteHolders == \A sem \in Sems : IsFiniteSet(Holders(sem))
<1>1. \A sem \in Sems : Holders(sem) \subseteq Threads
  BY DEF Holders
<1> QED BY <1>1, SemsAssumption, FS_Subset

(* P, as far as the semaphores see it.                                     *)
LEMMA PEffect ==
  ASSUME Core, NEW t \in Threads, Runs(t), NEW sem \in Sems, P(sem)
  PROVE  /\ freed' = freed /\ blocked_semaphore[t] = NULL
         /\ \/ /\ blocked_semaphore' = [blocked_semaphore EXCEPT ![t] = sem]
               /\ value' = value
            \/ /\ blocked_semaphore' = blocked_semaphore
               /\ value' = [value EXCEPT ![sem] = @ - 1]
BY RunningWaitsForNone DEF P

(* And V: one who waited gets the token, or it is counted.                 *)
LEMMA VEffect ==
  ASSUME Core, NEW sem \in Sems, V(sem)
  PROVE  /\ freed' = freed
         /\ \/ \E u \in Threads :
                 /\ blocked_semaphore[u] = sem
                 /\ blocked_semaphore' = [blocked_semaphore EXCEPT ![u] = NULL]
                 /\ value' = value
            \/ /\ blocked_semaphore' = blocked_semaphore
               /\ value' = [value EXCEPT ![sem] = @ + 1]
<1>1. ASSUME NEW u \in Found(sem)
      PROVE  u \in Threads /\ blocked_semaphore[u] = sem
  BY <1>1 DEF Found, Waiting
<1> QED BY <1>1 DEF V

LEMMA EnterKeepsUsers ==
  ASSUME IInv, NEW t \in Threads, NEW sem \in Locks[t] \ freed, Enter(t, sem)
  PROVE  Users'
<1>0. /\ sem \in Sems /\ <<t, sem>> \notin inside
      /\ inside' = inside \union {<<t, sem>>}
  BY SemsAssumption DEF Enter
<1>1. /\ freed' = freed /\ blocked_semaphore[t] = NULL
      /\ \/ /\ blocked_semaphore' = [blocked_semaphore EXCEPT ![t] = sem]
            /\ value' = value
         \/ /\ blocked_semaphore' = blocked_semaphore
            /\ value' = [value EXCEPT ![sem] = @ - 1]
  BY <1>0, PEffect DEF Enter, IInv
<1>2. inside' \in SUBSET (Threads \X Sems)
  BY <1>0 DEF IInv, Users
<1>3. NobodyWaitsForFreed'
  BY <1>1 DEF IInv, Core, SemTypeOK, Users, NobodyWaitsForFreed
<1>4. WaitersAreInside'
  BY <1>0, <1>1 DEF IInv, Core, SemTypeOK, Users, WaitersAreInside, MutexOnly
<1>5. ASSUME NEW s \in Sems, s \notin freed, MutexOnly(s)
      PROVE  value'[s] + Cardinality(Holders(s)') = Initialization[s]
  <2>0. /\ value[s] + Cardinality(Holders(s)) = Initialization[s]
        /\ value[s] \in Int /\ Cardinality(Holders(s)) \in Nat
    BY <1>5, FiniteHolders, FS_CardinalityType
    DEF IInv, Core, SemTypeOK, Users, TokensConserved
  <2>1. CASE s # sem
    <3>1. Holders(s)' = Holders(s)
      BY <1>0, <1>1, <2>1, SemsAssumption DEF Holders, IInv, Core, SemTypeOK
    <3>2. value'[s] = value[s]
      BY <1>1, <2>1 DEF IInv, Core, SemTypeOK
    <3> QED BY <2>0, <3>1, <3>2
  <2>2. CASE s = sem /\ value' = value
                /\ blocked_semaphore' = [blocked_semaphore EXCEPT ![t] = sem]
    <3>1. Holders(s)' = Holders(s)
      BY <1>0, <2>2 DEF Holders, IInv, Core, SemTypeOK
    <3> QED BY <2>0, <2>2, <3>1
  <2>3. CASE s = sem /\ value' = [value EXCEPT ![sem] = @ - 1]
                /\ blocked_semaphore' = blocked_semaphore
    <3>1. t \notin Holders(s) /\ Holders(s)' = Holders(s) \union {t}
      BY <1>0, <1>1, <2>3, SemsAssumption DEF Holders
    <3>2. Cardinality(Holders(s)') = Cardinality(Holders(s)) + 1
      BY <3>1, FiniteHolders, FS_AddElement
    <3>3. value'[s] = value[s] - 1
      BY <2>3 DEF IInv, Core, SemTypeOK
    <3> QED BY <2>0, <3>2, <3>3
  <2> QED BY <1>1, <2>1, <2>2, <2>3
<1>6. TokensConserved'
  BY <1>1, <1>5 DEF TokensConserved, MutexOnly
<1> QED BY <1>2, <1>3, <1>4, <1>6 DEF Users

LEMMA LeaveKeepsUsers ==
  ASSUME IInv, NEW t \in Threads, NEW sem \in Sems, Leave(t, sem)
  PROVE  Users'
<1>0. /\ <<t, sem>> \in inside /\ inside' = inside \ {<<t, sem>>}
      /\ blocked_semaphore[t] = NULL
  BY RunningWaitsForNone DEF Leave, IInv
<1>1. /\ freed' = freed
      /\ \/ \E u \in Threads :
              /\ blocked_semaphore[u] = sem
              /\ blocked_semaphore' = [blocked_semaphore EXCEPT ![u] = NULL]
              /\ value' = value
         \/ /\ blocked_semaphore' = blocked_semaphore
            /\ value' = [value EXCEPT ![sem] = @ + 1]
  BY VEffect DEF Leave, IInv
<1>2. inside' \in SUBSET (Threads \X Sems)
  BY <1>0 DEF IInv, Users
<1>3. NobodyWaitsForFreed'
  BY <1>1, SemsAssumption
  DEF IInv, Core, SemTypeOK, Users, NobodyWaitsForFreed
<1>4. WaitersAreInside'
  BY <1>0, <1>1, SemsAssumption
  DEF IInv, Core, SemTypeOK, Users, WaitersAreInside, MutexOnly
<1>5. ASSUME NEW s \in Sems, s \notin freed, MutexOnly(s)
      PROVE  value'[s] + Cardinality(Holders(s)') = Initialization[s]
  <2>0. /\ value[s] + Cardinality(Holders(s)) = Initialization[s]
        /\ value[s] \in Int /\ Cardinality(Holders(s)) \in Nat
    BY <1>5, FiniteHolders, FS_CardinalityType
    DEF IInv, Core, SemTypeOK, Users, TokensConserved
  <2>1. CASE s # sem
    <3>1. Holders(s)' = Holders(s)
      BY <1>0, <1>1, <2>1, SemsAssumption DEF Holders, IInv, Core, SemTypeOK
    <3>2. value'[s] = value[s]
      BY <1>1, <2>1 DEF IInv, Core, SemTypeOK
    <3> QED BY <2>0, <3>1, <3>2
  <2>2. t \in Holders(sem)
    BY <1>0, SemsAssumption DEF Holders
  <2>3. ASSUME s = sem, value' = value,
               NEW u \in Threads, blocked_semaphore[u] = sem,
               blocked_semaphore' = [blocked_semaphore EXCEPT ![u] = NULL]
        PROVE  value'[s] + Cardinality(Holders(s)') = Initialization[s]
    <3>1. <<u, s>> \in inside /\ u # t /\ u \notin Holders(s)
      BY <1>0, <1>5, <2>3, SemsAssumption
      DEF IInv, Users, WaitersAreInside, Holders
    <3>2. Holders(s)' = (Holders(s) \ {t}) \union {u}
      BY <1>0, <2>3, <3>1, SemsAssumption DEF Holders, IInv, Core, SemTypeOK
    <3>3. /\ IsFiniteSet(Holders(s) \ {t})
          /\ Cardinality(Holders(s) \ {t}) = Cardinality(Holders(s)) - 1
      BY <2>2, <2>3, FiniteHolders, FS_RemoveElement
    <3>4. Cardinality(Holders(s)') = Cardinality(Holders(s) \ {t}) + 1
      BY <3>1, <3>2, <3>3, FS_AddElement
    <3> QED BY <2>0, <2>3, <3>3, <3>4
  <2>4. CASE s = sem /\ value' = [value EXCEPT ![sem] = @ + 1]
                /\ blocked_semaphore' = blocked_semaphore
    <3>1. Holders(s)' = Holders(s) \ {t}
      BY <1>0, <2>4, SemsAssumption DEF Holders
    <3>2. Cardinality(Holders(s)') = Cardinality(Holders(s)) - 1
      BY <2>2, <2>4, <3>1, FiniteHolders, FS_RemoveElement
    <3>3. value'[s] = value[s] + 1
      BY <2>4 DEF IInv, Core, SemTypeOK
    <3> QED BY <2>0, <3>2, <3>3
  <2> QED BY <1>1, <2>1, <2>3, <2>4
<1>6. TokensConserved'
  BY <1>1, <1>5 DEF TokensConserved, MutexOnly
<1> QED BY <1>2, <1>3, <1>4, <1>6 DEF Users

(* P and V outside of a lock change a semaphore that is not only locked.   *)
LEMMA PostKeepsUsers ==
  ASSUME IInv, NEW sem \in Sems, sem \notin freed, ~ MutexOnly(sem),
         UNCHANGED inside,
         \/ V(sem)
         \/ \E t \in Threads : Runs(t) /\ P(sem)
  PROVE  Users'
<1>1. /\ freed' = freed
      /\ \A s \in Sems \ {sem} : value'[s] = value[s]
      /\ \A u \in Threads :
           blocked_semaphore'[u] # blocked_semaphore[u] =>
             {blocked_semaphore[u], blocked_semaphore'[u]} = {sem, NULL}
  <2>1. CASE V(sem)
    BY <2>1, VEffect DEF IInv, Core, SemTypeOK
  <2>2. CASE \E t \in Threads : Runs(t) /\ P(sem)
    BY <2>2, PEffect DEF IInv, Core, SemTypeOK
  <2> QED BY <2>1, <2>2
<1>2. NobodyWaitsForFreed'
  BY <1>1, SemsAssumption
  DEF IInv, Core, SemTypeOK, Users, NobodyWaitsForFreed
<1>3. WaitersAreInside'
  BY <1>1, SemsAssumption DEF IInv, Users, WaitersAreInside, MutexOnly
<1>4. ASSUME NEW s \in Sems, MutexOnly(s)
      PROVE  Holders(s)' = Holders(s) /\ value'[s] = value[s]
  <2>1. s # sem
    BY <1>4
  <2> QED BY <1>1, <2>1, SemsAssumption DEF Holders
<1>5. TokensConserved'
  BY <1>1, <1>4 DEF IInv, Users, TokensConserved, MutexOnly
<1> QED BY <1>2, <1>3, <1>5 DEF IInv, Users

LEMMA DeleteKeepsUsers ==
  ASSUME IInv, NEW sem \in Sems, Free(sem), UNCHANGED inside
  PROVE  Users'
<1>1. /\ freed' = freed \union {sem} /\ value' = value
      /\ \A t \in Threads :
           blocked_semaphore'[t] = IF blocked_semaphore[t] = sem
                                   THEN NULL ELSE blocked_semaphore[t]
  BY FreeKeepsCore DEF IInv
<1>2. NobodyWaitsForFreed'
  BY <1>1, SemsAssumption
  DEF IInv, Core, SemTypeOK, Users, NobodyWaitsForFreed
<1>3. WaitersAreInside'
  BY <1>1, SemsAssumption DEF IInv, Users, WaitersAreInside, MutexOnly
<1>4. \A s \in Sems \ freed' : Holders(s)' = Holders(s)
  BY <1>1, SemsAssumption DEF Holders
<1>5. TokensConserved'
  BY <1>1, <1>4 DEF IInv, Users, TokensConserved, MutexOnly
<1> QED BY <1>2, <1>3, <1>5 DEF IInv, Users

-----------------------------------------------------------------------------
(* The invariant.                                                          *)

LEMMA InitIInv == Init => IInv
<1> SUFFICES ASSUME Init PROVE IInv
  OBVIOUS
<1>1. KernelTypeOK /\ RunningIsReady
  BY KernelInitType DEF Init
<1>2. /\ SemTypeOK
      /\ inside = {} /\ inside \in SUBSET (Threads \X Sems)
      /\ \A t \in Threads : blocked_semaphore[t] = NULL
  BY SemsAssumption DEF Init, SemTypeOK
<1>3. BlockedIsListed
  BY <1>2, ThreadsAssumption
  DEF Init, KernelInit, BlockedIsListed, All, ACTIVE, SEM_BLOCKED
<1>4. NoIdleToken
  BY <1>2, SemsAssumption DEF Init, NoIdleToken, Waiting
<1>5. NobodyWaitsForFreed /\ WaitersAreInside
  BY <1>2, SemsAssumption DEF Init, NobodyWaitsForFreed, WaitersAreInside
<1>6. TokensConserved
  <2>1. \A sem \in Sems : Holders(sem) = {}
    BY <1>2 DEF Holders
  <2>2. Cardinality({}) = 0
    BY FS_EmptySet
  <2>3. \A sem \in Sems : value[sem] \in Nat /\ value = Initialization
    BY SemsAssumption DEF Init
  <2> QED BY <2>1, <2>2, <2>3 DEF TokensConserved
<1>7. AllLinked
  BY ThreadListAssumption DEF Init, KernelInit, AllLinked, Linked, All
<1> QED BY <1>1, <1>2, <1>3, <1>4, <1>5, <1>6, <1>7
        DEF IInv, Core, Waiters, Users

LEMMA StepIInv == IInv /\ [Next]_vars => IInv'
<1> SUFFICES ASSUME IInv, [Next]_vars PROVE IInv'
  OBVIOUS
<1> USE DEF IInv
<1>1. ASSUME NEW t \in Threads, NEW sem \in Locks[t] \ freed, Enter(t, sem)
      PROVE  IInv'
  BY <1>1, PKeepsCore, EnterKeepsUsers, SemsAssumption DEF Enter
<1>2. ASSUME NEW t \in Threads, NEW sem \in Locks[t], Leave(t, sem)
      PROVE  IInv'
  BY <1>2, VKeepsCore, LeaveKeepsUsers, SemsAssumption DEF Leave
<1>3. ASSUME NEW t \in Threads, NEW sem \in Waits[t] \ freed, WaitFor(t, sem)
      PROVE  IInv'
  <2>1. sem \in Sems /\ ~ MutexOnly(sem)
    BY SemsAssumption DEF MutexOnly
  <2> QED BY <1>3, <2>1, PKeepsCore, PostKeepsUsers DEF WaitFor
<1>4. ASSUME NEW t \in Threads, NEW sem \in Posts[t] \ freed, Post(t, sem)
      PROVE  IInv'
  <2>1. sem \in Sems /\ ~ MutexOnly(sem)
    BY SemsAssumption DEF MutexOnly
  <2> QED BY <1>4, <2>1, VKeepsCore, PostKeepsUsers DEF Post
<1>5. ASSUME NEW t \in Threads, NEW sem \in Frees[t] \ freed, Delete(t, sem)
      PROVE  IInv'
  BY <1>5, FreeKeepsCore, DeleteKeepsUsers, SemsAssumption DEF Delete
<1>6. ASSUME NEW sem \in Posted, InterruptPosts(sem) PROVE IInv'
  <2>1. sem \in Sems /\ ~ MutexOnly(sem)
    BY SemsAssumption DEF MutexOnly
  <2> QED BY <1>6, <2>1, VKeepsCore, PostKeepsUsers DEF InterruptPosts
<1>7. CASE \/ Tick \/ Return \/ MainLoop \/ UNCHANGED vars
           \/ \E t \in Threads : \E n \in Naps : Nap(t, n)
  <2>1. UNCHANGED semVars
    BY <1>7 DEF Tick, Return, MainLoop, Nap, vars
  <2>2. Core'
    BY <1>7, <2>1, OthersKeepCore, SemsAssumption
    DEF Tick, Return, MainLoop, Nap, vars, semVars
  <2>3. Users'
    BY <2>1 DEF semVars, Users, NobodyWaitsForFreed, WaitersAreInside,
                TokensConserved, Holders, MutexOnly
  <2> QED BY <2>2, <2>3
<1> QED BY <1>1, <1>2, <1>3, <1>4, <1>5, <1>6, <1>7 DEF Next

LEMMA Invariance == Spec => []IInv
BY InitIInv, StepIInv, PTL DEF Spec

(* Every variable of the semaphores, and of the kernel below, keeps its    *)
(* type.                                                                   *)
THEOREM TypeCorrect == Spec => []TypeOK
<1>1. IInv => TypeOK
  BY DEF IInv, Core, SemTypeOK, Users, TypeOK
<1> QED BY <1>1, Invariance, PTL

(* A thread that sleeps in P is one that a V, or the free, will find.      *)
THEOREM WaitersAreFound == Spec => []BlockedIsListed
<1>1. IInv => BlockedIsListed
  BY DEF IInv, Core, Waiters
<1> QED BY <1>1, Invariance, PTL

(* A thread waits for a semaphore only while its value is zero.            *)
THEOREM TokensAreUsed == Spec => []NoIdleToken
<1>1. IInv => NoIdleToken
  BY DEF IInv, Core, Waiters
<1> QED BY <1>1, Invariance, PTL

(* P and V around a section let in as many threads as there were tokens.   *)
THEOREM TokensAreConserved == Spec => []TokensConserved
<1>1. IInv => TokensConserved
  BY DEF IInv, Users
<1> QED BY <1>1, Invariance, PTL

(* No thread is left behind by thread_semaphore_free().                    *)
THEOREM FreeLeavesNobody == Spec => []NobodyWaitsForFreed
<1>1. IInv => NobodyWaitsForFreed
  BY DEF IInv, Users
<1> QED BY <1>1, Invariance, PTL
=============================================================================
