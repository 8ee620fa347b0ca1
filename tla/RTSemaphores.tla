---------------------------- MODULE RTSemaphores ----------------------------
(***************************************************************************)
(* The semaphores of the library, on the kernel of RTKernel, and threads   *)
(* that use them the way the example sketches do: around a section of code *)
(* between thread_semaphore_P() and thread_semaphore_V() (Locks), with P   *)
(* alone to wait (Waits) for what others announce with V alone (Posts).    *)
(* All may sleep, interrupt handlers may call V, and a thread may call     *)
(* thread_semaphore_free() at any time (Frees).  The call of V after a     *)
(* free is left to the program: these threads do not touch a freed one.    *)
(***************************************************************************)
EXTENDS RTKernel, FiniteSets

CONSTANTS
  Sems,
  NULL,
  Initialization,  (* thread_semaphore_create(initialization)                 *)
  Locks, Waits,    (* the semaphores each thread locks, and waits for         *)
  Posts, Frees,    (* and those it posts, and frees                           *)
  Posted,          (* the semaphores interrupt handlers call V on             *)
  Naps,            (* the ticks threads may sleep                             *)
  ValueCap         (* bound: no V on a semaphore whose value is that high     *)

ASSUME SemsAssumption ==
  /\ NULL \notin Sems
  /\ Initialization \in [Sems -> Nat]
  /\ {Locks, Waits, Posts, Frees} \subseteq [Threads -> SUBSET Sems]
  /\ Posted \subseteq Sems
  /\ Naps \subseteq Nat
  /\ ValueCap \in Nat
  /\ IsFiniteSet(Threads)

VARIABLES
  value,               (* sem->value                                          *)
  freed,               (* the semaphores given back to the heap               *)
  blocked_semaphore,   (* per thread                                          *)
  inside               (* which threads are between P and V of which          *)

semVars == <<value, freed, blocked_semaphore, inside>>
vars == <<kernelVars, semVars>>

TypeOK ==
  /\ KernelTypeOK
  /\ value \in [Sems -> Int]
  /\ freed \in SUBSET Sems
  /\ blocked_semaphore \in [Threads -> Sems \union {NULL}]
  /\ inside \in SUBSET (Threads \X Sems)

Init ==
  /\ KernelInit
  /\ value = Initialization
  /\ freed = {}
  /\ blocked_semaphore = [t \in Threads |-> NULL]
  /\ inside = {}

-----------------------------------------------------------------------------
(* Mutant: blocks when one token is left.                                  *)
PAtOne(sem) ==
  \/ /\ value[sem] <= 1
     /\ blocked_semaphore' =
          [blocked_semaphore EXCEPT ![current_thread] = sem]
     /\ UNCHANGED <<clockVars, value, freed>>
     /\ ThreadYield([status EXCEPT ![current_thread] = SEM_BLOCKED],
                    ticks_to_wait, carry_ticks_to_wait, queue_last_input)
     /\ Suspend("call")
  \/ /\ value[sem] > 1
     /\ value' = [value EXCEPT ![sem] = @ - 1]
     /\ UNCHANGED <<kernelVars, freed, blocked_semaphore>>

(* thread_semaphore_P(sem), interrupts off up to the switch, if any.       *)
P(sem) ==
  \/ /\ value[sem] <= 0
     /\ blocked_semaphore' =
          [blocked_semaphore EXCEPT ![current_thread] = sem]
     /\ UNCHANGED <<clockVars, value, freed>>
     /\ ThreadYield([status EXCEPT ![current_thread] = SEM_BLOCKED],
                    ticks_to_wait, carry_ticks_to_wait, queue_last_input)
     /\ Suspend("call")
  \/ /\ value[sem] > 0
     /\ value' = [value EXCEPT ![sem] = @ - 1]
     /\ UNCHANGED <<kernelVars, freed, blocked_semaphore>>

(* The loop of thread_semaphore_V() keeps the first waiting thread of the  *)
(* highest priority in thread_list.                                        *)
Waiting(sem) == {t \in Threads : blocked_semaphore[t] = sem}
Found(sem)   == Waiting(sem) \cap Linked

Goes(t, W) ==
  \A u \in W : \/ priority[u] < priority[t]
               \/ priority[u] = priority[t] /\ ListPos(t) <= ListPos(u)

(* Mutant: counts the token that was just handed over as well.             *)
VCountsToo(sem) ==
  \/ \E t \in Found(sem) :
       /\ Goes(t, Found(sem))
       /\ value' = [value EXCEPT ![sem] = @ + 1]
       /\ blocked_semaphore' = [blocked_semaphore EXCEPT ![t] = NULL]
       /\ UNCHANGED <<clockVars, freed>>
       /\ ThreadYield([status EXCEPT ![t] = ACTIVE], ticks_to_wait,
                      carry_ticks_to_wait, queue_last_input)
       /\ Suspend("call")
  \/ /\ Found(sem) = {}
     /\ value' = [value EXCEPT ![sem] = @ + 1]
     /\ UNCHANGED <<kernelVars, freed, blocked_semaphore>>

(* Mutant: wakes the thread and leaves blocked_semaphore set.              *)
VForgetsToClear(sem) ==
  \/ \E t \in Found(sem) :
       /\ Goes(t, Found(sem))
       /\ UNCHANGED <<clockVars, value, freed, blocked_semaphore>>
       /\ ThreadYield([status EXCEPT ![t] = ACTIVE], ticks_to_wait,
                      carry_ticks_to_wait, queue_last_input)
       /\ Suspend("call")
  \/ /\ Found(sem) = {}
     /\ value' = [value EXCEPT ![sem] = @ + 1]
     /\ UNCHANGED <<kernelVars, freed, blocked_semaphore>>

(* thread_semaphore_V(sem): the token goes to that thread, or is counted.  *)
V(sem) ==
  \/ \E t \in Found(sem) :
       /\ Goes(t, Found(sem))
       /\ blocked_semaphore' = [blocked_semaphore EXCEPT ![t] = NULL]
       /\ UNCHANGED <<clockVars, value, freed>>
       /\ ThreadYield([status EXCEPT ![t] = ACTIVE], ticks_to_wait,
                      carry_ticks_to_wait, queue_last_input)
       /\ Suspend("call")
  \/ /\ Found(sem) = {}
     /\ value' = [value EXCEPT ![sem] = @ + 1]
     /\ UNCHANGED <<kernelVars, freed, blocked_semaphore>>

(* Mutant: frees the memory and nothing else.                              *)
FreeOnly(sem) ==
  /\ freed' = freed \union {sem}
  /\ UNCHANGED <<kernelVars, value, blocked_semaphore>>

(* thread_semaphore_free(sem): whoever waits returns from its P.           *)
Free(sem) ==
  LET W == {t \in Found(sem) : status[t] = SEM_BLOCKED}
  IN  /\ freed' = freed \union {sem}
      /\ status' = [t \in All |-> IF t \in W THEN ACTIVE ELSE status[t]]
      /\ blocked_semaphore' =
           [t \in Threads |-> IF t \in W THEN NULL ELSE blocked_semaphore[t]]
      /\ UNCHANGED <<thread_list, current_thread, timerVars, clockVars,
                     costVars, queue_last_input, frames, value>>

-----------------------------------------------------------------------------
(* The threads                                                             *)
Enter(t, sem) ==
  /\ Runs(t) /\ <<t, sem>> \notin inside
  /\ P(sem)
  /\ inside' = inside \union {<<t, sem>>}

Leave(t, sem) ==
  /\ Runs(t) /\ <<t, sem>> \in inside /\ sem \notin freed
  /\ V(sem)
  /\ inside' = inside \ {<<t, sem>>}

WaitFor(t, sem) == Runs(t) /\ P(sem) /\ UNCHANGED inside

Post(t, sem) ==
  /\ Runs(t) /\ value[sem] < ValueCap
  /\ V(sem)
  /\ UNCHANGED inside

Delete(t, sem) == Runs(t) /\ Free(sem) /\ UNCHANGED inside

Nap(t, ticks) ==
  /\ Runs(t)
  /\ TickSleep(ticks)
  /\ UNCHANGED semVars

InterruptPosts(sem) ==
  /\ Len(frames[current_thread]) < MaxNest
  /\ sem \notin freed
  /\ value[sem] < ValueCap
  /\ V(sem)
  /\ UNCHANGED inside

Tick     == TimerInterrupt /\ UNCHANGED semVars
Return   == (YieldReturn \/ TimerInterruptReturn) /\ UNCHANGED semVars
MainLoop == MainYield /\ UNCHANGED semVars

Next ==
  \/ Tick \/ Return \/ MainLoop
  \/ \E t \in Threads :
       \/ \E sem \in Locks[t] \ freed : Enter(t, sem)
       \/ \E sem \in Locks[t]         : Leave(t, sem)
       \/ \E sem \in Waits[t] \ freed : WaitFor(t, sem)
       \/ \E sem \in Posts[t] \ freed : Post(t, sem)
       \/ \E sem \in Frees[t] \ freed : Delete(t, sem)
       \/ \E n \in Naps : Nap(t, n)
  \/ \E sem \in Posted : InterruptPosts(sem)

Spec == Init /\ [][Next]_vars

(* Fairness as in RTThreads, and strong for the timer: its flag stays up   *)
(* until the interrupt is taken.  A thread inside does leave.              *)
FairSpec ==
  /\ Spec
  /\ SF_vars(Tick)
  /\ SF_vars(MainLoop)
  /\ \A t \in All : SF_vars(Return /\ current_thread = t)
  /\ \A t \in Threads : \A sem \in Locks[t] : SF_vars(Leave(t, sem))

-----------------------------------------------------------------------------
(* Properties                                                              *)

(* A thread is out of the scheduler's reach exactly when some V, or the    *)
(* free, will find it: SEM_BLOCKED and blocked_semaphore never part.       *)
BlockedIsListed ==
  \A t \in Threads : status[t] = SEM_BLOCKED <=> blocked_semaphore[t] # NULL

(* No token lies idle while a thread waits for it.                         *)
NoIdleToken ==
  \A sem \in Sems : value[sem] >= 0 /\ (Waiting(sem) # {} => value[sem] = 0)

(* Tokens are neither made nor lost: those of a semaphore that only    *)
(* locked are its value and the threads inside that do not wait.           *)
MutexOnly(sem) ==
  sem \notin Posted /\ \A t \in Threads : sem \notin Waits[t] \union Posts[t]

Holders(sem) ==
  {t \in Threads : <<t, sem>> \in inside /\ blocked_semaphore[t] # sem}

TokensConserved ==
  \A sem \in Sems \ freed :
    MutexOnly(sem) =>
      value[sem] + Cardinality(Holders(sem)) = Initialization[sem]

(* thread_semaphore_free() leaves nobody waiting for what no longer exists.*)
NobodyWaitsForFreed ==
  \A t \in Threads : blocked_semaphore[t] \notin freed

(* Of two mutex threads, the one that waits is let in.                     *)
LetIn ==
  \A t \in Threads : \A sem \in Locks[t] :
    (<<t, sem>> \in inside /\ blocked_semaphore[t] = sem)
      ~> (blocked_semaphore[t] # sem)
=============================================================================
