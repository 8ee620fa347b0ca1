-------------------------- MODULE RTSketch_proofs ---------------------------
(***************************************************************************)
(* What holds of every sketch, whatever threads it creates and whatever    *)
(* their executors call, as long as it is a program of the kind RTSketch   *)
(* describes.  Each theorem names what it needs of the program; the module *)
(* Sketches has TLC test these conditions on the sketches of the library.  *)
(***************************************************************************)
EXTENDS RTSketch, RTKernel_proofs, FiniteSetTheorems

-----------------------------------------------------------------------------
(* Where the executors are                                                 *)

BodyTypeOK ==
  /\ pc \in [Threads -> PCs]
  /\ at \in [Threads -> Nat \ {0}]
  /\ \A t \in Threads : at[t] <= Len(Body[t]) + 1
  /\ jobs \in [Threads -> Nat]
  /\ signals \in [Threads -> Nat]

(* The executor of t performs an entry, skips the rest, or is over.        *)
Performs(t) ==
  /\ at[t] <= Len(Body[t])
  /\ at' = [at EXCEPT ![t] = @ + 1]
  /\ UNCHANGED <<pc, jobs>>

Skips(t) ==
  /\ at[t] <= Len(Body[t]) /\ Body[t][at[t]][1] \in {"input", "first"}
  /\ at' = [at EXCEPT ![t] = Len(Body[t]) + 1]
  /\ UNCHANGED <<pc, jobs>>

Finishes(t) ==
  /\ pc[t] = "exec" /\ pc' = [pc EXCEPT ![t] = "account"]
  /\ at[t] > Len(Body[t]) /\ at' = [at EXCEPT ![t] = 1]
  /\ jobs' = [jobs EXCEPT ![t] = @ + 1]

Elsewhere == UNCHANGED <<at, jobs>>

(* The entry that is performed is a call with its argument.                *)
LEMMA EntryPerformed ==
  ASSUME SketchParams, BodyTypeOK, NEW t \in Threads, at[t] <= Len(Body[t])
  PROVE  /\ Len(Body[t]) \in Nat
         /\ at[t] \in 1 .. Len(Body[t])
         /\ Body[t][at[t]] \in Entries
         /\ Body[t][at[t]] = <<Body[t][at[t]][1], Body[t][at[t]][2]>>
<1>1. Body[t] \in Seq(Entries)
  BY DEF SketchParams
<1>2. Len(Body[t]) \in Nat /\ at[t] \in 1 .. Len(Body[t])
  BY <1>1 DEF BodyTypeOK
<1>3. Body[t][at[t]] \in Entries
  BY <1>1, <1>2
<1>4. Body[t][at[t]] = <<Body[t][at[t]][1], Body[t][at[t]][2]>>
  BY <1>3 DEF Entries
<1> QED BY <1>2, <1>3, <1>4

LEMMA ArgumentOK ==
  ASSUME SketchParams, BodyTypeOK, NEW t \in Threads, NEW call,
         Performing(t, call)
  PROVE  /\ call \in {"signal", "unblock"} => Argument(t) \in EventDriven
         /\ call \in {"P", "V"} => Argument(t) \in Sems
         /\ call \in {"ATS_signal", "remove"} => Argument(t) \in Threads
         /\ Body[t][at[t]] = <<call, Argument(t)>>
<1>1. /\ Body[t][at[t]] \in Entries
      /\ Body[t][at[t]] = <<Body[t][at[t]][1], Body[t][at[t]][2]>>
  BY EntryPerformed DEF Performing
<1>2. Body[t][at[t]][1] = call
  BY DEF Performing
<1> QED BY <1>1, <1>2 DEF Entries, Argument

(* What a step of the whole does to the executors.                         *)
LEMMA BodyStep ==
  ASSUME BodyTypeOK, SketchNext
  PROVE  \/ Elsewhere
         \/ \E t \in Threads : \/ Performs(t) /\ Executes(t)
                               \/ Skips(t)
                               \/ Finishes(t)
<1>1. ASSUME Interrupted \/ Idles \/ Returns
      PROVE  Elsewhere
  BY <1>1 DEF Interrupted, Idles, Returns, bodyVars, Elsewhere
<1>2. ASSUME NEW t \in All, Activates(t)
      PROVE  Elsewhere
  BY <1>2 DEF Activates, bodyVars, Elsewhere
<1>3. ASSUME NEW t \in Threads,
             Continues(t) \/ YieldsInCall(t) \/ SpinsForever(t)
      PROVE  Elsewhere
  BY <1>3 DEF Continues, YieldsInCall, SpinsForever, sketchVars, bodyVars,
              Elsewhere
<1>4. ASSUME NEW t \in Threads, Executes(t)
      PROVE  (Performs(t) /\ Executes(t)) \/ Skips(t)
  <2> SUFFICES Performs(t) \/ Skips(t)
    BY <1>4
  <2>1. CASE Inputs(t)
    BY <2>1 DEF Inputs, Performing, Advance, Performs, Skips, vars, patternVars
  <2>5. CASE OnlyOnce(t)
    <3>1. \/ at' = [at EXCEPT ![t] = @ + 1]
          \/ at' = [at EXCEPT ![t] = Len(Body[t]) + 1]
      BY <2>5 DEF OnlyOnce
    <3> QED BY <2>5, <3>1
            DEF OnlyOnce, Performing, Performs, Skips, vars, patternVars
  <2>2. CASE Signals(t)
    BY <2>2 DEF Signals, Performing, Advance, Performs, ThreadSignal
  <2>3. CASE Unblocks(t) \/ Takes(t) \/ Gives(t) \/ Enables(t) \/ Disables(t)
               \/ SignalsATS(t) \/ Removes(t)
    BY <2>3 DEF Unblocks, Takes, Gives, Enables, Disables, SignalsATS, Removes,
                Performing, Advance, Performs, patternVars
  <2>4. CASE Gets(t) \/ Sets(t) \/ Uses(t)
    BY <2>4 DEF Gets, Sets, Uses, Performing, Advance, Performs, vars,
                patternVars
  <2> QED BY <1>4, <2>1, <2>2, <2>3, <2>4, <2>5 DEF Executes
<1>5. ASSUME NEW t \in Threads, Ends(t)
      PROVE  Finishes(t)
  BY <1>5 DEF Ends, ExecutorEnds, At, GoTo, Finishes
<1> QED BY <1>1, <1>2, <1>3, <1>4, <1>5 DEF SketchNext

(* The entry tells the action.                                             *)
LEMMA CallStep ==
  ASSUME NEW t \in Threads, Executes(t)
  PROVE  /\ Body[t][at[t]][1] = "P" => Takes(t)
         /\ Body[t][at[t]][1] = "V" => Gives(t)
         /\ Body[t][at[t]][1] = "set" => Sets(t)
         /\ Body[t][at[t]][1] = "remove" => Removes(t)
BY DEF Executes, Performing, Signals, Unblocks, Takes, Gives, Gets, Sets, Uses,
       Inputs, OnlyOnce, Enables, Disables, SignalsATS, Removes

(* The types are kept.                                                     *)
LEMMA BodyTypeInit ==
  ASSUME SketchParams, SketchInit
  PROVE  BodyTypeOK
<1>1. \A t \in Threads : Len(Body[t]) \in Nat
  BY DEF SketchParams
<1> QED BY <1>1 DEF SketchInit, Init, BodyTypeOK, PCs

LEMMA PatternKeepsPCs ==
  ASSUME BodyTypeOK, NEW t \in Threads, Pattern(t)
  PROVE  pc' \in [Threads -> PCs]
<1>1. ASSUME NEW p \in PCs, GoTo(t, p)
      PROVE  pc' \in [Threads -> PCs]
  BY <1>1 DEF GoTo, BodyTypeOK
<1>2. /\ AfterJob(t) \in PCs
      /\ \A v : AfterTest(t, v, "cost") \in PCs
      /\ \A v : AfterTest(t, v, AfterJob(t)) \in PCs
  BY DEF AfterJob, AfterTest, PCs
<1>3. CASE Entry(t) \/ SleepOffset(t) \/ Proceed(t) \/ Await(t) \/ AwaitOver(t)
  BY <1>1, <1>3
     DEF Entry, SleepOffset, Proceed, Await, AwaitOver, PCs
<1>4. CASE Release(t) \/ Reset(t) \/ ExecutorEnds(t) \/ SleepToNext(t)
             \/ Decrement(t)
  BY <1>1, <1>4 DEF Release, Reset, ExecutorEnds, SleepToNext, Decrement, PCs
<1>5. CASE AwaitAgain(t)
  BY <1>5 DEF AwaitAgain, patternVars, BodyTypeOK
<1>6. CASE Account(t)
  BY <1>1, <1>2, <1>6 DEF Account
<1>7. CASE TestCost(t)
  BY <1>1, <1>2, <1>7 DEF TestCost
<1> QED BY <1>3, <1>4, <1>5, <1>6, <1>7 DEF Pattern

(* Where pc and signals may change.                                        *)
LEMMA PatternStep ==
  ASSUME SketchNext
  PROVE  \/ UNCHANGED <<pc, queue_pending, signals>>
         \/ \E t \in Threads : \/ Signals(t)
                               \/ Ends(t)
                               \/ Continues(t)
<1>1. ASSUME Interrupted \/ Idles \/ Returns
      PROVE  UNCHANGED <<pc, queue_pending, signals>>
  BY <1>1 DEF Interrupted, Idles, Returns, Tick, MainLoop, Return, patternVars,
              bodyVars
<1>2. ASSUME NEW t \in All, Activates(t)
      PROVE  UNCHANGED <<pc, queue_pending, signals>>
  BY <1>2 DEF Activates, patternVars, bodyVars
<1>3. ASSUME NEW t \in Threads, YieldsInCall(t) \/ SpinsForever(t)
      PROVE  UNCHANGED <<pc, queue_pending, signals>>
  BY <1>3 DEF YieldsInCall, SpinsForever, sketchVars, vars, patternVars,
              bodyVars
<1>4. ASSUME NEW t \in Threads, Executes(t), ~ Signals(t)
      PROVE  UNCHANGED <<pc, queue_pending, signals>>
  <2>1. CASE Unblocks(t) \/ Takes(t) \/ Gives(t) \/ Enables(t) \/ Disables(t)
               \/ SignalsATS(t) \/ Removes(t)
    BY <2>1 DEF Unblocks, Takes, Gives, Enables, Disables, SignalsATS, Removes,
                patternVars
  <2>2. CASE Gets(t) \/ Sets(t) \/ Uses(t) \/ Inputs(t) \/ OnlyOnce(t)
    BY <2>2 DEF Gets, Sets, Uses, Inputs, OnlyOnce, vars, patternVars
  <2> QED BY <1>4, <2>1, <2>2 DEF Executes
<1> QED BY <1>1, <1>2, <1>3, <1>4 DEF SketchNext

LEMMA BodyTypeStep ==
  ASSUME SketchParams, BodyTypeOK, [SketchNext]_sketchVars
  PROVE  BodyTypeOK'
<1>0. \A t \in Threads : Len(Body[t]) \in Nat
  BY DEF SketchParams
<1>1. CASE UNCHANGED sketchVars
  BY <1>1 DEF sketchVars, vars, patternVars, bodyVars, BodyTypeOK
<1>2. CASE SketchNext
  <2>1. /\ at' \in [Threads -> Nat \ {0}] /\ jobs' \in [Threads -> Nat]
        /\ \A t \in Threads : at'[t] <= Len(Body[t]) + 1
    <3>1. CASE Elsewhere
      BY <3>1 DEF Elsewhere, BodyTypeOK
    <3>2. ASSUME NEW t \in Threads, Performs(t)
          PROVE  <2>1
      <4>1. at[t] + 1 \in Nat \ {0} /\ at[t] + 1 <= Len(Body[t]) + 1
        BY <1>0, <3>2 DEF Performs, BodyTypeOK
      <4> QED BY <3>2, <4>1 DEF Performs, BodyTypeOK
    <3>3. ASSUME NEW t \in Threads, Skips(t)
          PROVE  <2>1
      <4>1. Len(Body[t]) + 1 \in Nat \ {0}
        BY <1>0
      <4> QED BY <3>3, <4>1 DEF Skips, BodyTypeOK
    <3>4. ASSUME NEW t \in Threads, Finishes(t)
          PROVE  <2>1
      <4>1. 1 <= Len(Body[t]) + 1 /\ jobs[t] + 1 \in Nat
        BY <1>0 DEF BodyTypeOK
      <4> QED BY <3>4, <4>1 DEF Finishes, BodyTypeOK
    <3> QED BY <1>2, <3>1, <3>2, <3>3, <3>4, BodyStep
  <2>2. pc' \in [Threads -> PCs] /\ signals' \in [Threads -> Nat]
    <3>1. CASE UNCHANGED <<pc, queue_pending, signals>>
      BY <3>1 DEF BodyTypeOK
    <3>2. ASSUME NEW t \in Threads, Signals(t)
          PROVE  <2>2
      <4>1. Argument(t) \in Threads
        BY <3>2, ArgumentOK DEF Signals, EventDriven
      <4>2. signals[Argument(t)] + 1 \in Nat
        BY <4>1 DEF BodyTypeOK
      <4> QED BY <3>2, <4>2 DEF Signals, ThreadSignal, BodyTypeOK
    <3>3. ASSUME NEW t \in Threads, Ends(t)
          PROVE  <2>2
      BY <3>3 DEF Ends, ExecutorEnds, GoTo, BodyTypeOK, PCs
    <3>4. ASSUME NEW t \in Threads, Continues(t)
          PROVE  <2>2
      BY <3>4, PatternKeepsPCs DEF Continues, bodyVars, BodyTypeOK
    <3> QED BY <1>2, <3>1, <3>2, <3>3, <3>4, PatternStep
  <2> QED BY <2>1, <2>2 DEF BodyTypeOK
<1> QED BY <1>1, <1>2

-----------------------------------------------------------------------------
(* Signals are served once.  A signal accepted stays pending until the job *)
(* it releases is over, so a thread that does a job has one pending.       *)

Over == {"account", "cost", "sleep", "dec", "spin"}

ServedInv ==
  /\ queue_pending \in [Threads -> Int]
  /\ \A th \in EventDriven :
       /\ queue_pending[th] >= IF pc[th] \in Jobs THEN 1 ELSE 0
       /\ Served(th) + queue_pending[th] <= signals[th]
       /\ SavesAll(th) => Served(th) + queue_pending[th] = signals[th]

LEMMA ServedOnce ==
  ASSUME BodyTypeOK, ServedInv
  PROVE  SignalsServedOnce
<1> SUFFICES ASSUME NEW th \in EventDriven
             PROVE  /\ Started(th) <= signals[th]
                    /\ SavesAll(th)
                         => Served(th) + queue_pending[th] = signals[th]
  BY DEF SignalsServedOnce
<1>1. /\ jobs[th] \in Nat /\ signals[th] \in Nat /\ pc[th] \in PCs
      /\ queue_pending[th] \in Int
  BY DEF EventDriven, BodyTypeOK, ServedInv
<1>2. Started(th) <= Served(th) + queue_pending[th]
  BY <1>1 DEF ServedInv, Started, Served, Jobs, PCs
<1>3. Started(th) \in Int /\ Served(th) + queue_pending[th] \in Int
  BY <1>1 DEF Started, Served
<1> QED BY <1>1, <1>2, <1>3 DEF ServedInv

(* Nothing but the passage to a new job, its end and the decrement moves a *)
(* thread between the parts of periodic_pattern() the count depends on.    *)
LEMMA PatternMoves ==
  ASSUME BodyTypeOK, ServedInv, NEW t \in Threads, Pattern(t), pc[t] # "exec"
  PROVE  \/ /\ Decrement(t)
            /\ pc[t] = "dec" /\ pc' = [pc EXCEPT ![t] = "top"]
         \/ /\ pc[t] \in {"top", "await"} /\ pc' = [pc EXCEPT ![t] = "release"]
            /\ t \in EventDriven => queue_pending[t] > 0
            /\ queue_pending' = queue_pending
         \/ /\ pc' \in [Threads -> PCs] /\ queue_pending' = queue_pending
            /\ \A u \in Threads : /\ pc'[u] \in Over <=> pc[u] \in Over
                                  /\ pc'[u] \in Jobs <=> pc[u] \in Jobs
<1> USE DEF BodyTypeOK
<1>0. pc' \in [Threads -> PCs]
  BY PatternKeepsPCs
<1>1. CASE Decrement(t)
  BY <1>1 DEF Decrement, At, GoTo
<1>2. CASE Proceed(t) \/ AwaitOver(t)
  BY <1>2 DEF Proceed, AwaitOver, ReturnFromBlock, At, GoTo
<1>3. CASE Entry(t) \/ SleepOffset(t) \/ Await(t) \/ Release(t) \/ Reset(t)
             \/ SleepToNext(t)
  BY <1>0, <1>3
     DEF Entry, SleepOffset, Await, Release, Reset, SleepToNext, At, GoTo, Over,
         Jobs
<1>4. CASE AwaitAgain(t)
  BY <1>0, <1>4 DEF AwaitAgain, patternVars
<1>5. CASE Account(t)
  <2>1. /\ pc[t] = "account" /\ queue_pending' = queue_pending
        /\ \E p \in Over : pc' = [pc EXCEPT ![t] = p]
    BY <1>5 DEF Account, At, GoTo, AfterJob, AfterTest, Over
  <2> QED BY <1>0, <2>1 DEF Over, Jobs
<1>6. CASE TestCost(t)
  <2>1. /\ pc[t] = "cost" /\ queue_pending' = queue_pending
        /\ \E p \in Over : pc' = [pc EXCEPT ![t] = p]
    BY <1>6 DEF TestCost, At, GoTo, AfterJob, AfterTest, Over
  <2> QED BY <1>0, <2>1 DEF Over, Jobs
<1>7. ~ ExecutorEnds(t)
  BY DEF ExecutorEnds, At
<1> QED BY <1>1, <1>2, <1>3, <1>4, <1>5, <1>6, <1>7 DEF Pattern

LEMMA ServedStep ==
  ASSUME SketchParams, BodyTypeOK, ServedInv, [SketchNext]_sketchVars
  PROVE  ServedInv'
<1>0. \A th \in EventDriven :
        /\ th \in Threads /\ pc[th] \in PCs /\ jobs[th] \in Nat
        /\ signals[th] \in Nat /\ queue_pending[th] \in Int
  BY DEF EventDriven, BodyTypeOK, ServedInv
<1>1. CASE UNCHANGED sketchVars
  BY <1>1 DEF sketchVars, vars, patternVars, bodyVars, ServedInv, Served
<1>2. CASE SketchNext /\ UNCHANGED <<pc, queue_pending, signals>>
  <2>1. jobs' = jobs
    <3>1. ASSUME NEW t \in Threads
          PROVE  ~ Finishes(t)
      BY <1>2 DEF Finishes, BodyTypeOK
    <3> QED BY <1>2, <3>1, BodyStep DEF Elsewhere, Performs, Skips
  <2> QED BY <1>2, <2>1 DEF ServedInv, Served
<1>3. ASSUME NEW t \in Threads, Signals(t)
      PROVE  ServedInv'
  <2>1. PICK a \in EventDriven : a = Argument(t)
    BY <1>3, ArgumentOK DEF Signals
  <2>2. /\ UNCHANGED <<pc, jobs>>
        /\ signals' = [signals EXCEPT ![a] = @ + 1]
        /\ queue_pending' = IF Counts(a)
                            THEN [queue_pending EXCEPT ![a] = @ + 1]
                            ELSE queue_pending
    BY <1>3, <2>1 DEF Signals, Performing, ThreadSignal
  <2>3. SavesAll(a) => Counts(a)
    BY DEF SavesAll, Counts, InTime
  <2>4. queue_pending' \in [Threads -> Int]
    BY <1>0, <2>1, <2>2 DEF ServedInv
  <2>5. ASSUME NEW th \in EventDriven, th # a
        PROVE  UNCHANGED <<pc[th], jobs[th], signals[th], queue_pending[th]>>
    BY <1>0, <2>2, <2>5 DEF ServedInv, BodyTypeOK
  <2>6. /\ UNCHANGED <<pc[a], jobs[a]>>
        /\ signals'[a] = signals[a] + 1
        /\ queue_pending'[a] = IF Counts(a) THEN queue_pending[a] + 1
                               ELSE queue_pending[a]
    BY <1>0, <2>1, <2>2 DEF ServedInv, BodyTypeOK
  <2>7. ASSUME NEW th \in EventDriven
        PROVE  /\ queue_pending'[th] >= IF pc'[th] \in Jobs THEN 1 ELSE 0
               /\ Served(th)' + queue_pending'[th] <= signals'[th]
               /\ SavesAll(th)
                    => Served(th)' + queue_pending'[th] = signals'[th]
    <3>1. Served(th)' = Served(th) /\ Served(th) \in Int
      BY <1>0, <2>5, <2>6 DEF Served
    <3>2. CASE th = a
      BY <1>0, <2>3, <2>6, <3>1, <3>2 DEF ServedInv
    <3>3. CASE th # a
      BY <2>5, <3>1, <3>3 DEF ServedInv
    <3> QED BY <3>2, <3>3
  <2> QED BY <2>4, <2>7 DEF ServedInv
<1>4. ASSUME NEW t \in Threads, Ends(t)
      PROVE  ServedInv'
  <2>1. /\ pc[t] = "exec" /\ pc' = [pc EXCEPT ![t] = "account"]
        /\ jobs' = [jobs EXCEPT ![t] = @ + 1]
        /\ UNCHANGED <<queue_pending, signals>>
    BY <1>4 DEF Ends, ExecutorEnds, At, GoTo
  <2>2. ASSUME NEW th \in EventDriven
        PROVE  /\ pc'[th] \in Jobs <=> pc[th] \in Jobs
               /\ Served(th)' = Served(th)
    BY <1>0, <2>1 DEF Served, Jobs, BodyTypeOK
  <2> QED BY <2>1, <2>2 DEF ServedInv
<1>5. ASSUME NEW t \in Threads, Continues(t)
      PROVE  ServedInv'
  <2>1. Pattern(t) /\ pc[t] # "exec" /\ UNCHANGED <<jobs, signals>>
    BY <1>5 DEF Continues, bodyVars
  <2>2. CASE Decrement(t) /\ pc[t] = "dec" /\ pc' = [pc EXCEPT ![t] = "top"]
    <3>1. queue_pending' = IF t \in EventDriven
                           THEN [queue_pending EXCEPT ![t] = @ - 1]
                           ELSE queue_pending
      BY <2>2 DEF Decrement
    <3>2. queue_pending' \in [Threads -> Int]
      BY <1>0, <3>1 DEF ServedInv
    <3>3. ASSUME NEW th \in EventDriven
          PROVE  /\ queue_pending'[th] >= IF pc'[th] \in Jobs THEN 1 ELSE 0
                 /\ Served(th)' + queue_pending'[th]
                      = Served(th) + queue_pending[th]
      <4>1. CASE th = t
        <5>1. /\ pc[th] = "dec" /\ pc'[th] = "top"
              /\ queue_pending'[th] = queue_pending[th] - 1
          BY <1>0, <2>2, <3>1, <4>1 DEF ServedInv, BodyTypeOK
        <5> QED BY <1>0, <2>1, <5>1 DEF ServedInv, Served, Jobs
      <4>2. CASE th # t
        <5>1. UNCHANGED <<pc[th], queue_pending[th]>>
          BY <1>0, <2>2, <3>1, <4>2 DEF ServedInv, BodyTypeOK
        <5> QED BY <2>1, <5>1 DEF ServedInv, Served
      <4> QED BY <4>1, <4>2
    <3> QED BY <2>1, <3>2, <3>3 DEF ServedInv
  <2>3. CASE /\ pc[t] \in {"top", "await"} /\ pc' = [pc EXCEPT ![t] = "release"]
             /\ t \in EventDriven => queue_pending[t] > 0
             /\ queue_pending' = queue_pending
    <3>1. ASSUME NEW th \in EventDriven
          PROVE  /\ queue_pending[th] >= IF pc'[th] \in Jobs THEN 1 ELSE 0
                 /\ Served(th)' = Served(th)
      BY <1>0, <2>1, <2>3 DEF ServedInv, BodyTypeOK, Served, Jobs
    <3> QED BY <2>1, <2>3, <3>1 DEF ServedInv
  <2>4. CASE /\ pc' \in [Threads -> PCs] /\ queue_pending' = queue_pending
             /\ \A u \in Threads : /\ pc'[u] \in Over <=> pc[u] \in Over
                                   /\ pc'[u] \in Jobs <=> pc[u] \in Jobs
    <3>1. ASSUME NEW th \in EventDriven
          PROVE  Served(th)' = Served(th)
      BY <1>0, <2>1, <2>4 DEF Served, Over
    <3> QED BY <1>0, <2>1, <2>4, <3>1 DEF ServedInv
  <2> QED BY <2>1, <2>2, <2>3, <2>4, PatternMoves
<1> QED BY <1>1, <1>2, <1>3, <1>4, <1>5, PatternStep

(* No thread of a sketch does more jobs than it was signalled; one whose   *)
(* policies are SAVE does one for every signal, however the signals fall   *)
(* between its tests of queue_pending, its blocking and its decrements.    *)
THEOREM JobsAreSignalled ==
  ASSUME SketchParams
  PROVE  SketchSpec => []SignalsServedOnce
<1> USE SketchParams
<1>1. SketchInit => BodyTypeOK /\ ServedInv
  <2> SUFFICES ASSUME SketchInit PROVE BodyTypeOK /\ ServedInv
    OBVIOUS
  <2>1. BodyTypeOK
    BY BodyTypeInit
  <2>2. ServedInv
    BY DEF SketchInit, Init, ServedInv, Served, EventDriven, Jobs
  <2> QED BY <2>1, <2>2
<1>2. BodyTypeOK /\ ServedInv /\ [SketchNext]_sketchVars
        => (BodyTypeOK /\ ServedInv)'
  BY BodyTypeStep, ServedStep
<1>3. BodyTypeOK /\ ServedInv => SignalsServedOnce
  BY ServedOnce
<1> QED BY <1>1, <1>2, <1>3, PTL DEF SketchSpec

-----------------------------------------------------------------------------
(* The calls made grow by one with each entry performed, and by no other   *)
(* step.                                                                   *)

LEMMA MadeMember ==
  ASSUME NEW entry
  PROVE  \A c : c \in Made(entry) <=>
           \E t \in Threads : \E j \in 0 .. jobs[t], i \in 1 .. Len(Body[t]) :
             /\ c = <<t, j, i>> /\ Body[t][i] = entry
             /\ j < jobs[t] \/ i < at[t]
<1> SUFFICES ASSUME NEW c
             PROVE  c \in Made(entry) <=>
                      \E t \in Threads :
                        \E j \in 0 .. jobs[t], i \in 1 .. Len(Body[t]) :
                          /\ c = <<t, j, i>> /\ Body[t][i] = entry
                          /\ j < jobs[t] \/ i < at[t]
  OBVIOUS
<1>1. c \in UNION {{t} \X (0 .. jobs[t]) \X (1 .. Len(Body[t])) : t \in Threads}
        <=> \E t \in Threads : \E j \in 0 .. jobs[t], i \in 1 .. Len(Body[t]) :
              c = <<t, j, i>>
  OBVIOUS
<1> QED BY <1>1 DEF Made

(* The same after the step.                                                *)
LEMMA MadeMemberNext ==
  ASSUME NEW entry
  PROVE  \A c : c \in Made(entry)' <=>
           \E t \in Threads : \E j \in 0 .. jobs'[t], i \in 1 .. Len(Body[t]) :
             /\ c = <<t, j, i>> /\ Body[t][i] = entry
             /\ j < jobs'[t] \/ i < at'[t]
<1> SUFFICES ASSUME NEW c
             PROVE  c \in Made(entry)' <=>
                      \E t \in Threads :
                        \E j \in 0 .. jobs'[t], i \in 1 .. Len(Body[t]) :
                          /\ c = <<t, j, i>> /\ Body[t][i] = entry
                          /\ j < jobs'[t] \/ i < at'[t]
  OBVIOUS
<1>1. c \in UNION {{t} \X (0 .. jobs'[t]) \X (1 .. Len(Body[t])) :
                      t \in Threads}
        <=> \E t \in Threads : \E j \in 0 .. jobs'[t], i \in 1 .. Len(Body[t]) :
              c = <<t, j, i>>
  OBVIOUS
<1> QED BY <1>1 DEF Made

LEMMA MadeSame ==
  ASSUME NEW CONSTANT entry, Elsewhere
  PROVE  Made(entry)' = Made(entry)
BY DEF Elsewhere, Made

LEMMA MadeByPerforming ==
  ASSUME SketchParams, BodyTypeOK, NEW t \in Threads, Performs(t),
         NEW CONSTANT entry
  PROVE  /\ Body[t][at[t]] = entry =>
              /\ Made(entry)' = Made(entry) \union {<<t, jobs[t], at[t]>>}
              /\ <<t, jobs[t], at[t]>> \notin Made(entry)
         /\ Body[t][at[t]] # entry => Made(entry)' = Made(entry)
<1>1. /\ at[t] \in 1 .. Len(Body[t]) /\ Len(Body[t]) \in Nat
      /\ jobs[t] \in 0 .. jobs[t]
  BY EntryPerformed DEF Performs, BodyTypeOK
<1>2. jobs' = jobs /\ at'[t] = at[t] + 1
      /\ \A u \in Threads : u # t => at'[u] = at[u]
  BY DEF Performs, BodyTypeOK
<1>3. \A u \in Threads : at[u] \in Nat /\ jobs[u] \in Nat
  BY DEF BodyTypeOK
<1>4. ASSUME NEW c
      PROVE  c \in Made(entry)' <=>
               \/ c \in Made(entry)
               \/ Body[t][at[t]] = entry /\ c = <<t, jobs[t], at[t]>>
  <2>1. ASSUME NEW u \in Threads, NEW j \in 0 .. jobs[u],
               NEW i \in 1 .. Len(Body[u])
        PROVE  (j < jobs[u] \/ i < at'[u]) <=>
                 \/ j < jobs[u] \/ i < at[u]
                 \/ u = t /\ j = jobs[t] /\ i = at[t]
    <3>1. i \in Int /\ j \in Int /\ jobs[u] \in Nat /\ at[u] \in Nat
      BY <1>3
    <3>2. CASE u = t
      BY <1>1, <1>2, <3>1, <3>2
    <3>3. CASE u # t
      BY <1>2, <3>1, <3>3
    <3> QED BY <3>2, <3>3
  <2>2. c \in Made(entry)' <=>
           \E u \in Threads : \E j \in 0 .. jobs[u], i \in 1 .. Len(Body[u]) :
             /\ c = <<u, j, i>> /\ Body[u][i] = entry
             /\ j < jobs[u] \/ i < at'[u]
    BY <1>2, MadeMemberNext
  <2>3. c \in Made(entry) <=>
           \E u \in Threads : \E j \in 0 .. jobs[u], i \in 1 .. Len(Body[u]) :
             /\ c = <<u, j, i>> /\ Body[u][i] = entry
             /\ j < jobs[u] \/ i < at[u]
    BY MadeMember
  <2>4. c \in Made(entry)' <=>
           \E u \in Threads : \E j \in 0 .. jobs[u], i \in 1 .. Len(Body[u]) :
             /\ c = <<u, j, i>> /\ Body[u][i] = entry
             /\ \/ j < jobs[u] \/ i < at[u]
                \/ u = t /\ j = jobs[t] /\ i = at[t]
    BY <2>1, <2>2
  <2>5. ASSUME Body[t][at[t]] = entry /\ c = <<t, jobs[t], at[t]>>
        PROVE  c \in Made(entry)'
    BY <1>1, <2>4, <2>5
  <2> QED BY <2>3, <2>4, <2>5
<1>5. <<t, jobs[t], at[t]>> \notin Made(entry)
  <2> SUFFICES ASSUME <<t, jobs[t], at[t]>> \in Made(entry)
               PROVE  FALSE
    OBVIOUS
  <2>1. PICK u \in Threads : \E j \in 0 .. jobs[u], i \in 1 .. Len(Body[u]) :
           /\ <<t, jobs[t], at[t]>> = <<u, j, i>>
           /\ j < jobs[u] \/ i < at[u]
    BY MadeMember
  <2> QED BY <1>3, <2>1
<1> QED BY <1>4, <1>5

LEMMA MadeUnchanged ==
  ASSUME NEW CONSTANT entry,
         \A u \in Threads : \A i \in 1 .. Len(Body[u]) : \A j :
           Body[u][i] = entry =>
             (j \in 0 .. jobs'[u] /\ (j < jobs'[u] \/ i < at'[u])
                <=> j \in 0 .. jobs[u] /\ (j < jobs[u] \/ i < at[u]))
  PROVE  Made(entry)' = Made(entry)
<1>1. ASSUME NEW c, c \in Made(entry)'
      PROVE  c \in Made(entry)
  <2>1. PICK u \in Threads : \E j \in 0 .. jobs'[u], i \in 1 .. Len(Body[u]) :
           /\ c = <<u, j, i>> /\ Body[u][i] = entry
           /\ j < jobs'[u] \/ i < at'[u]
    BY <1>1, MadeMemberNext
  <2>2. PICK j \in 0 .. jobs'[u], i \in 1 .. Len(Body[u]) :
           /\ c = <<u, j, i>> /\ Body[u][i] = entry
           /\ j < jobs'[u] \/ i < at'[u]
    BY <2>1
  <2>3. j \in 0 .. jobs[u] /\ (j < jobs[u] \/ i < at[u])
    BY <2>2
  <2> QED BY <2>2, <2>3, MadeMember
<1>2. ASSUME NEW c, c \in Made(entry)
      PROVE  c \in Made(entry)'
  <2>1. PICK u \in Threads : \E j \in 0 .. jobs[u], i \in 1 .. Len(Body[u]) :
           /\ c = <<u, j, i>> /\ Body[u][i] = entry
           /\ j < jobs[u] \/ i < at[u]
    BY <1>2, MadeMember
  <2>2. PICK j \in 0 .. jobs[u], i \in 1 .. Len(Body[u]) :
           /\ c = <<u, j, i>> /\ Body[u][i] = entry
           /\ j < jobs[u] \/ i < at[u]
    BY <2>1
  <2>3. j \in 0 .. jobs'[u] /\ (j < jobs'[u] \/ i < at'[u])
    BY <2>2
  <2> QED BY <2>2, <2>3, MadeMemberNext
<1> QED BY <1>1, <1>2

LEMMA MadeBySkipping ==
  ASSUME SketchParams, BodyTypeOK, NEW t \in Threads, Skips(t),
         NEW CONSTANT entry, ~ Has(t, entry)
  PROVE  Made(entry)' = Made(entry)
<1>1. jobs' = jobs /\ \A u \in Threads : u # t => at'[u] = at[u]
  BY DEF Skips, BodyTypeOK
<1>2. \A i \in 1 .. Len(Body[t]) : Body[t][i] # entry
  BY DEF Has
<1> QED BY <1>1, <1>2, MadeUnchanged

LEMMA MadeByFinishing ==
  ASSUME SketchParams, BodyTypeOK, NEW t \in Threads, Finishes(t),
         NEW CONSTANT entry
  PROVE  Made(entry)' = Made(entry)
<1>1. /\ jobs'[t] = jobs[t] + 1 /\ at'[t] = 1 /\ at[t] > Len(Body[t])
      /\ \A u \in Threads : u # t => at'[u] = at[u] /\ jobs'[u] = jobs[u]
  BY DEF Finishes, BodyTypeOK
<1>2. /\ \A u \in Threads : at[u] \in Nat /\ jobs[u] \in Nat
      /\ Len(Body[t]) \in Nat
  BY DEF BodyTypeOK, SketchParams
<1>3. ASSUME NEW j, NEW i \in 1 .. Len(Body[t])
      PROVE  j \in 0 .. jobs'[t] /\ (j < jobs'[t] \/ i < at'[t])
               <=> j \in 0 .. jobs[t] /\ (j < jobs[t] \/ i < at[t])
  BY <1>1, <1>2
<1>4. ASSUME NEW u \in Threads, NEW j, NEW i \in 1 .. Len(Body[u])
      PROVE  j \in 0 .. jobs'[u] /\ (j < jobs'[u] \/ i < at'[u])
               <=> j \in 0 .. jobs[u] /\ (j < jobs[u] \/ i < at[u])
  BY <1>1, <1>3
<1> QED BY <1>4, MadeUnchanged

-----------------------------------------------------------------------------
(* Who is out of the scheduler's reach.  The kernel that the modules about *)
(* semaphores and asynchronous signals bring with them is the kernel of    *)
(* the sketch.                                                             *)

LEMMA SemYield ==
  ASSUME NEW STATE st, NEW STATE wk, NEW STATE wc, NEW STATE li
  PROVE  Sem!ThreadYield(st, wk, wc, li) <=> ThreadYield(st, wk, wc, li)
BY DEF Sem!ThreadYield, Sem!Awaken, Sem!CarryLeft, Sem!CatchUp,
       Sem!ChargeCurrent, Sem!DemoteOverrun, Sem!Candidate, Sem!Eligible,
       Sem!IsBest, Sem!ScanPos, Sem!ListPos, Sem!Linked, Sem!All,
       Sem!OVERRUN_PRIO, Sem!SLEPT, Sem!ACTIVE, Sem!BLOCKED,
       ThreadYield, Awaken, CarryLeft, CatchUp, ChargeCurrent, DemoteOverrun,
       Candidate, Eligible, IsBest, ScanPos, ListPos, Linked, All,
       OVERRUN_PRIO, SLEPT, ACTIVE, BLOCKED

LEMMA ATSYield ==
  ASSUME NEW STATE st, NEW STATE wk, NEW STATE wc, NEW STATE li
  PROVE  ATS!ThreadYield(st, wk, wc, li) <=> ThreadYield(st, wk, wc, li)
BY DEF ATS!ThreadYield, ATS!Awaken, ATS!CarryLeft, ATS!CatchUp,
       ATS!ChargeCurrent, ATS!DemoteOverrun, ATS!Candidate, ATS!Eligible,
       ATS!IsBest, ATS!ScanPos, ATS!ListPos, ATS!Linked, ATS!All,
       ATS!OVERRUN_PRIO, ATS!SLEPT, ATS!ACTIVE, ATS!BLOCKED,
       ThreadYield, Awaken, CarryLeft, CatchUp, ChargeCurrent, DemoteOverrun,
       Candidate, Eligible, IsBest, ScanPos, ListPos, Linked, All,
       OVERRUN_PRIO, SLEPT, ACTIVE, BLOCKED

StatusOK ==
  /\ thread_list \in Seq(All) /\ ListInOrder /\ Main \in Linked
  /\ current_thread \in Linked
  /\ status \in [All -> Status]
  /\ RunningIsReady

LeavesOut ==
  \A t \in Threads : status[t] = SEM_BLOCKED => status'[t] = SEM_BLOCKED

LEMMA YieldStatus ==
  ASSUME StatusOK, NEW STATE st, st \in [All -> Status],
         NEW STATE wk, NEW STATE wc, NEW STATE li, ThreadYield(st, wk, wc, li)
  PROVE  /\ StatusOK'
         /\ \A t \in All : st[t] = SEM_BLOCKED => status'[t] = SEM_BLOCKED
<1>0. /\ thread_list' = thread_list /\ Linked' = Linked
      /\ ListInOrder' = ListInOrder /\ Linked \subseteq All
  BY LinkedAreThreads DEF StatusOK, ThreadYield, Linked, ListInOrder
<1>1. current_thread' = Main \/ current_thread' \in Eligible(status')
  BY CandidateIsReady DEF ThreadYield
<1>2. current_thread' \in Linked /\ RunningIsReady'
  BY <1>1 DEF StatusOK, Eligible, RunningIsReady
<1>3. \A t \in All : status'[t] = Awaken(st, wk, wc, t)
  BY DEF ThreadYield
<1>4. status' \in [All -> Status]
  <2>1. \A t \in All : Awaken(st, wk, wc, t) \in Status
    BY DEF Awaken, Status
  <2> QED BY <2>1 DEF ThreadYield
<1>5. ASSUME NEW t \in All, st[t] = SEM_BLOCKED
      PROVE  status'[t] = SEM_BLOCKED
  BY <1>3, <1>5 DEF Awaken, SLEPT, SEM_BLOCKED
<1> QED BY <1>0, <1>2, <1>4, <1>5 DEF StatusOK

(* A call that makes the current thread wait, or yields for it.            *)
LEMMA CallStatus ==
  ASSUME StatusOK, NEW s \in Status,
         NEW STATE wk, NEW STATE wc, NEW STATE li,
         \/ ThreadYield(status, wk, wc, li)
         \/ ThreadYield([status EXCEPT ![current_thread] = s], wk, wc, li)
  PROVE  StatusOK' /\ LeavesOut
<1> DEFINE st == [status EXCEPT ![current_thread] = s]
<1>1. CASE ThreadYield(status, wk, wc, li)
  <2>1. status \in [All -> Status]
    BY DEF StatusOK
  <2> QED BY <1>1, <2>1, YieldStatus DEF LeavesOut, All
<1>2. CASE ThreadYield(st, wk, wc, li)
  <2>1. st \in [All -> Status]
    BY DEF StatusOK
  <2>2. \A t \in Threads : status[t] = SEM_BLOCKED => st[t] = SEM_BLOCKED
    BY ThreadsAssumption
       DEF StatusOK, RunningIsReady, All, ACTIVE, SEM_BLOCKED
  <2> HIDE DEF st
  <2>3. /\ StatusOK'
        /\ \A t \in All : st[t] = SEM_BLOCKED => status'[t] = SEM_BLOCKED
    BY <1>2, <2>1, YieldStatus
  <2> QED BY <2>2, <2>3 DEF LeavesOut, All
<1> QED BY <1>1, <1>2

LEMMA UnblockStatus ==
  ASSUME StatusOK, NEW STATE th, th \in Threads, NEW STATE li,
         ThreadUnblock(th, li)
  PROVE  StatusOK' /\ LeavesOut
<1> DEFINE st == [status EXCEPT ![th] = ACTIVE]
<1>1. CASE status[th] = BLOCKED
  <2>1. /\ st \in [All -> Status]
        /\ \A t \in Threads : status[t] = SEM_BLOCKED => st[t] = SEM_BLOCKED
    BY <1>1 DEF StatusOK, Status, All, BLOCKED, SEM_BLOCKED
  <2>2. ThreadYield(st, ticks_to_wait, carry_ticks_to_wait, li)
    BY <1>1 DEF ThreadUnblock
  <2> HIDE DEF st
  <2>3. /\ StatusOK'
        /\ \A t \in All : st[t] = SEM_BLOCKED => status'[t] = SEM_BLOCKED
    BY <2>1, <2>2, YieldStatus
  <2> QED BY <2>1, <2>3 DEF LeavesOut, All
<1>2. CASE status[th] # BLOCKED
  BY <1>2 DEF ThreadUnblock, StatusOK, Linked, ListInOrder, RunningIsReady,
              LeavesOut
<1> QED BY <1>1, <1>2

Still == UNCHANGED <<thread_list, current_thread, status>>

LEMMA StillStatus ==
  ASSUME StatusOK, Still
  PROVE  StatusOK' /\ LeavesOut
BY DEF StatusOK, Linked, ListInOrder, RunningIsReady, LeavesOut, Still

LEMMA PatternStatus ==
  ASSUME StatusOK, NEW t \in Threads, Pattern(t)
  PROVE  StatusOK' /\ LeavesOut
<1>1. CASE Entry(t) \/ Proceed(t) \/ AwaitOver(t) \/ Release(t) \/ Reset(t)
             \/ ExecutorEnds(t) \/ Account(t) \/ TestCost(t) \/ Decrement(t)
  <2>1. Still
    BY <1>1
       DEF Entry, Proceed, AwaitOver, Release, Reset, ExecutorEnds, Account,
           TestCost, Decrement, kernelVars, Still
  <2> QED BY <2>1, StillStatus
<1>2. ASSUME NEW STATE n, TickSleep(n)
      PROVE  StatusOK' /\ LeavesOut
  BY <1>2, CallStatus DEF TickSleep, Status
<1>3. CASE ThreadBlock
  BY <1>3, CallStatus DEF ThreadBlock, Status
<1> QED BY <1>1, <1>2, <1>3 DEF Pattern, SleepOffset, SleepToNext, Await,
                                AwaitAgain

(* Every step but V, which lets a thread go, and thread_remove() leaves    *)
(* those who wait where they are.                                          *)
LEMMA StatusStep ==
  ASSUME SketchParams, BodyTypeOK, StatusOK, SketchNext,
         \A t \in Threads : ~ Gives(t) /\ ~ Removes(t)
  PROVE  StatusOK' /\ LeavesOut
<1>1. CASE Interrupted
  BY <1>1, CallStatus DEF Interrupted, Tick, TimerInterrupt, Status
<1>2. CASE Idles
  BY <1>2, CallStatus DEF Idles, MainLoop, MainYield, Status
<1>3. CASE Returns
  <2>1. Still
    BY <1>3 DEF Returns, Return, YieldReturn, TimerInterruptReturn, Still
  <2> QED BY <2>1, StillStatus
<1>4. ASSUME NEW t \in All, Activates(t)
      PROVE  StatusOK' /\ LeavesOut
  <2>1. Still
    BY <1>4
       DEF Activates, ATS!Resume, ATS!Check, ATS!Return, ATS!Test, ATS!Load,
           ATS!Store, ATS!Handle, ATS!YieldReturn, ATS!TimerInterruptReturn,
           ATS!kernelVars, Still
  <2> QED BY <2>1, StillStatus
<1>5. ASSUME NEW t \in Threads, Executes(t)
      PROVE  StatusOK' /\ LeavesOut
  <2>1. CASE Signals(t)
    <3>1. Argument(t) \in Threads
      BY <2>1, ArgumentOK DEF Signals, EventDriven
    <3> QED BY <2>1, <3>1, UnblockStatus DEF Signals, ThreadSignal
  <2>2. CASE Unblocks(t)
    <3>1. Argument(t) \in Threads
      BY <2>2, ArgumentOK DEF Unblocks, EventDriven
    <3> QED BY <2>2, <3>1, UnblockStatus DEF Unblocks
  <2>3. CASE Takes(t)
    <3>1. CASE value[Argument(t)] <= 0
      <4>1. ThreadYield([status EXCEPT ![current_thread] = SEM_BLOCKED],
                        ticks_to_wait, carry_ticks_to_wait, queue_last_input)
            \/ Still
        BY <2>3, SemYield
           DEF Takes, Sem!P, Sem!SEM_BLOCKED, SEM_BLOCKED, Sem!kernelVars, Still
      <4> QED BY <4>1, CallStatus, StillStatus DEF Status
    <3>2. CASE ~ value[Argument(t)] <= 0
      <4>1. Still
        BY <2>3, <3>2 DEF Takes, Sem!P, Sem!kernelVars, Still
      <4> QED BY <4>1, StillStatus
    <3> QED BY <3>1, <3>2
  <2>4. CASE Gets(t) \/ Sets(t) \/ Uses(t) \/ Inputs(t) \/ OnlyOnce(t)
    <3>1. Still
      BY <2>4 DEF Gets, Sets, Uses, Inputs, OnlyOnce, vars, kernelVars, Still
    <3> QED BY <3>1, StillStatus
  <2>5. CASE Enables(t) \/ Disables(t) \/ SignalsATS(t)
    <3>1. Still
      BY <2>5 DEF Enables, Disables, SignalsATS, ATS!Enable, ATS!Disable,
                  ATS!Signal, ATS!kernelVars, kernelVars, Still
    <3> QED BY <3>1, StillStatus
  <2> QED BY <1>5, <2>1, <2>2, <2>3, <2>4, <2>5 DEF Executes
<1>6. ASSUME NEW t \in Threads, Ends(t)
      PROVE  StatusOK' /\ LeavesOut
  <2>1. Still
    BY <1>6 DEF Ends, ExecutorEnds, kernelVars, Still
  <2> QED BY <2>1, StillStatus
<1>7. ASSUME NEW t \in Threads, Continues(t)
      PROVE  StatusOK' /\ LeavesOut
  BY <1>7, PatternStatus DEF Continues
<1>8. ASSUME NEW t \in Threads, YieldsInCall(t)
      PROVE  StatusOK' /\ LeavesOut
  BY <1>8, ATSYield, CallStatus DEF YieldsInCall, ATS!YieldInCall, Status
<1>9. ASSUME NEW t \in Threads, SpinsForever(t)
      PROVE  StatusOK' /\ LeavesOut
  <2>1. Still
    BY <1>9 DEF SpinsForever, sketchVars, vars, kernelVars, Still
  <2> QED BY <2>1, StillStatus
<1> QED BY <1>1, <1>2, <1>3, <1>4, <1>5, <1>6, <1>7, <1>8, <1>9 DEF SketchNext

LEMMA Joined ==
  ASSUME NEW S, NEW f \in Seq(S), NEW b \in Seq(S)
  PROVE  /\ f \o b \in Seq(S) /\ Len(f \o b) = Len(f) + Len(b)
         /\ \A j \in 1 .. Len(f) + Len(b) :
              (f \o b)[j] = IF j <= Len(f) THEN f[j] ELSE b[j - Len(f)]
OBVIOUS

LEMMA Parts ==
  ASSUME NEW S, NEW s \in Seq(S), NEW m \in 1 .. Len(s) + 1,
         NEW n \in 0 .. Len(s), m <= n + 1
  PROVE  /\ SubSeq(s, m, n) \in Seq(S) /\ Len(SubSeq(s, m, n)) = n + 1 - m
         /\ \A j \in 1 .. n + 1 - m : SubSeq(s, m, n)[j] = s[m - 1 + j]
<1>1. \A j \in m .. n : s[j] \in S
  OBVIOUS
<1> QED BY <1>1

(* A list without one of its elements, as thread_remove() leaves it.       *)
Without(s, i) ==
  IF i = 1 THEN SubSeq(s, i + 1, Len(s))
  ELSE SubSeq(s, 1, i - 1) \o SubSeq(s, i + 1, Len(s))

LEMMA DropOne ==
  ASSUME NEW S, NEW s \in Seq(S), NEW i \in 1 .. Len(s)
  PROVE  /\ Without(s, i) \in Seq(S) /\ Len(Without(s, i)) = Len(s) - 1
         /\ \A j \in 1 .. Len(s) - 1 :
              Without(s, i)[j] = s[IF j < i THEN j ELSE j + 1]
<1> DEFINE n == Len(s)
           r == Without(s, i)
           b == SubSeq(s, i + 1, n)
           f == SubSeq(s, 1, i - 1)
<1>1. n \in Nat /\ i \in 1 .. n
  OBVIOUS
<1>2. /\ b \in Seq(S) /\ Len(b) = n - i
      /\ \A j \in 1 .. n - i : b[j] = s[i + j]
  <2>1. i + 1 \in 1 .. n + 1 /\ n \in 0 .. n /\ i + 1 <= n + 1
    BY <1>1
  <2>2. /\ b \in Seq(S) /\ Len(b) = n + 1 - (i + 1)
        /\ \A j \in 1 .. n + 1 - (i + 1) : b[j] = s[i + 1 - 1 + j]
    BY <2>1, Parts
  <2> HIDE DEF b, n
  <2> QED BY <1>1, <2>2
<1>3. /\ f \in Seq(S) /\ Len(f) = i - 1
      /\ \A j \in 1 .. i - 1 : f[j] = s[j]
  <2>1. 1 \in 1 .. n + 1 /\ i - 1 \in 0 .. n /\ 1 <= i - 1 + 1
    BY <1>1
  <2>2. /\ f \in Seq(S) /\ Len(f) = i - 1 + 1 - 1
        /\ \A j \in 1 .. i - 1 + 1 - 1 : f[j] = s[1 - 1 + j]
    BY <2>1, Parts
  <2> HIDE DEF f, n
  <2> QED BY <1>1, <2>2
<1>4. r = IF i = 1 THEN b ELSE f \o b
  BY DEF Without
<1> HIDE DEF f, b, r
<1>5. CASE i = 1
  <2> HIDE DEF n
  <2> QED BY <1>1, <1>2, <1>4, <1>5 DEF n, r
<1>6. CASE i # 1
  <2>1. /\ r \in Seq(S) /\ Len(r) = Len(f) + Len(b)
        /\ \A j \in 1 .. Len(f) + Len(b) :
             r[j] = IF j <= Len(f) THEN f[j] ELSE b[j - Len(f)]
    BY <1>2, <1>3, <1>4, <1>6, Joined
  <2> HIDE DEF n
  <2>2. Len(r) = n - 1
    BY <1>1, <1>2, <1>3, <2>1
  <2>3. ASSUME NEW j \in 1 .. n - 1
        PROVE  r[j] = s[IF j < i THEN j ELSE j + 1]
    <3>1. /\ j \in 1 .. Len(f) + Len(b) /\ (j <= Len(f) <=> j < i)
          /\ j - Len(f) = j + 1 - i
      BY <1>1, <1>2, <1>3
    <3>2. CASE j < i
      BY <1>1, <1>3, <2>1, <3>1, <3>2
    <3>3. CASE ~ j < i
      <4>1. j + 1 - i \in 1 .. n - i /\ i + (j + 1 - i) = j + 1
        BY <1>1, <3>3
      <4>2. r[j] = b[j + 1 - i]
        BY <2>1, <3>1, <3>3
      <4> QED BY <1>2, <3>3, <4>1, <4>2
    <3> QED BY <3>2, <3>3
  <2> QED BY <2>1, <2>2, <2>3 DEF n, r
<1> QED BY <1>5, <1>6

(* thread_remove() takes the thread out, from the head or from between two *)
(* others, leaves all others in and in their order, and whoever is out     *)
(* already it does not look for in vain.                                   *)
LEMMA Unlinked ==
  ASSUME thread_list \in Seq(All), ListInOrder, NEW STATE th,
         th \in Threads, ThreadRemove(th)
  PROVE  /\ thread_list' \in Seq(All) /\ ListInOrder'
         /\ Linked' = Linked \ {th}
<1> DEFINE i == ListPos(th)
           n == Len(thread_list)
           old(j) == IF j < i THEN j ELSE j + 1
<1>0. n \in Nat /\ th # Main
  BY ThreadsAssumption
<1>1. CASE th \in Linked
  <2>1. i \in 1 .. n /\ thread_list[i] = th
    BY <1>1 DEF Linked, ListPos
  <2>2. thread_list' = Without(thread_list, i)
    BY <1>0, <1>1 DEF ThreadRemove, Behind, Without
  <2> HIDE DEF i
  <2>3. /\ thread_list' \in Seq(All) /\ Len(thread_list') = n - 1
        /\ \A j \in 1 .. n - 1 : thread_list'[j] = thread_list[old(j)]
    <3>1. i \in 1 .. Len(thread_list)
      BY <2>1
    <3> QED BY <2>2, <3>1, DropOne
  <2>4. /\ \A j \in 1 .. n - 1 : old(j) \in 1 .. n /\ old(j) # i
        /\ \A j, k \in 1 .. n - 1 : j < k => old(j) < old(k)
        /\ \A k \in 1 .. n : k # i => \E j \in 1 .. n - 1 : old(j) = k
    <3>1. ASSUME NEW k \in 1 .. n, k # i
          PROVE  \E j \in 1 .. n - 1 : old(j) = k
      <4>1. CASE k < i
        BY <1>0, <2>1, <3>1, <4>1
      <4>2. CASE k > i
        <5>1. k - 1 \in 1 .. n - 1 /\ old(k - 1) = k
          BY <1>0, <2>1, <4>2
        <5> QED BY <5>1
      <4> QED BY <1>0, <2>1, <3>1, <4>1, <4>2
    <3> QED BY <1>0, <2>1, <3>1
  <2> HIDE DEF n, old
  <2>5. ListInOrder'
    <3> SUFFICES ASSUME NEW j \in 1 .. Len(thread_list'),
                        NEW m \in 1 .. Len(thread_list'), j < m,
                        NEW k \in 1 .. Len(ThreadList),
                        NEW l \in 1 .. Len(ThreadList),
                        thread_list'[j] = ThreadList[k],
                        thread_list'[m] = ThreadList[l]
                 PROVE  k < l
      BY DEF ListInOrder
    <3>1. /\ old(j) \in 1 .. Len(thread_list)
          /\ old(m) \in 1 .. Len(thread_list)
          /\ old(j) < old(m)
      BY <2>3, <2>4 DEF n
    <3>2. /\ thread_list[old(j)] = ThreadList[k]
          /\ thread_list[old(m)] = ThreadList[l]
      BY <2>3
    <3> QED BY <3>1, <3>2 DEF ListInOrder
  <2>6. Linked' = {thread_list[k] : k \in (1 .. n) \ {i}}
    <3>1. Linked' = {thread_list'[j] : j \in 1 .. n - 1}
      BY <2>3 DEF Linked
    <3>2. Linked' = {thread_list[old(j)] : j \in 1 .. n - 1}
      BY <2>3, <3>1
    <3> QED BY <2>4, <3>2
  <2>7. \A j, k \in 1 .. n : thread_list[j] = thread_list[k] => ~ j < k
    <3> SUFFICES ASSUME NEW j \in 1 .. n, NEW k \in 1 .. n, j < k,
                        thread_list[j] = thread_list[k]
                 PROVE  FALSE
      OBVIOUS
    <3>1. thread_list[j] \in All
      BY DEF n
    <3>2. PICK l \in 1 .. Len(ThreadList) : ThreadList[l] = thread_list[j]
      BY <3>1, ThreadListAssumption
    <3>3. l < l
      BY <3>2 DEF ListInOrder, n
    <3>4. l \in Int
      BY <3>2, ThreadListAssumption
    <3> QED BY <3>3, <3>4
  <2>8. \A k \in 1 .. n : thread_list[k] = th => k = i
    <3>1. \A k \in 1 .. n : k \in Int
      BY <1>0 DEF n
    <3> QED BY <2>1, <2>7, <3>1
  <2>9. Linked = {thread_list[k] : k \in 1 .. n}
    BY DEF Linked, n
  <2> QED BY <2>1, <2>3, <2>5, <2>6, <2>8, <2>9
<1>2. CASE th \notin Linked
  BY <1>2 DEF ThreadRemove, Linked, ListInOrder
<1> QED BY <1>1, <1>2

LEMMA RemoveStatus ==
  ASSUME SketchParams, RemovedAreLeft, BodyTypeOK, StatusOK,
         NEW t \in Threads, Removes(t), NEW th \in Threads, th = Argument(t)
  PROVE  /\ StatusOK' /\ Linked' = Linked \ {th}
         /\ Body[t][at[t]] = <<"remove", th>> /\ ~ Calls(th, "P")
         /\ UNCHANGED <<current_thread, status, blocked_semaphore>>
<1>1. /\ current_thread = t /\ at[t] <= Len(Body[t])
      /\ Body[t][at[t]] = <<"remove", th>>
      /\ UNCHANGED <<current_thread, status, blocked_semaphore>>
  BY ArgumentOK DEF Removes, Performing, At, Runs, tokenVars
<1>2. /\ thread_list' \in Seq(All) /\ ListInOrder' /\ Linked' = Linked \ {th}
  BY Unlinked DEF Removes, StatusOK
<1>3. Has(t, <<"remove", th>>)
  BY <1>1, EntryPerformed DEF Has
<1>4. th # t /\ ~ Calls(th, "P")
  BY <1>3 DEF RemovedAreLeft
<1>5. Main \in Linked' /\ current_thread' \in Linked' /\ RunningIsReady'
  BY <1>1, <1>2, <1>4, ThreadsAssumption DEF StatusOK, RunningIsReady
<1> QED BY <1>1, <1>2, <1>4, <1>5 DEF StatusOK

-----------------------------------------------------------------------------
(* Who waits for a semaphore is not scheduled, and who runs does not wait. *)

BlockedInv ==
  /\ StatusOK
  /\ blocked_semaphore \in [Threads -> Sems \union {NULL}]
  /\ \A t \in Threads :
       blocked_semaphore[t] # NULL =>
         status[t] = SEM_BLOCKED /\ Calls(t, "P") /\ t \in Linked

LEMMA RunnerIsFree ==
  ASSUME BlockedInv, NEW t \in Threads, Runs(t)
  PROVE  blocked_semaphore[t] = NULL
BY ThreadsAssumption
   DEF BlockedInv, StatusOK, RunningIsReady, Runs, ACTIVE, SEM_BLOCKED

(* V walks the list and finds there all who wait.                          *)
LEMMA AllAreFound ==
  ASSUME SketchParams, BlockedInv, NEW sem \in Sems
  PROVE  Sem!Found(sem) = Sem!Waiting(sem)
BY DEF BlockedInv, SketchParams, Sem!Found, Sem!Waiting, Sem!Linked, Linked

(* What a P and a V of the program do, in the terms of the sketch.         *)
LEMMA TakeStep ==
  ASSUME SketchParams, BodyTypeOK, BlockedInv, NEW t \in Threads, Takes(t),
         NEW sem \in Sems, sem = Argument(t)
  PROVE  /\ StatusOK' /\ LeavesOut
         /\ Body[t][at[t]] = <<"P", sem>> /\ Calls(t, "P")
         /\ blocked_semaphore[t] = NULL
         /\ \/ /\ value[sem] > 0
               /\ value' = [value EXCEPT ![sem] = @ - 1]
               /\ UNCHANGED blocked_semaphore
            \/ /\ value[sem] <= 0
               /\ blocked_semaphore' = [blocked_semaphore EXCEPT ![t] = sem]
               /\ status'[t] = SEM_BLOCKED
               /\ UNCHANGED value
<1>1. /\ Runs(t) /\ current_thread = t /\ Sem!P(sem) /\ at[t] <= Len(Body[t])
      /\ Body[t][at[t]] = <<"P", sem>>
  BY ArgumentOK DEF Takes, Performing, At, Runs
<1>2. Calls(t, "P") /\ blocked_semaphore[t] = NULL
  BY <1>1, EntryPerformed, RunnerIsFree DEF Calls
<1>3. CASE value[sem] > 0 /\ value' = [value EXCEPT ![sem] = @ - 1]
           /\ UNCHANGED blocked_semaphore /\ Still
  BY <1>1, <1>2, <1>3, StillStatus DEF BlockedInv
<1>4. CASE /\ value[sem] <= 0 /\ UNCHANGED value
           /\ blocked_semaphore' = [blocked_semaphore EXCEPT ![t] = sem]
           /\ ThreadYield([status EXCEPT ![t] = SEM_BLOCKED],
                          ticks_to_wait, carry_ticks_to_wait, queue_last_input)
  <2> DEFINE st == [status EXCEPT ![t] = SEM_BLOCKED]
  <2>1. StatusOK' /\ LeavesOut
    BY <1>1, <1>4, CallStatus DEF BlockedInv, Status
  <2>2. st \in [All -> Status] /\ st[t] = SEM_BLOCKED /\ t \in All
    BY DEF BlockedInv, StatusOK, Status, All
  <2>3. ThreadYield(st, ticks_to_wait, carry_ticks_to_wait, queue_last_input)
    BY <1>4
  <2> HIDE DEF st
  <2>4. status'[t] = SEM_BLOCKED
    BY <2>2, <2>3, YieldStatus DEF BlockedInv
  <2> QED BY <1>1, <1>2, <1>4, <2>1, <2>4
<1>5. \/ /\ value[sem] > 0 /\ value' = [value EXCEPT ![sem] = @ - 1]
         /\ UNCHANGED blocked_semaphore /\ Still
      \/ /\ value[sem] <= 0 /\ UNCHANGED value
         /\ blocked_semaphore' = [blocked_semaphore EXCEPT ![t] = sem]
         /\ ThreadYield([status EXCEPT ![t] = SEM_BLOCKED],
                        ticks_to_wait, carry_ticks_to_wait, queue_last_input)
  BY <1>1, SemYield
     DEF Sem!P, Sem!kernelVars, Sem!SEM_BLOCKED, SEM_BLOCKED, Still
<1> QED BY <1>3, <1>4, <1>5

LEMMA GiveStep ==
  ASSUME SketchParams, BodyTypeOK, BlockedInv, NEW t \in Threads, Gives(t),
         NEW sem \in Sems, sem = Argument(t)
  PROVE  /\ StatusOK'
         /\ Body[t][at[t]] = <<"V", sem>>
         /\ blocked_semaphore[t] = NULL
         /\ \/ /\ Sem!Waiting(sem) = {}
               /\ value' = [value EXCEPT ![sem] = @ + 1]
               /\ UNCHANGED blocked_semaphore
               /\ LeavesOut
            \/ \E w \in Sem!Waiting(sem) :
                 /\ blocked_semaphore' = [blocked_semaphore EXCEPT ![w] = NULL]
                 /\ UNCHANGED value
                 /\ \A u \in Threads \ {w} :
                      status[u] = SEM_BLOCKED => status'[u] = SEM_BLOCKED
<1>1. /\ Runs(t) /\ Sem!V(sem)
      /\ Body[t][at[t]] = <<"V", sem>>
  BY ArgumentOK DEF Gives, Performing, At
<1>2. blocked_semaphore[t] = NULL
  BY <1>1, RunnerIsFree
<1>3. CASE /\ Sem!Waiting(sem) = {} /\ value' = [value EXCEPT ![sem] = @ + 1]
           /\ UNCHANGED blocked_semaphore /\ Still
  BY <1>1, <1>2, <1>3, StillStatus DEF BlockedInv
<1>4. ASSUME NEW w \in Sem!Waiting(sem), UNCHANGED value,
             blocked_semaphore' = [blocked_semaphore EXCEPT ![w] = NULL],
             ThreadYield([status EXCEPT ![w] = ACTIVE],
                         ticks_to_wait, carry_ticks_to_wait, queue_last_input)
      PROVE  /\ StatusOK'
             /\ \A u \in Threads \ {w} :
                  status[u] = SEM_BLOCKED => status'[u] = SEM_BLOCKED
  <2> DEFINE st == [status EXCEPT ![w] = ACTIVE]
  <2>1. st \in [All -> Status] /\ \A u \in Threads \ {w} : st[u] = status[u]
    BY DEF BlockedInv, StatusOK, Status, All, Sem!Waiting
  <2>2. ThreadYield(st, ticks_to_wait, carry_ticks_to_wait, queue_last_input)
    BY <1>4
  <2> HIDE DEF st
  <2>3. /\ StatusOK'
        /\ \A u \in All : st[u] = SEM_BLOCKED => status'[u] = SEM_BLOCKED
    BY <2>1, <2>2, YieldStatus DEF BlockedInv
  <2> QED BY <2>1, <2>3 DEF All
<1>5. \/ /\ Sem!Waiting(sem) = {} /\ value' = [value EXCEPT ![sem] = @ + 1]
         /\ UNCHANGED blocked_semaphore /\ Still
      \/ \E w \in Sem!Waiting(sem) :
           /\ UNCHANGED value
           /\ blocked_semaphore' = [blocked_semaphore EXCEPT ![w] = NULL]
           /\ ThreadYield([status EXCEPT ![w] = ACTIVE],
                          ticks_to_wait, carry_ticks_to_wait, queue_last_input)
  BY <1>1, SemYield, AllAreFound
     DEF Sem!V, Sem!kernelVars, Sem!ACTIVE, ACTIVE, Still
<1> QED BY <1>1, <1>2, <1>3, <1>4, <1>5

(* Nothing else touches a semaphore.                                       *)
LEMMA TokenStep ==
  ASSUME SketchNext, \A t \in Threads : ~ Takes(t) /\ ~ Gives(t)
  PROVE  UNCHANGED tokenVars
<1>1. ASSUME Interrupted \/ Idles \/ Returns
      PROVE  UNCHANGED tokenVars
  BY <1>1 DEF Interrupted, Idles, Returns
<1>2. ASSUME NEW t \in All, Activates(t)
      PROVE  UNCHANGED tokenVars
  BY <1>2 DEF Activates
<1>3. ASSUME NEW t \in Threads,
             \/ Continues(t) \/ YieldsInCall(t) \/ SpinsForever(t) \/ Ends(t)
      PROVE  UNCHANGED tokenVars
  BY <1>3 DEF Continues, YieldsInCall, SpinsForever, Ends, sketchVars
<1>4. ASSUME NEW t \in Threads, Executes(t)
      PROVE  UNCHANGED tokenVars
  BY <1>4 DEF Executes, Signals, Unblocks, Gets, Sets, Uses, Inputs, OnlyOnce,
              Enables, Disables, SignalsATS, Removes
<1> QED BY <1>1, <1>2, <1>3, <1>4 DEF SketchNext

LEMMA BlockedInit ==
  ASSUME SketchParams, SketchInit
  PROVE  BlockedInv
<1>1. thread_list = ThreadList /\ current_thread = Main
  BY DEF SketchInit, Init, KernelInit
<1>2. thread_list \in Seq(All) /\ ListInOrder /\ Main \in Linked
  BY <1>1, ThreadListAssumption DEF ListInOrder, Linked, All
<1>3. status \in [All -> Status]
  BY ParamsAssumption DEF SketchInit, Init, KernelInit, Status, All
<1> QED BY <1>1, <1>2, <1>3
        DEF SketchInit, BlockedInv, StatusOK, RunningIsReady

(* Only thread_remove() writes the list.                                   *)
LEMMA ListStep ==
  ASSUME SketchNext, \A t \in Threads : ~ Removes(t)
  PROVE  thread_list' = thread_list
<1>1. ASSUME Interrupted \/ Idles \/ Returns
      PROVE  thread_list' = thread_list
  BY <1>1 DEF Interrupted, Tick, TimerInterrupt, Idles, MainLoop, MainYield,
              Returns, Return, YieldReturn, TimerInterruptReturn, ThreadYield
<1>2. ASSUME NEW t \in All, Activates(t)
      PROVE  thread_list' = thread_list
  BY <1>2 DEF Activates, ATS!Resume, ATS!Check, ATS!Return, ATS!Test, ATS!Load,
              ATS!Store, ATS!Handle, ATS!YieldReturn, ATS!TimerInterruptReturn,
              ATS!kernelVars
<1>3. ASSUME NEW t \in Threads, Executes(t)
      PROVE  thread_list' = thread_list
  <2>1. CASE Signals(t) \/ Unblocks(t)
    BY <2>1 DEF Signals, Unblocks, ThreadSignal, ThreadUnblock, ThreadYield
  <2>2. CASE Takes(t) \/ Gives(t)
    BY <2>2 DEF Takes, Gives, Sem!P, Sem!V, Sem!ThreadYield, Sem!kernelVars
  <2>3. CASE Gets(t) \/ Sets(t) \/ Uses(t) \/ Inputs(t) \/ OnlyOnce(t)
    BY <2>3 DEF Gets, Sets, Uses, Inputs, OnlyOnce, vars, kernelVars
  <2>4. CASE Enables(t) \/ Disables(t) \/ SignalsATS(t)
    BY <2>4 DEF Enables, Disables, SignalsATS, ATS!Enable, ATS!Disable,
                ATS!Signal, ATS!kernelVars, kernelVars
  <2> QED BY <1>3, <2>1, <2>2, <2>3, <2>4 DEF Executes
<1>4. ASSUME NEW t \in Threads, Continues(t)
      PROVE  thread_list' = thread_list
  <2>1. CASE Entry(t) \/ Proceed(t) \/ AwaitOver(t) \/ Release(t) \/ Reset(t)
               \/ ExecutorEnds(t) \/ Account(t) \/ TestCost(t) \/ Decrement(t)
    BY <2>1 DEF Entry, Proceed, AwaitOver, Release, Reset, ExecutorEnds,
                Account, TestCost, Decrement, kernelVars
  <2>2. CASE ThreadBlock \/ \E n : TickSleep(n)
    BY <2>2 DEF ThreadBlock, TickSleep, ThreadYield
  <2> QED BY <1>4, <2>1, <2>2 DEF Continues, Pattern, SleepOffset, SleepToNext,
                                  Await, AwaitAgain
<1>5. ASSUME NEW t \in Threads, Ends(t) \/ YieldsInCall(t) \/ SpinsForever(t)
      PROVE  thread_list' = thread_list
  BY <1>5 DEF Ends, ExecutorEnds, YieldsInCall, ATS!YieldInCall,
              ATS!ThreadYield, SpinsForever, sketchVars, vars, kernelVars
<1> QED BY <1>1, <1>2, <1>3, <1>4, <1>5 DEF SketchNext

LEMMA BlockedStep ==
  ASSUME SketchParams, RemovedAreLeft, BodyTypeOK, BlockedInv,
         [SketchNext]_sketchVars
  PROVE  BlockedInv'
<1>0. \A t \in Threads : blocked_semaphore[t] # NULL =>
        status[t] = SEM_BLOCKED /\ Calls(t, "P") /\ t \in Linked
  BY DEF BlockedInv
<1>1. CASE UNCHANGED sketchVars
  BY <1>1 DEF sketchVars, vars, kernelVars, tokenVars, BlockedInv, StatusOK,
              RunningIsReady, Linked, ListInOrder
<1>l. ASSUME SketchNext, \A t \in Threads : ~ Removes(t)
      PROVE  Linked' = Linked
  BY <1>l, ListStep DEF Linked
<1>2. ASSUME NEW t \in Threads, Takes(t), SketchNext,
             \A u \in Threads : ~ Removes(u)
      PROVE  BlockedInv'
  <2>1. PICK sem \in Sems : sem = Argument(t)
    BY <1>2, ArgumentOK DEF Takes
  <2>2. /\ StatusOK' /\ LeavesOut
        /\ Calls(t, "P")
        /\ \/ UNCHANGED blocked_semaphore
           \/ /\ blocked_semaphore' = [blocked_semaphore EXCEPT ![t] = sem]
              /\ status'[t] = SEM_BLOCKED
    BY <1>2, <2>1, TakeStep
  <2>3. blocked_semaphore' \in [Threads -> Sems \union {NULL}]
    BY <2>2 DEF BlockedInv
  <2>4. Linked' = Linked /\ t \in Linked
    BY <1>l, <1>2 DEF Takes, Performing, At, Runs, BlockedInv, StatusOK
  <2>5. \A u \in Threads : blocked_semaphore'[u] # NULL =>
          status'[u] = SEM_BLOCKED /\ Calls(u, "P") /\ u \in Linked'
    BY <1>0, <2>2, <2>4 DEF LeavesOut, BlockedInv
  <2> QED BY <2>2, <2>3, <2>5 DEF BlockedInv, Calls
<1>3. ASSUME NEW t \in Threads, Gives(t), SketchNext,
             \A u \in Threads : ~ Removes(u)
      PROVE  BlockedInv'
  <2>1. PICK sem \in Sems : sem = Argument(t)
    BY <1>3, ArgumentOK DEF Gives
  <2>2. StatusOK' /\ Linked' = Linked
    BY <1>l, <1>3, <2>1, GiveStep
  <2>3. /\ blocked_semaphore' \in [Threads -> Sems \union {NULL}]
        /\ \A u \in Threads : blocked_semaphore'[u] # NULL =>
             status'[u] = SEM_BLOCKED /\ Calls(u, "P") /\ u \in Linked'
    <3>1. CASE UNCHANGED blocked_semaphore /\ LeavesOut
      BY <1>0, <2>2, <3>1 DEF LeavesOut, BlockedInv
    <3>2. ASSUME NEW w \in Sem!Waiting(sem),
                 blocked_semaphore' = [blocked_semaphore EXCEPT ![w] = NULL],
                 \A u \in Threads \ {w} :
                   status[u] = SEM_BLOCKED => status'[u] = SEM_BLOCKED
          PROVE  <2>3
      BY <1>0, <2>2, <3>2 DEF BlockedInv, Sem!Waiting
    <3> QED BY <1>3, <2>1, <3>1, <3>2, GiveStep
  <2> QED BY <2>2, <2>3 DEF BlockedInv, Calls
<1>4. ASSUME NEW t \in Threads, Removes(t)
      PROVE  BlockedInv'
  <2>1. PICK th \in Threads : th = Argument(t)
    BY <1>4, ArgumentOK DEF Removes
  <2>2. /\ StatusOK' /\ Linked' = Linked \ {th} /\ ~ Calls(th, "P")
        /\ UNCHANGED <<status, blocked_semaphore>>
    BY <1>4, <2>1, RemoveStatus DEF BlockedInv
  <2>3. \A u \in Threads : blocked_semaphore'[u] # NULL =>
          status'[u] = SEM_BLOCKED /\ Calls(u, "P") /\ u \in Linked'
    BY <1>0, <2>2
  <2> QED BY <2>2, <2>3 DEF BlockedInv, Calls
<1>5. CASE SketchNext /\ \A t \in Threads :
             ~ Takes(t) /\ ~ Gives(t) /\ ~ Removes(t)
  <2>1. StatusOK' /\ LeavesOut /\ Linked' = Linked
    BY <1>l, <1>5, StatusStep DEF BlockedInv
  <2>2. UNCHANGED blocked_semaphore
    BY <1>5, TokenStep DEF tokenVars
  <2> QED BY <1>0, <2>1, <2>2 DEF BlockedInv, LeavesOut, Calls
<1> QED BY <1>1, <1>2, <1>3, <1>4, <1>5

-----------------------------------------------------------------------------
(* Tokens are accounted for: the calls of P and V made so far, and those   *)
(* still waiting in a P, are finitely many, and each step adds or takes    *)
(* one element of the sets it should.                                      *)

AccountInv ==
  /\ value \in [Sems -> Int]
  /\ \A sem \in Sems :
       /\ IsFiniteSet(Made(<<"P", sem>>))
       /\ IsFiniteSet(Made(<<"V", sem>>))
       /\ IsFiniteSet(Sem!Waiting(sem))
  /\ TokensAccounted

LEMMA SemCallPerforms ==
  ASSUME NEW t \in Threads, Takes(t) \/ Gives(t) \/ Removes(t)
  PROVE  Performs(t)
BY DEF Takes, Gives, Removes, Performing, Advance, Performs, patternVars

(* A step other than a call of P or V makes no such call.                  *)
LEMMA MadeByOthers ==
  ASSUME SketchParams, EarlyEndsHarmless, BodyTypeOK, SketchNext,
         NEW CONSTANT kind \in {"P", "V", "remove"}, NEW CONSTANT x,
         \A t \in Threads :
           /\ ~ (kind = "P" /\ Takes(t))
           /\ ~ (kind = "V" /\ Gives(t))
           /\ ~ (kind = "remove" /\ Removes(t))
  PROVE  Made(<<kind, x>>)' = Made(<<kind, x>>)
<1>1. CASE Elsewhere
  BY <1>1, MadeSame
<1>2. ASSUME NEW t \in Threads, Performs(t), Executes(t)
      PROVE  Made(<<kind, x>>)' = Made(<<kind, x>>)
  <2>1. Body[t][at[t]] # <<kind, x>>
    BY <1>2, CallStep
  <2> QED BY <1>2, <2>1, MadeByPerforming
<1>3. ASSUME NEW t \in Threads, Skips(t)
      PROVE  Made(<<kind, x>>)' = Made(<<kind, x>>)
  <2>1. Calls(t, "input") \/ Calls(t, "first")
    BY <1>3, EntryPerformed DEF Skips, Calls
  <2>2. ~ Calls(t, kind)
    BY <2>1 DEF EarlyEndsHarmless
  <2>3. ~ Has(t, <<kind, x>>)
    BY <2>2 DEF Has, Calls
  <2> QED BY <1>3, <2>3, MadeBySkipping
<1>4. ASSUME NEW t \in Threads, Finishes(t)
      PROVE  Made(<<kind, x>>)' = Made(<<kind, x>>)
  BY <1>4, MadeByFinishing
<1> QED BY <1>1, <1>2, <1>3, <1>4, BodyStep

LEMMA AccountInit ==
  ASSUME SketchParams, SketchInit
  PROVE  AccountInv
<1>1. value = Tokens /\ \A sem \in Sems : Tokens[sem] \in Nat
  BY DEF SketchInit, SketchParams
<1>2. \A t \in Threads : blocked_semaphore[t] = NULL
  BY DEF SketchInit
<1>3. ASSUME NEW sem \in Sems
      PROVE  Sem!Waiting(sem) = {}
  BY <1>2 DEF Sem!Waiting, SketchParams
<1>4. ASSUME NEW entry
      PROVE  Made(entry) = {}
  <2>1. ASSUME NEW c \in Made(entry)
        PROVE  FALSE
    <3>1. PICK t \in Threads : \E j \in 0 .. jobs[t], i \in 1 .. Len(Body[t]) :
             j < jobs[t] \/ i < at[t]
      BY MadeMember
    <3>2. jobs[t] = 0 /\ at[t] = 1 /\ Len(Body[t]) \in Nat
      BY DEF SketchInit, SketchParams
    <3> QED BY <3>1, <3>2
  <2> QED BY <2>1
<1>5. value \in [Sems -> Int]
  BY <1>1 DEF SketchParams
<1>6. TokensAccounted
  BY <1>1, <1>3, <1>4, FS_EmptySet DEF TokensAccounted, Total
<1> QED BY <1>3, <1>4, <1>5, <1>6, FS_EmptySet DEF AccountInv

LEMMA AccountStep ==
  ASSUME SketchParams, EarlyEndsHarmless, BodyTypeOK, BlockedInv, AccountInv,
         [SketchNext]_sketchVars
  PROVE  AccountInv'
<1> DEFINE MP(s) == Made(<<"P", s>>)
           MV(s) == Made(<<"V", s>>)
           W(s)  == Sem!Waiting(s)
           Fine(s) == /\ IsFiniteSet(MP(s)) /\ IsFiniteSet(MV(s))
                      /\ IsFiniteSet(W(s))
                      /\ value[s] + Cardinality(MP(s))
                           = Tokens[s] + Cardinality(MV(s)) + Cardinality(W(s))
<1>0. /\ value \in [Sems -> Int] /\ \A s \in Sems : Fine(s)
      /\ blocked_semaphore \in [Threads -> Sems \union {NULL}]
      /\ \A s \in Sems : s # NULL /\ Tokens[s] \in Nat
  BY DEF AccountInv, TokensAccounted, Total, BlockedInv, SketchParams
<1>a. SUFFICES value' \in [Sems -> Int] /\ \A s \in Sems : Fine(s)'
  BY DEF AccountInv, TokensAccounted, Total
<1>f. \A s \in Sems : /\ IsFiniteSet(MP(s)) /\ IsFiniteSet(MV(s))
                      /\ IsFiniteSet(W(s))
  BY <1>0
<1>b. \A s \in Sems : /\ Cardinality(MP(s)) \in Nat
                      /\ Cardinality(MV(s)) \in Nat
                      /\ Cardinality(W(s)) \in Nat /\ value[s] \in Int
  <2>1. ASSUME NEW s \in Sems
        PROVE  /\ Cardinality(MP(s)) \in Nat /\ Cardinality(MV(s)) \in Nat
               /\ Cardinality(W(s)) \in Nat
    <3> HIDE DEF MP, MV, W
    <3> QED BY <1>f, FS_CardinalityType
  <2> QED BY <1>0, <2>1
<1>c. ASSUME UNCHANGED value, UNCHANGED blocked_semaphore,
             \A s \in Sems : MP(s)' = MP(s) /\ MV(s)' = MV(s)
      PROVE  value' \in [Sems -> Int] /\ \A s \in Sems : Fine(s)'
  BY <1>0, <1>c DEF Sem!Waiting
<1>1. CASE UNCHANGED sketchVars
  <2>1. UNCHANGED <<value, blocked_semaphore, at, jobs>>
    BY <1>1 DEF sketchVars, tokenVars, bodyVars
  <2> QED BY <1>c, <2>1, MadeSame DEF Elsewhere
<1>2. ASSUME NEW t \in Threads, Takes(t)
      PROVE  value' \in [Sems -> Int] /\ \A s \in Sems : Fine(s)'
  <2>1. PICK sem \in Sems : sem = Argument(t)
    BY <1>2, ArgumentOK DEF Takes
  <2>2. /\ Body[t][at[t]] = <<"P", sem>>
        /\ blocked_semaphore[t] = NULL
        /\ \/ /\ value' = [value EXCEPT ![sem] = @ - 1]
              /\ UNCHANGED blocked_semaphore
           \/ /\ blocked_semaphore' = [blocked_semaphore EXCEPT ![t] = sem]
              /\ UNCHANGED value
    BY <1>2, <2>1, TakeStep
  <2> DEFINE call == <<t, jobs[t], at[t]>>
  <2>3. /\ MP(sem)' = MP(sem) \union {call} /\ call \notin MP(sem)
        /\ \A s \in Sems \ {sem} : MP(s)' = MP(s)
        /\ \A s \in Sems : MV(s)' = MV(s)
    BY <1>2, <2>2, SemCallPerforms, MadeByPerforming
  <2>4. /\ IsFiniteSet(MP(sem)')
        /\ Cardinality(MP(sem)') = Cardinality(MP(sem)) + 1
    <3>1. IsFiniteSet(MP(sem)) /\ call \notin MP(sem)
      BY <1>f, <2>3
    <3>2. /\ IsFiniteSet(MP(sem) \union {call})
          /\ Cardinality(MP(sem) \union {call}) = Cardinality(MP(sem)) + 1
      <4> HIDE DEF MP, call
      <4> QED BY <3>1, FS_AddElement
    <3> QED BY <2>3, <3>2
  <2>5. CASE /\ value' = [value EXCEPT ![sem] = @ - 1]
             /\ UNCHANGED blocked_semaphore
    <3>1. \A s \in Sems : W(s)' = W(s)
      BY <2>5 DEF Sem!Waiting
    <3> QED BY <1>0, <1>b, <2>3, <2>4, <2>5, <3>1
  <2>6. CASE /\ blocked_semaphore' = [blocked_semaphore EXCEPT ![t] = sem]
             /\ UNCHANGED value
    <3>1. /\ W(sem)' = W(sem) \union {t} /\ t \notin W(sem)
          /\ \A s \in Sems \ {sem} : W(s)' = W(s)
      BY <1>0, <2>2, <2>6 DEF Sem!Waiting
    <3>2. IsFiniteSet(W(sem)') /\ Cardinality(W(sem)') = Cardinality(W(sem)) + 1
      <4>1. IsFiniteSet(W(sem)) /\ t \notin W(sem)
        BY <1>f, <3>1
      <4>2. /\ IsFiniteSet(W(sem) \union {t})
            /\ Cardinality(W(sem) \union {t}) = Cardinality(W(sem)) + 1
        <5> HIDE DEF W
        <5> QED BY <4>1, FS_AddElement
      <4> QED BY <3>1, <4>2
    <3>3. Fine(sem)'
      <4>1. /\ IsFiniteSet(MP(sem)') /\ IsFiniteSet(MV(sem)')
            /\ value'[sem] = value[sem]
        BY <1>0, <2>3, <2>4, <2>6
      <4> QED BY <1>0, <1>b, <2>3, <2>4, <3>2, <4>1
    <3>4. \A s \in Sems \ {sem} : Fine(s)'
      BY <1>0, <2>3, <2>6, <3>1
    <3> QED BY <1>0, <2>6, <3>3, <3>4
  <2> QED BY <2>2, <2>5, <2>6
<1>3. ASSUME NEW t \in Threads, Gives(t)
      PROVE  value' \in [Sems -> Int] /\ \A s \in Sems : Fine(s)'
  <2>1. PICK sem \in Sems : sem = Argument(t)
    BY <1>3, ArgumentOK DEF Gives
  <2>2. /\ Body[t][at[t]] = <<"V", sem>>
        /\ \/ /\ value' = [value EXCEPT ![sem] = @ + 1]
              /\ UNCHANGED blocked_semaphore
           \/ \E w \in W(sem) :
                /\ blocked_semaphore' = [blocked_semaphore EXCEPT ![w] = NULL]
                /\ UNCHANGED value
    BY <1>3, <2>1, GiveStep
  <2> DEFINE call == <<t, jobs[t], at[t]>>
  <2>3. /\ MV(sem)' = MV(sem) \union {call} /\ call \notin MV(sem)
        /\ \A s \in Sems \ {sem} : MV(s)' = MV(s)
        /\ \A s \in Sems : MP(s)' = MP(s)
    BY <1>3, <2>2, SemCallPerforms, MadeByPerforming
  <2>4. /\ IsFiniteSet(MV(sem)')
        /\ Cardinality(MV(sem)') = Cardinality(MV(sem)) + 1
    <3>1. IsFiniteSet(MV(sem)) /\ call \notin MV(sem)
      BY <1>f, <2>3
    <3>2. /\ IsFiniteSet(MV(sem) \union {call})
          /\ Cardinality(MV(sem) \union {call}) = Cardinality(MV(sem)) + 1
      <4> HIDE DEF MV, call
      <4> QED BY <3>1, FS_AddElement
    <3> QED BY <2>3, <3>2
  <2>5. CASE /\ value' = [value EXCEPT ![sem] = @ + 1]
             /\ UNCHANGED blocked_semaphore
    <3>1. \A s \in Sems : W(s)' = W(s)
      BY <2>5 DEF Sem!Waiting
    <3> QED BY <1>0, <1>b, <2>3, <2>4, <2>5, <3>1
  <2>6. ASSUME NEW w \in W(sem), UNCHANGED value,
               blocked_semaphore' = [blocked_semaphore EXCEPT ![w] = NULL]
        PROVE  value' \in [Sems -> Int] /\ \A s \in Sems : Fine(s)'
    <3>1. /\ W(sem)' = W(sem) \ {w}
          /\ \A s \in Sems \ {sem} : W(s)' = W(s)
      BY <1>0, <2>6 DEF Sem!Waiting
    <3>2. IsFiniteSet(W(sem)') /\ Cardinality(W(sem)') = Cardinality(W(sem)) - 1
      <4>1. IsFiniteSet(W(sem)) /\ w \in W(sem)
        BY <1>f, <2>6
      <4>2. /\ IsFiniteSet(W(sem) \ {w})
            /\ Cardinality(W(sem) \ {w}) = Cardinality(W(sem)) - 1
        <5> HIDE DEF W
        <5> QED BY <4>1, FS_RemoveElement
      <4> QED BY <3>1, <4>2
    <3>3. Fine(sem)'
      <4>1. /\ IsFiniteSet(MP(sem)') /\ IsFiniteSet(MV(sem)')
            /\ value'[sem] = value[sem]
        BY <1>0, <2>3, <2>4, <2>6
      <4> QED BY <1>0, <1>b, <2>3, <2>4, <3>2, <4>1
    <3>4. \A s \in Sems \ {sem} : Fine(s)'
      BY <1>0, <2>3, <2>6, <3>1
    <3> QED BY <1>0, <2>6, <3>3, <3>4
  <2> QED BY <2>2, <2>5, <2>6
<1>4. CASE SketchNext /\ \A t \in Threads : ~ Takes(t) /\ ~ Gives(t)
  <2>1. \A s \in Sems : MP(s)' = MP(s) /\ MV(s)' = MV(s)
    BY <1>4, MadeByOthers
  <2> QED BY <1>4, <1>c, <2>1, TokenStep DEF tokenVars
<1> QED BY <1>1, <1>2, <1>3, <1>4

(* Whatever the threads of a sketch do with its semaphores, the value of   *)
(* each is what it was created with, and what was given to it, less what   *)
(* was taken: no preemption and no handing over makes or loses a token.    *)
THEOREM TokensAreAccounted ==
  ASSUME SketchParams, EarlyEndsHarmless, RemovedAreLeft
  PROVE  SketchSpec => []TokensAccounted
<1> DEFINE Inv == BodyTypeOK /\ BlockedInv /\ AccountInv
<1>1. SketchInit => Inv
  BY BodyTypeInit, BlockedInit, AccountInit
<1>2. Inv /\ [SketchNext]_sketchVars => Inv'
  BY BodyTypeStep, BlockedStep, AccountStep
<1>3. Inv => TokensAccounted
  BY DEF AccountInv
<1> QED BY <1>1, <1>2, <1>3, PTL DEF SketchSpec

-----------------------------------------------------------------------------
(* A removed thread stays out: the list holds all but those for which      *)
(* thread_remove() was called, and thread_yield() looks nowhere else.      *)

RemovedInv == Linked = All \ Removed

LEMMA RemovedInit ==
  ASSUME SketchParams, SketchInit
  PROVE  RemovedInv
<1>1. ASSUME NEW t \in Threads, NEW c \in Made(<<"remove", t>>)
      PROVE  FALSE
  <2>1. PICK u \in Threads : \E j \in 0 .. jobs[u], i \in 1 .. Len(Body[u]) :
           j < jobs[u] \/ i < at[u]
    BY MadeMember
  <2>2. jobs[u] = 0 /\ at[u] = 1 /\ Len(Body[u]) \in Nat
    BY DEF SketchInit, SketchParams
  <2> QED BY <2>1, <2>2
<1>2. Removed = {}
  BY <1>1 DEF Removed
<1>3. Linked = All
  BY ThreadListAssumption DEF SketchInit, Init, KernelInit, Linked
<1> QED BY <1>2, <1>3 DEF RemovedInv

LEMMA RemovedStep ==
  ASSUME SketchParams, EarlyEndsHarmless, RemovedAreLeft, BodyTypeOK,
         BlockedInv, RemovedInv, [SketchNext]_sketchVars
  PROVE  RemovedInv'
<1>1. CASE UNCHANGED sketchVars
  <2>1. Linked' = Linked /\ UNCHANGED <<at, jobs>>
    BY <1>1 DEF sketchVars, vars, kernelVars, bodyVars, Linked
  <2> QED BY <2>1, MadeSame DEF Elsewhere, RemovedInv, Removed
<1>2. ASSUME NEW r \in Threads, Removes(r)
      PROVE  RemovedInv'
  <2>1. PICK th \in Threads : th = Argument(r)
    BY <1>2, ArgumentOK DEF Removes
  <2>2. Linked' = Linked \ {th} /\ Body[r][at[r]] = <<"remove", th>>
    BY <1>2, <2>1, RemoveStatus DEF BlockedInv
  <2>3. ASSUME NEW t \in Threads, t # th
        PROVE  Made(<<"remove", t>>)' = Made(<<"remove", t>>)
    <3>1. Body[r][at[r]] # <<"remove", t>>
      BY <2>2, <2>3
    <3> QED BY <1>2, <3>1, SemCallPerforms, MadeByPerforming
  <2>4. Made(<<"remove", th>>)' # {}
    BY <1>2, <2>2, SemCallPerforms, MadeByPerforming
  <2>5. Removed' = Removed \union {th}
    BY <2>3, <2>4 DEF Removed
  <2> QED BY <2>2, <2>5 DEF RemovedInv, All
<1>3. CASE SketchNext /\ \A t \in Threads : ~ Removes(t)
  <2>1. Removed' = Removed
    BY <1>3, MadeByOthers DEF Removed
  <2>2. Linked' = Linked
    BY <1>3, ListStep DEF Linked
  <2> QED BY <2>1, <2>2 DEF RemovedInv
<1> QED BY <1>1, <1>2, <1>3

(* thread_remove() unlinks the thread it was called for and no other,      *)
(* whether it finds it at the head of the list or behind, and it is final: *)
(* no interrupt, signal or semaphore gives the processor to the thread     *)
(* again, whatever it was suspended in.                                    *)
THEOREM RemovedIsOut ==
  ASSUME SketchParams, EarlyEndsHarmless, RemovedAreLeft
  PROVE  SketchSpec => []RemovedStaysOut
<1> DEFINE Inv == BodyTypeOK /\ BlockedInv /\ RemovedInv
<1>1. SketchInit => Inv
  BY BodyTypeInit, BlockedInit, RemovedInit
<1>2. Inv /\ [SketchNext]_sketchVars => Inv'
  BY BodyTypeStep, BlockedStep, RemovedStep
<1>3. Inv => RemovedStaysOut
  BY DEF BlockedInv, StatusOK, RemovedInv, RemovedStaysOut
<1> QED BY <1>1, <1>2, <1>3, PTL DEF SketchSpec

-----------------------------------------------------------------------------
(* Locks exclude.  A thread is inside from its P to its V, be it that it   *)
(* waits in the P; it holds the semaphore when it does not.                *)

LEMMA TimesNext ==
  ASSUME NEW t \in Threads, NEW entry, NEW n \in Nat
  PROVE  /\ Times(t, entry, n) \in Nat
         /\ Times(t, entry, n + 1) = Times(t, entry, n)
              + IF Body[t][n + 1] = entry THEN 1 ELSE 0
<1> DEFINE S(m) == {i \in 1 .. m : Body[t][i] = entry}
<1>1. IsFiniteSet(S(n))
  <2>1. IsFiniteSet(1 .. n) /\ S(n) \in SUBSET (1 .. n)
    BY FS_Interval
  <2> QED BY <2>1, FS_Subset
<1>2. /\ Times(t, entry, n) = Cardinality(S(n))
      /\ Times(t, entry, n + 1) = Cardinality(S(n + 1))
  BY DEF Times
<1>3. Cardinality(S(n)) \in Nat
  BY <1>1, FS_CardinalityType
<1>4. CASE Body[t][n + 1] = entry
  <2>1. S(n + 1) = S(n) \union {n + 1} /\ n + 1 \notin S(n)
    BY <1>4
  <2>2. Cardinality(S(n + 1)) = Cardinality(S(n)) + 1
    <3> HIDE DEF S
    <3> QED BY <1>1, <2>1, FS_AddElement
  <2> QED BY <1>2, <1>3, <1>4, <2>2
<1>5. CASE Body[t][n + 1] # entry
  <2>1. S(n + 1) = S(n)
    BY <1>5
  <2> QED BY <1>2, <1>3, <1>5, <2>1
<1> QED BY <1>4, <1>5

LEMMA TimesNone ==
  ASSUME NEW t \in Threads, NEW entry, ~ Has(t, entry),
         NEW n \in 0 .. Len(Body[t]), Len(Body[t]) \in Nat
  PROVE  Times(t, entry, n) = 0
<1>1. {i \in 1 .. n : Body[t][i] = entry} = {}
  BY DEF Has
<1> QED BY <1>1, FS_EmptySet DEF Times

LEMMA DepthNext ==
  ASSUME NEW t \in Threads, NEW sem, NEW n \in Nat
  PROVE  /\ Depth(t, sem, n) \in Int
         /\ Depth(t, sem, n + 1) = Depth(t, sem, n)
              + (IF Body[t][n + 1] = <<"P", sem>> THEN 1 ELSE 0)
              - (IF Body[t][n + 1] = <<"V", sem>> THEN 1 ELSE 0)
BY TimesNext DEF Depth

LEMMA DepthNone ==
  ASSUME SketchParams, NEW t \in Threads, NEW sem,
         ~ Has(t, <<"P", sem>>), NEW n \in 0 .. Len(Body[t])
  PROVE  Depth(t, sem, n) <= 0
<1>1. Len(Body[t]) \in Nat /\ n \in Nat
  BY DEF SketchParams
<1>2. Times(t, <<"P", sem>>, n) = 0
  BY <1>1, TimesNone
<1>3. Times(t, <<"V", sem>>, n) \in Nat
  BY <1>1, TimesNext
<1> QED BY <1>2, <1>3 DEF Depth

LEMMA DepthZero ==
  ASSUME NEW t \in Threads, NEW sem
  PROVE  Depth(t, sem, 0) = 0
<1>1. \A entry : {i \in 1 .. 0 : Body[t][i] = entry} = {}
  OBVIOUS
<1> QED BY <1>1, FS_EmptySet DEF Depth, Times

Lock(sem) ==
  /\ Tokens[sem] = 1
  /\ \E t \in Threads : Has(t, <<"P", sem>>) /\ Has(t, <<"V", sem>>)

Inside(t, sem) == Depth(t, sem, at[t] - 1) = 1
Holds(t, sem)  == Inside(t, sem) /\ blocked_semaphore[t] # sem

LockInv ==
  \A sem \in Sems : Lock(sem) =>
    /\ value[sem] \in {0, 1}
    /\ value[sem] = 1 => \A t \in Threads : ~ Holds(t, sem)
    /\ \A t, u \in Threads : Holds(t, sem) /\ Holds(u, sem) => t = u
    /\ \A t \in Threads : blocked_semaphore[t] = sem => Inside(t, sem)

LEMMA LockPaired ==
  ASSUME SketchParams, LocksPaired, BodyTypeOK,
         NEW sem \in Sems, Lock(sem), NEW t \in Threads
  PROVE  /\ at[t] - 1 \in 0 .. Len(Body[t]) /\ Len(Body[t]) \in Nat
         /\ \A n \in 0 .. Len(Body[t]) : Depth(t, sem, n) \in {0, 1}
         /\ Depth(t, sem, Len(Body[t])) = 0
<1>1. Len(Body[t]) \in Nat
  BY DEF SketchParams
<1>2. at[t] \in Nat \ {0} /\ at[t] <= Len(Body[t]) + 1
  BY DEF BodyTypeOK
<1>3. at[t] - 1 \in 0 .. Len(Body[t])
  BY <1>1, <1>2
<1>4. /\ \A n \in 0 .. Len(Body[t]) : Depth(t, sem, n) \in {0, 1}
      /\ Depth(t, sem, Len(Body[t])) = 0
  BY DEF LocksPaired, Lock
<1> QED BY <1>1, <1>3, <1>4

LEMMA LocksExclude ==
  ASSUME SketchParams, LocksPaired, BodyTypeOK, LockInv
  PROVE  MutualExclusion
<1> SUFFICES ASSUME NEW t \in Threads, NEW u \in Threads, NEW sem \in Sems,
                    Tokens[sem] = 1, Between(t, sem), Between(u, sem)
             PROVE  t = u
  BY DEF MutualExclusion
<1>1. Lock(sem)
  <2>1. at[t] - 1 \in 0 .. Len(Body[t])
    BY DEF BodyTypeOK, SketchParams
  <2>2. Has(t, <<"P", sem>>)
    <3>1. Depth(t, sem, at[t] - 1) > 0 /\ Depth(t, sem, at[t] - 1) \in Int
      BY <2>1, DepthNext DEF Between
    <3> QED BY <2>1, <3>1, DepthNone
  <2> QED BY <2>2 DEF Lock, Between
<1>2. ASSUME NEW v \in Threads, Between(v, sem)
      PROVE  Holds(v, sem)
  <2>1. Depth(v, sem, at[v] - 1) \in {0, 1}
    BY <1>1, LockPaired
  <2> QED BY <1>2, <2>1 DEF Between, Holds, Inside
<1> QED BY <1>1, <1>2 DEF LockInv

LEMMA LockInit ==
  ASSUME SketchParams, SketchInit
  PROVE  LockInv
<1>1. ASSUME NEW sem \in Sems, Lock(sem)
      PROVE  value[sem] = 1 /\ \A t \in Threads : ~ Inside(t, sem)
  <2>0. at = [t \in Threads |-> 1]
    BY DEF SketchInit
  <2>1. at \in [Threads -> Int] /\ \A t \in Threads : at[t] = 1
    BY <2>0
  <2>2. ASSUME NEW t \in Threads
        PROVE  ~ Inside(t, sem)
    <3>1. at[t] \in Int /\ at[t] - 1 = 0
      BY <2>1
    <3>2. Depth(t, sem, at[t] - 1) = 0
      BY <3>1, DepthZero
    <3> QED BY <3>1, <3>2 DEF Inside
  <2>3. value[sem] = 1
    BY <1>1 DEF SketchInit, Lock
  <2> QED BY <2>2, <2>3
<1>2. \A sem \in Sems, t \in Threads : blocked_semaphore[t] # sem
  BY DEF SketchInit, SketchParams
<1> QED BY <1>1, <1>2 DEF LockInv, Holds

(* Nobody enters or leaves but by P and V.                                 *)
LEMMA InsideSame ==
  ASSUME SketchParams, EarlyEndsHarmless, LocksPaired, BodyTypeOK,
         SketchNext \/ UNCHANGED sketchVars,
         \A t \in Threads : ~ Takes(t) /\ ~ Gives(t),
         NEW sem \in Sems, Lock(sem), NEW u \in Threads
  PROVE  Inside(u, sem)' <=> Inside(u, sem)
<1>0. at[u] - 1 \in 0 .. Len(Body[u]) /\ at[u] \in Nat
  BY LockPaired DEF BodyTypeOK
<1>1. CASE at'[u] = at[u]
  BY <1>1 DEF Inside
<1>2. ASSUME NEW t \in Threads, Performs(t), Executes(t), t = u
      PROVE  Inside(u, sem)' <=> Inside(u, sem)
  <2>1. at'[u] - 1 = (at[u] - 1) + 1
    BY <1>0, <1>2 DEF Performs, BodyTypeOK
  <2>2. Body[u][at[u]] # <<"P", sem>> /\ Body[u][at[u]] # <<"V", sem>>
    BY <1>2, CallStep
  <2>3. Depth(u, sem, at'[u] - 1) = Depth(u, sem, at[u] - 1)
    <3> DEFINE n == at[u] - 1
    <3>1. n \in Nat /\ n + 1 = at[u] /\ at'[u] - 1 = n + 1
      BY <1>0, <2>1
    <3> HIDE DEF n
    <3>2. Depth(u, sem, n + 1) = Depth(u, sem, n)
      BY <2>2, <3>1, DepthNext
    <3> QED BY <3>1, <3>2 DEF n
  <2> QED BY <2>3 DEF Inside
<1>3. ASSUME NEW t \in Threads, Skips(t), t = u
      PROVE  Inside(u, sem)' <=> Inside(u, sem)
  <2>1. ~ Has(u, <<"P", sem>>)
    <3>1. Calls(u, "input") \/ Calls(u, "first")
      BY <1>3, EntryPerformed DEF Skips, Calls
    <3> QED BY <3>1 DEF EarlyEndsHarmless, Has, Calls
  <2>2. at'[u] - 1 \in 0 .. Len(Body[u])
    BY <1>3, LockPaired DEF Skips, BodyTypeOK
  <2>3. ~ Depth(u, sem, at[u] - 1) = 1
    BY <1>0, <2>1, DepthNone
  <2>4. ~ Depth(u, sem, at'[u] - 1) = 1
    BY <2>1, <2>2, DepthNone
  <2> QED BY <2>3, <2>4 DEF Inside
<1>4. ASSUME NEW t \in Threads, Finishes(t), t = u
      PROVE  Inside(u, sem)' <=> Inside(u, sem)
  <2>1. at'[u] - 1 = 0 /\ at[u] - 1 = Len(Body[u])
    BY <1>0, <1>4, LockPaired DEF Finishes, BodyTypeOK
  <2>2. Depth(u, sem, at'[u] - 1) = 0 /\ Depth(u, sem, at[u] - 1) = 0
    BY <2>1, LockPaired, DepthZero
  <2> QED BY <2>2 DEF Inside
<1>5. \/ at'[u] = at[u]
      \/ \E t \in Threads : t = u /\ \/ Performs(t) /\ Executes(t)
                                     \/ Skips(t)
                                     \/ Finishes(t)
  <2>1. CASE UNCHANGED sketchVars
    BY <2>1 DEF sketchVars, bodyVars
  <2>2. CASE Elsewhere
    BY <2>2 DEF Elsewhere
  <2>3. ASSUME NEW t \in Threads, t # u, Performs(t) \/ Skips(t) \/ Finishes(t)
        PROVE  at'[u] = at[u]
    BY <2>3 DEF Performs, Skips, Finishes, BodyTypeOK
  <2> QED BY <2>1, <2>2, <2>3, BodyStep
<1> QED BY <1>1, <1>2, <1>3, <1>4, <1>5

(* The one who performs P, or V, and nobody else, is inside after, or was. *)
LEMMA InsideMoves ==
  ASSUME SketchParams, LocksPaired, BodyTypeOK, NEW t \in Threads, Performs(t),
         NEW sem \in Sems, Lock(sem)
  PROVE  /\ Body[t][at[t]] = <<"P", sem>> =>
              ~ Inside(t, sem) /\ Inside(t, sem)'
         /\ Body[t][at[t]] = <<"V", sem>> =>
              Inside(t, sem) /\ ~ Inside(t, sem)'
         /\ Body[t][at[t]] \notin {<<"P", sem>>, <<"V", sem>>} =>
              (Inside(t, sem)' <=> Inside(t, sem))
         /\ \A u \in Threads \ {t} : Inside(u, sem)' <=> Inside(u, sem)
<1> DEFINE n == at[t] - 1
<1>1. /\ n \in 0 .. Len(Body[t]) /\ n + 1 \in 0 .. Len(Body[t])
      /\ n \in Nat /\ n + 1 = at[t] /\ at'[t] - 1 = n + 1
  BY LockPaired DEF Performs, BodyTypeOK
<1>2. Depth(t, sem, n) \in {0, 1} /\ Depth(t, sem, n + 1) \in {0, 1}
  BY <1>1, LockPaired
<1>3. /\ Inside(t, sem) <=> Depth(t, sem, n) = 1
      /\ Inside(t, sem)' <=> Depth(t, sem, n + 1) = 1
  BY <1>1 DEF Inside
<1> HIDE DEF n
<1>4. Depth(t, sem, n + 1) = Depth(t, sem, n)
        + (IF Body[t][at[t]] = <<"P", sem>> THEN 1 ELSE 0)
        - (IF Body[t][at[t]] = <<"V", sem>> THEN 1 ELSE 0)
  BY <1>1, DepthNext
<1>5. /\ Body[t][at[t]] = <<"P", sem>> =>
           Depth(t, sem, n) = 0 /\ Depth(t, sem, n + 1) = 1
      /\ Body[t][at[t]] = <<"V", sem>> =>
           Depth(t, sem, n) = 1 /\ Depth(t, sem, n + 1) = 0
      /\ Body[t][at[t]] \notin {<<"P", sem>>, <<"V", sem>>} =>
           Depth(t, sem, n + 1) = Depth(t, sem, n)
  <2>1. <<"P", sem>> # <<"V", sem>>
    OBVIOUS
  <2> DEFINE d == Depth(t, sem, n)
             e == Depth(t, sem, n + 1)
             b == Body[t][at[t]]
  <2>2. /\ d \in {0, 1} /\ e \in {0, 1}
        /\ e = d + (IF b = <<"P", sem>> THEN 1 ELSE 0)
                 - (IF b = <<"V", sem>> THEN 1 ELSE 0)
    BY <1>2, <1>4
  <2> HIDE DEF d, e, b
  <2>3. /\ b = <<"P", sem>> => d = 0 /\ e = 1
        /\ b = <<"V", sem>> => d = 1 /\ e = 0
        /\ b # <<"P", sem>> /\ b # <<"V", sem>> => e = d
    BY <2>1, <2>2
  <2> QED BY <2>3 DEF d, e, b
<1>6. \A u \in Threads \ {t} : Inside(u, sem)' <=> Inside(u, sem)
  BY DEF Performs, BodyTypeOK, Inside
<1> QED BY <1>3, <1>5, <1>6

LEMMA LockStep ==
  ASSUME SketchParams, EarlyEndsHarmless, LocksPaired, BodyTypeOK, BlockedInv,
         LockInv, value \in [Sems -> Int], [SketchNext]_sketchVars
  PROVE  LockInv'
<1> SUFFICES ASSUME NEW sem \in Sems, Lock(sem)
             PROVE  /\ value'[sem] \in {0, 1}
                    /\ value'[sem] = 1 => \A u \in Threads : ~ Holds(u, sem)'
                    /\ \A u, v \in Threads :
                         Holds(u, sem)' /\ Holds(v, sem)' => u = v
                    /\ \A u \in Threads :
                         blocked_semaphore'[u] = sem => Inside(u, sem)'
  BY DEF LockInv, Lock
<1>0. /\ value[sem] \in {0, 1}
      /\ value[sem] = 1 => \A u \in Threads : ~ Holds(u, sem)
      /\ \A u, v \in Threads : Holds(u, sem) /\ Holds(v, sem) => u = v
      /\ \A u \in Threads : blocked_semaphore[u] = sem => Inside(u, sem)
      /\ blocked_semaphore \in [Threads -> Sems \union {NULL}] /\ sem # NULL
  BY DEF LockInv, BlockedInv, SketchParams
<1>1. CASE \A t \in Threads : ~ Takes(t) /\ ~ Gives(t)
  <2>1. \A u \in Threads : Inside(u, sem)' <=> Inside(u, sem)
    BY <1>1, InsideSame
  <2>2. UNCHANGED <<value, blocked_semaphore>>
    BY <1>1, TokenStep DEF tokenVars, sketchVars
  <2> QED BY <1>0, <2>1, <2>2 DEF Holds
<1>2. ASSUME NEW t \in Threads, Takes(t)
      PROVE  /\ value'[sem] \in {0, 1}
             /\ value'[sem] = 1 => \A u \in Threads : ~ Holds(u, sem)'
             /\ \A u, v \in Threads :
                  Holds(u, sem)' /\ Holds(v, sem)' => u = v
             /\ \A u \in Threads :
                  blocked_semaphore'[u] = sem => Inside(u, sem)'
  <2>1. PICK s \in Sems : s = Argument(t)
    BY <1>2, ArgumentOK DEF Takes
  <2>2. /\ Body[t][at[t]] = <<"P", s>> /\ blocked_semaphore[t] = NULL
        /\ \/ /\ value[s] > 0 /\ value' = [value EXCEPT ![s] = @ - 1]
              /\ UNCHANGED blocked_semaphore
           \/ /\ value[s] <= 0
              /\ blocked_semaphore' = [blocked_semaphore EXCEPT ![t] = s]
              /\ UNCHANGED value
    BY <1>2, <2>1, TakeStep
  <2>3. /\ \A u \in Threads \ {t} : Inside(u, sem)' <=> Inside(u, sem)
        /\ s = sem => ~ Inside(t, sem) /\ Inside(t, sem)'
        /\ s # sem => (Inside(t, sem)' <=> Inside(t, sem))
    BY <1>2, <2>2, SemCallPerforms, InsideMoves
  <2>4. CASE s # sem
    <3>1. /\ value'[sem] = value[sem]
          /\ \A u \in Threads :
               blocked_semaphore'[u] = sem <=> blocked_semaphore[u] = sem
      BY <1>0, <2>2, <2>4
    <3>2. \A u \in Threads : Inside(u, sem)' <=> Inside(u, sem)
      BY <2>3, <2>4
    <3> QED BY <1>0, <3>1, <3>2 DEF Holds
  <2>5. CASE s = sem /\ value[sem] > 0
    <3>1. /\ value'[sem] = 0 /\ value[sem] = 1
          /\ blocked_semaphore' = blocked_semaphore
      BY <1>0, <2>2, <2>5
    <3>2. \A u \in Threads : Holds(u, sem)' => u = t
      BY <1>0, <2>3, <3>1 DEF Holds
    <3> QED BY <1>0, <2>3, <2>5, <3>1, <3>2
  <2>6. CASE s = sem /\ ~ value[sem] > 0
    <3>1. /\ value'[sem] = 0
          /\ blocked_semaphore' = [blocked_semaphore EXCEPT ![t] = sem]
      BY <1>0, <2>2, <2>6
    <3>2. \A u \in Threads : Holds(u, sem)' => Holds(u, sem)
      BY <1>0, <2>3, <3>1 DEF Holds
    <3> QED BY <1>0, <2>3, <2>6, <3>1, <3>2
  <2> QED BY <2>4, <2>5, <2>6
<1>3. ASSUME NEW t \in Threads, Gives(t)
      PROVE  /\ value'[sem] \in {0, 1}
             /\ value'[sem] = 1 => \A u \in Threads : ~ Holds(u, sem)'
             /\ \A u, v \in Threads :
                  Holds(u, sem)' /\ Holds(v, sem)' => u = v
             /\ \A u \in Threads :
                  blocked_semaphore'[u] = sem => Inside(u, sem)'
  <2>1. PICK s \in Sems : s = Argument(t)
    BY <1>3, ArgumentOK DEF Gives
  <2>2. /\ Body[t][at[t]] = <<"V", s>> /\ blocked_semaphore[t] = NULL
        /\ \/ /\ value' = [value EXCEPT ![s] = @ + 1]
              /\ UNCHANGED blocked_semaphore
           \/ \E w \in Sem!Waiting(s) :
                /\ blocked_semaphore' = [blocked_semaphore EXCEPT ![w] = NULL]
                /\ UNCHANGED value
    BY <1>3, <2>1, GiveStep
  <2>3. /\ \A u \in Threads \ {t} : Inside(u, sem)' <=> Inside(u, sem)
        /\ s = sem => Inside(t, sem) /\ ~ Inside(t, sem)'
        /\ s # sem => (Inside(t, sem)' <=> Inside(t, sem))
    BY <1>3, <2>2, SemCallPerforms, InsideMoves
  <2>4. CASE s # sem
    <3>1. /\ value'[sem] = value[sem]
          /\ \A u \in Threads :
               blocked_semaphore'[u] = sem <=> blocked_semaphore[u] = sem
      BY <1>0, <2>2, <2>4 DEF Sem!Waiting
    <3>2. \A u \in Threads : Inside(u, sem)' <=> Inside(u, sem)
      BY <2>3, <2>4
    <3> QED BY <1>0, <3>1, <3>2 DEF Holds
  <2>5. CASE s = sem
    <3>1. Holds(t, sem) /\ value[sem] = 0
      BY <1>0, <2>2, <2>3, <2>5 DEF Holds
    <3>2. \A u \in Threads : Holds(u, sem) => u = t
      BY <1>0, <3>1
    <3>3. CASE value' = [value EXCEPT ![s] = @ + 1]
               /\ UNCHANGED blocked_semaphore
      <4>1. value'[sem] = 1
        BY <2>5, <3>1, <3>3
      <4>2. \A u \in Threads : ~ Holds(u, sem)'
        BY <2>3, <2>5, <3>2, <3>3 DEF Holds
      <4> QED BY <1>0, <2>2, <2>3, <3>3, <4>1, <4>2
    <3>4. ASSUME NEW w \in Sem!Waiting(s), UNCHANGED value,
                 blocked_semaphore' = [blocked_semaphore EXCEPT ![w] = NULL]
          PROVE  /\ value'[sem] \in {0, 1}
                 /\ value'[sem] = 1 => \A u \in Threads : ~ Holds(u, sem)'
                 /\ \A u, v \in Threads :
                      Holds(u, sem)' /\ Holds(v, sem)' => u = v
                 /\ \A u \in Threads :
                      blocked_semaphore'[u] = sem => Inside(u, sem)'
      <4>1. w \in Threads /\ blocked_semaphore[w] = sem /\ w # t
        BY <1>0, <2>2, <2>5 DEF Sem!Waiting
      <4>2. value'[sem] = 0
        BY <3>1, <3>4
      <4>3. \A u \in Threads : Holds(u, sem)' => u = w
        BY <1>0, <2>3, <2>5, <3>2, <3>4, <4>1 DEF Holds
      <4>4. \A u \in Threads :
              blocked_semaphore'[u] = sem => Inside(u, sem)'
        BY <1>0, <2>2, <2>3, <3>4, <4>1
      <4> QED BY <4>2, <4>3, <4>4
    <3> QED BY <2>2, <3>3, <3>4
  <2> QED BY <2>4, <2>5
<1> QED BY <1>1, <1>2, <1>3

(* Executors that put P and V of a semaphore with one token around their   *)
(* use of shared data are never between the two at once.                   *)
THEOREM LocksAreExclusive ==
  ASSUME SketchParams, EarlyEndsHarmless, RemovedAreLeft, LocksPaired
  PROVE  SketchSpec => []MutualExclusion
<1> DEFINE Inv == BodyTypeOK /\ BlockedInv /\ AccountInv /\ LockInv
<1>1. SketchInit => Inv
  BY BodyTypeInit, BlockedInit, AccountInit, LockInit
<1>2. Inv /\ [SketchNext]_sketchVars => Inv'
  <2> SUFFICES ASSUME Inv, [SketchNext]_sketchVars
               PROVE  Inv'
    OBVIOUS
  <2>1. value \in [Sems -> Int]
    BY DEF AccountInv
  <2> QED BY <2>1, BodyTypeStep, BlockedStep, AccountStep, LockStep
<1>3. Inv => MutualExclusion
  BY LocksExclude
<1> QED BY <1>1, <1>2, <1>3, PTL DEF SketchSpec

-----------------------------------------------------------------------------
(* Own signals are handled.  The loops that take them are parallel to the  *)
(* calls a thread is suspended in, and a signal that counts for a thread   *)
(* that alone signals itself is in front of one of them.                   *)

InLoop(t) == \E i \in 1 .. Len(drain[t]) : drain[t][i].at # "done"

LoopsOK ==
  /\ frames \in [All -> Seq(Frames)]
  /\ drain \in [All -> Seq(ATS!Loops)]
  /\ \A t \in All : Len(drain[t]) = Len(frames[t])

OwnInv ==
  /\ LoopsOK
  /\ ats_active \in [Threads -> {0, 1}]
  /\ ats_pending \in [Threads -> 0 .. PendingMod - 1]
  /\ to_yield \in SUBSET Threads
  /\ \A t \in Threads :
       /\ pc[t] # "await"
       /\ SignalsItself(t) /\ t \notin to_yield /\ ats_active[t] = 1
            => ats_pending[t] = 0 \/ InLoop(t)

LEMMA OwnHandled ==
  ASSUME OwnInv
  PROVE  OwnSignalsHandled
<1> SUFFICES ASSUME NEW t \in Threads, SignalsItself(t), Runs(t),
                    t \notin to_yield, ats_active[t] = 1, t \in Listeners
             PROVE  ats_pending[t] = 0
  BY DEF OwnSignalsHandled, Listeners
<1>1. Len(drain[t]) = 0
  BY DEF OwnInv, LoopsOK, Runs, All
<1>2. ~ InLoop(t)
  BY <1>1 DEF InLoop
<1> QED BY <1>2 DEF OwnInv

(* What a step does to the calls and the loops.                            *)
PushesOn(c) ==
  /\ \E f \in Frames : frames' = [frames EXCEPT ![c] = <<f>> \o @]
  /\ drain' = [drain EXCEPT ![c] = <<[at |-> "check", read |-> 0]>> \o @]

Pushes == \E c \in All : PushesOn(c)
Keeps  == UNCHANGED <<frames, drain>>

LEMMA LeavesPushes ==
  ASSUME OwnInv, current_thread \in All, Listeners # {}, Leaves,
         UNCHANGED frames \/ \E f \in Frames : Suspend(f)
  PROVE  Pushes \/ Keeps
<1> USE DEF OwnInv, LoopsOK
<1>1. CASE UNCHANGED frames
  <2>1. drain' = [t \in All |-> drain[t]]
    BY <1>1 DEF Leaves
  <2> QED BY <1>1, <2>1 DEF Keeps
<1>2. ASSUME NEW f \in Frames, Suspend(f)
      PROVE  Pushes
  <2>1. PICK c \in All : c = current_thread
    OBVIOUS
  <2>2. frames' = [frames EXCEPT ![c] = <<f>> \o @]
    BY <1>2, <2>1 DEF Suspend
  <2>3. Len(frames'[c]) = Len(frames[c]) + 1 /\ Len(frames[c]) \in Nat
    BY <2>2
  <2>4. \A t \in All \ {c} : frames'[t] = frames[t]
    BY <2>2
  <2>5. drain' = [t \in All |-> IF t = c
                    THEN <<[at |-> "check", read |-> 0]>> \o drain[t]
                    ELSE drain[t]]
    <3>1. \A t \in All : (Len(frames'[t]) > Len(frames[t])) <=> t = c
      BY <2>3, <2>4
    <3> QED BY <3>1 DEF Leaves
  <2>6. drain' = [drain EXCEPT ![c] = <<[at |-> "check", read |-> 0]>> \o @]
    BY <2>5
  <2> QED BY <2>2, <2>6 DEF Pushes, PushesOn
<1> QED BY <1>1, <1>2

(* The loops of a thread that is suspended once more go on where they are, *)
(* and it has one more to run.                                             *)
LEMMA PushLoops ==
  ASSUME SketchParams, OwnInv, NEW c \in All, PushesOn(c)
  PROVE  /\ LoopsOK'
         /\ \A t \in Threads : InLoop(t) \/ t = c => InLoop(t)'
<1> USE DEF OwnInv, LoopsOK
<1>1. PICK f \in Frames :
         /\ frames' = [frames EXCEPT ![c] = <<f>> \o @]
         /\ drain' = [drain EXCEPT ![c] = <<[at |-> "check", read |-> 0]>> \o @]
  BY DEF PushesOn
<1> DEFINE x == [at |-> "check", read |-> 0]
<1>2. x \in ATS!Loops /\ x.at # "done"
  BY DEF ATS!Loops, SketchParams
<1> HIDE DEF x
<1>3. drain[c] \in Seq(ATS!Loops) /\ frames[c] \in Seq(Frames)
  OBVIOUS
<1>4. /\ <<x>> \o drain[c] \in Seq(ATS!Loops)
      /\ Len(<<x>> \o drain[c]) = Len(drain[c]) + 1
      /\ \A i \in 1 .. Len(drain[c]) : (<<x>> \o drain[c])[i + 1] = drain[c][i]
      /\ (<<x>> \o drain[c])[1] = x
      /\ <<f>> \o frames[c] \in Seq(Frames)
      /\ Len(<<f>> \o frames[c]) = Len(frames[c]) + 1
      /\ Len(drain[c]) \in Nat
  BY <1>2, <1>3
<1>5. /\ drain'[c] = <<x>> \o drain[c] /\ frames'[c] = <<f>> \o frames[c]
      /\ \A t \in All \ {c} : drain'[t] = drain[t] /\ frames'[t] = frames[t]
  BY <1>1 DEF x
<1>6. /\ frames' \in [All -> Seq(Frames)]
      /\ drain' \in [All -> Seq(ATS!Loops)]
  BY <1>1, <1>4 DEF x
<1>7. \A t \in All : Len(drain'[t]) = Len(frames'[t])
  BY <1>4, <1>5
<1>8. ASSUME NEW t \in Threads, InLoop(t) \/ t = c
      PROVE  InLoop(t)'
  <2>1. CASE t = c
    <3>1. 1 \in 1 .. Len(drain'[c]) /\ drain'[c][1].at # "done"
      BY <1>2, <1>4, <1>5
    <3> QED BY <2>1, <3>1 DEF InLoop
  <2>2. CASE t # c
    BY <1>5, <1>8, <2>2 DEF InLoop, All
  <2> QED BY <2>1, <2>2
<1>9. LoopsOK'
  BY <1>6, <1>7 DEF ATS!Loops
<1> QED BY <1>8, <1>9

(* Steps that leave the asynchronous signals alone.                        *)
LEMMA OwnKept ==
  ASSUME SketchParams, OwnInv, Pushes \/ Keeps,
         UNCHANGED <<ats_active, ats_pending, to_yield>>,
         \A t \in Threads : pc'[t] # "await"
  PROVE  OwnInv'
<1>1. LoopsOK' /\ \A t \in Threads : InLoop(t) => InLoop(t)'
  <2>1. CASE Pushes
    BY <2>1, PushLoops DEF Pushes
  <2>2. CASE Keeps
    BY <2>2 DEF Keeps, OwnInv, LoopsOK, InLoop, ATS!Loops
  <2> QED BY <2>1, <2>2
<1> QED BY <1>1 DEF OwnInv, SignalsItself

(* Periodic threads do not await a signal.                                 *)
LEMMA PeriodicPattern ==
  ASSUME BodyTypeOK, OwnInv, NEW t \in Threads, Pattern(t), t \notin EventDriven
  PROVE  /\ \A u \in Threads : pc'[u] # "await"
         /\ UNCHANGED frames \/ \E f \in Frames : Suspend(f)
<1>0. \A u \in Threads : pc[u] # "await"
  BY DEF OwnInv
<1>1. ASSUME NEW p, p # "await", GoTo(t, p)
      PROVE  \A u \in Threads : pc'[u] # "await"
  BY <1>0, <1>1 DEF GoTo, BodyTypeOK
<1>2. /\ AfterJob(t) # "await"
      /\ \A v : AfterTest(t, v, "cost") # "await"
      /\ \A v : AfterTest(t, v, AfterJob(t)) # "await"
  BY DEF AfterJob, AfterTest
<1>3. ~ Await(t) /\ ~ AwaitOver(t) /\ ~ AwaitAgain(t)
  BY <1>0 DEF Await, AwaitOver, AwaitAgain, ReturnFromBlock
<1>4. CASE Entry(t) \/ Proceed(t) \/ Release(t) \/ Reset(t) \/ ExecutorEnds(t)
             \/ Decrement(t)
  BY <1>1, <1>4
     DEF Entry, Proceed, Release, Reset, ExecutorEnds, Decrement, kernelVars
<1>5. CASE SleepOffset(t) \/ SleepToNext(t)
  <2>1. \E f \in Frames : Suspend(f)
    BY <1>5 DEF SleepOffset, SleepToNext, TickSleep, Frames
  <2> QED BY <1>1, <1>5, <2>1 DEF SleepOffset, SleepToNext
<1>6. CASE Account(t)
  BY <1>1, <1>2, <1>6 DEF Account
<1>7. CASE TestCost(t)
  BY <1>1, <1>2, <1>7 DEF TestCost, kernelVars
<1> QED BY <1>3, <1>4, <1>5, <1>6, <1>7 DEF Pattern

(* A loop goes on: its thread has still a loop to run unless this one is   *)
(* over.                                                                   *)
LEMMA LoopGoesOn ==
  ASSUME OwnInv, NEW c \in All, drain[c] # <<>>, NEW x \in ATS!Loops,
         drain' = [drain EXCEPT ![c] = <<x>> \o Tail(@)], UNCHANGED frames
  PROVE  /\ LoopsOK'
         /\ x.at # "done" /\ c \in Threads => InLoop(c)'
         /\ \A t \in Threads \ {c} : InLoop(t) => InLoop(t)'
<1> USE DEF OwnInv, LoopsOK
<1>1. drain[c] \in Seq(ATS!Loops)
  OBVIOUS
<1>2. /\ <<x>> \o Tail(drain[c]) \in Seq(ATS!Loops)
      /\ Len(<<x>> \o Tail(drain[c])) = Len(drain[c])
      /\ (<<x>> \o Tail(drain[c]))[1] = x
      /\ 1 \in 1 .. Len(drain[c])
  BY <1>1
<1>3. /\ drain'[c] = <<x>> \o Tail(drain[c])
      /\ \A t \in All \ {c} : drain'[t] = drain[t]
  OBVIOUS
<1>4. LoopsOK'
  <2>1. drain' \in [All -> Seq(ATS!Loops)]
    BY <1>2
  <2>2. \A t \in All : Len(drain'[t]) = Len(frames'[t])
    BY <1>2, <1>3
  <2> QED BY <2>1, <2>2 DEF ATS!Loops
<1>5. x.at # "done" /\ c \in Threads => InLoop(c)'
  BY <1>2, <1>3 DEF InLoop
<1>6. \A t \in Threads \ {c} : InLoop(t) => InLoop(t)'
  BY <1>3 DEF InLoop, All
<1> QED BY <1>4, <1>5, <1>6

(* A loop that is over leaves those around it to run.                      *)
LEMMA LoopReturns ==
  ASSUME OwnInv, NEW c \in All, drain[c] # <<>>, Head(drain[c]).at = "done",
         drain' = [drain EXCEPT ![c] = Tail(@)],
         frames' = [frames EXCEPT ![c] = Tail(@)]
  PROVE  LoopsOK' /\ \A t \in Threads : InLoop(t) => InLoop(t)'
<1> USE DEF OwnInv, LoopsOK
<1>1. /\ drain[c] \in Seq(ATS!Loops) /\ frames[c] \in Seq(Frames)
      /\ Len(drain[c]) = Len(frames[c])
  OBVIOUS
<1>2. /\ Tail(drain[c]) \in Seq(ATS!Loops) /\ Tail(frames[c]) \in Seq(Frames)
      /\ Len(Tail(drain[c])) = Len(drain[c]) - 1
      /\ Len(Tail(frames[c])) = Len(drain[c]) - 1
      /\ Len(drain[c]) \in Nat \ {0}
      /\ \A i \in 1 .. Len(drain[c]) - 1 : Tail(drain[c])[i] = drain[c][i + 1]
      /\ drain[c][1] = Head(drain[c])
  BY <1>1
<1>3. /\ drain'[c] = Tail(drain[c]) /\ frames'[c] = Tail(frames[c])
      /\ \A t \in All \ {c} : drain'[t] = drain[t] /\ frames'[t] = frames[t]
  OBVIOUS
<1>4. LoopsOK'
  <2>1. /\ drain' \in [All -> Seq(ATS!Loops)]
        /\ frames' \in [All -> Seq(Frames)]
    BY <1>2
  <2>2. \A t \in All : Len(drain'[t]) = Len(frames'[t])
    BY <1>2, <1>3
  <2> QED BY <2>1, <2>2 DEF ATS!Loops
<1>5. ASSUME NEW t \in Threads, InLoop(t)
      PROVE  InLoop(t)'
  <2>1. CASE t = c
    <3>1. PICK i \in 1 .. Len(drain[c]) : drain[c][i].at # "done"
      BY <1>5, <2>1 DEF InLoop
    <3>2. i # 1
      BY <1>2, <3>1
    <3>3. i - 1 \in 1 .. Len(drain'[c]) /\ drain'[c][i - 1] = drain[c][i]
      BY <1>2, <1>3, <3>2
    <3> QED BY <2>1, <3>1, <3>3 DEF InLoop
  <2>2. CASE t # c
    BY <1>3, <1>5, <2>2 DEF InLoop, All
  <2> QED BY <2>1, <2>2
<1> QED BY <1>4, <1>5

LEMMA OwnInit ==
  ASSUME SketchParams, SketchInit
  PROVE  OwnInv
<1>1. /\ frames = [t \in All |-> <<>>] /\ drain = [t \in All |-> <<>>]
      /\ pc = [t \in Threads |-> "entry"]
  BY DEF SketchInit, Init, KernelInit
<1>2. LoopsOK
  BY <1>1 DEF LoopsOK
<1>3. 0 \in 0 .. PendingMod - 1
  BY DEF SketchParams
<1> QED BY <1>1, <1>2, <1>3 DEF SketchInit, OwnInv

(* The loop that takes the signals leaves none of a thread's own behind.   *)
LEMMA ActivatesOwn ==
  ASSUME SketchParams, OwnInv, NEW c \in All, Activates(c), Listeners # {}
  PROVE  OwnInv'
<1> USE DEF OwnInv
<1>0. /\ \A t \in Threads : pc'[t] = pc[t]
      /\ PendingMod \in Nat \ {0}
  BY DEF Activates, patternVars, SketchParams
<1>1. ASSUME NEW x \in ATS!Loops, drain[c] # <<>>,
             drain' = [drain EXCEPT ![c] = <<x>> \o Tail(@)],
             UNCHANGED <<frames, ats_active, to_yield>>,
             ats_pending' \in [Threads -> 0 .. PendingMod - 1],
             \A t \in Threads \ {c} : ats_pending'[t] = ats_pending[t],
             x.at = "done" /\ c \in Threads
               => ats_pending'[c] = 0 \/ ats_active[c] # 1
      PROVE  OwnInv'
  BY <1>0, <1>1, LoopGoesOn DEF SignalsItself
<1>2. CASE ATS!Check(c)
  <2>1. PICK p \in {"test", "done"} :
          /\ p = "done" /\ c \in Threads => ats_active[c] # 1
          /\ drain' = [drain EXCEPT
                         ![c] = <<[at |-> p, read |-> 0]>> \o Tail(@)]
    BY <1>2 DEF ATS!Check, ATS!GoOn
  <2>2. [at |-> p, read |-> 0] \in ATS!Loops
    BY <1>0 DEF ATS!Loops
  <2>3. /\ drain[c] # <<>>
        /\ UNCHANGED <<frames, ats_active, to_yield, ats_pending>>
    BY <1>2 DEF ATS!Check, ATS!Draining, ATS!kernelVars
  <2> QED BY <1>1, <2>1, <2>2, <2>3
<1>3. CASE c \in Listeners /\ ATS!Test(c)
  <2>1. PICK p \in {"load", "done"} :
          /\ p = "done" => ats_pending[c] = 0
          /\ drain' = [drain EXCEPT
                         ![c] = <<[at |-> p, read |-> 0]>> \o Tail(@)]
    BY <1>3 DEF ATS!Test, ATS!GoOn
  <2>2. [at |-> p, read |-> 0] \in ATS!Loops
    BY <1>0 DEF ATS!Loops
  <2>3. /\ drain[c] # <<>>
        /\ UNCHANGED <<frames, ats_active, to_yield, ats_pending>>
    BY <1>3 DEF ATS!Test, ATS!Draining, ATS!kernelVars
  <2> QED BY <1>1, <2>1, <2>2, <2>3
<1>4. CASE c \in Listeners /\ ATS!Load(c)
  <2>1. PICK x : /\ x = [at |-> "store", read |-> ats_pending[c]]
                 /\ drain' = [drain EXCEPT ![c] = <<x>> \o Tail(@)]
    BY <1>4 DEF ATS!Load, ATS!GoOn
  <2>2. x \in ATS!Loops /\ x.at # "done"
    BY <1>0, <1>4, <2>1 DEF ATS!Loops, Listeners
  <2>3. /\ drain[c] # <<>>
        /\ UNCHANGED <<frames, ats_active, to_yield, ats_pending>>
    BY <1>4 DEF ATS!Load, ATS!Draining, ATS!kernelVars
  <2> QED BY <1>1, <2>1, <2>2, <2>3
<1>5. CASE c \in Listeners /\ ATS!Store(c)
  <2>1. /\ drain[c] # <<>>
        /\ UNCHANGED <<frames, ats_active, to_yield>>
        /\ drain' = [drain EXCEPT
                       ![c] = <<[at |-> "handle", read |-> 0]>> \o Tail(@)]
        /\ ats_pending' = [ats_pending EXCEPT
                             ![c] = (Head(drain[c]).read - 1) % PendingMod]
    BY <1>5 DEF ATS!Store, ATS!Draining, ATS!GoOn, ATS!Loop, ATS!kernelVars
  <2>2. /\ [at |-> "handle", read |-> 0] \in ATS!Loops
        /\ [at |-> "handle", read |-> 0].at # "done"
    BY <1>0 DEF ATS!Loops
  <2>3. Head(drain[c]).read \in Int
    <3>1. drain[c] \in Seq(ATS!Loops)
      BY DEF LoopsOK
    <3>2. Head(drain[c]) \in ATS!Loops
      BY <2>1, <3>1
    <3> QED BY <1>0, <3>2 DEF ATS!Loops
  <2>4. (Head(drain[c]).read - 1) % PendingMod \in 0 .. PendingMod - 1
    BY <1>0, <2>3
  <2>5. /\ ats_pending' \in [Threads -> 0 .. PendingMod - 1]
        /\ \A t \in Threads \ {c} : ats_pending'[t] = ats_pending[t]
    BY <2>1, <2>4
  <2> QED BY <1>1, <2>1, <2>2, <2>5
<1>6. CASE c \in Listeners /\ ATS!Handle(c)
  <2>1. /\ drain[c] # <<>>
        /\ UNCHANGED <<frames, ats_active, to_yield, ats_pending>>
        /\ drain' = [drain EXCEPT
                       ![c] = <<[at |-> "test", read |-> 0]>> \o Tail(@)]
    BY <1>6 DEF ATS!Handle, ATS!Draining, ATS!GoOn, ATS!kernelVars
  <2>2. /\ [at |-> "test", read |-> 0] \in ATS!Loops
        /\ [at |-> "test", read |-> 0].at # "done"
    BY <1>0 DEF ATS!Loops
  <2> QED BY <1>1, <2>1, <2>2
<1>7. CASE ATS!Return(c)
  <2>1. /\ drain[c] # <<>> /\ Head(drain[c]).at = "done"
        /\ drain' = [drain EXCEPT ![c] = Tail(@)]
        /\ frames' = [frames EXCEPT ![c] = Tail(@)]
        /\ UNCHANGED <<ats_active, to_yield, ats_pending>>
    BY <1>7 DEF ATS!Return, ATS!Draining, ATS!Loop, ATS!YieldReturn,
                ATS!TimerInterruptReturn
  <2> QED BY <1>0, <2>1, LoopReturns DEF SignalsItself
<1> QED BY <1>2, <1>3, <1>4, <1>5, <1>6, <1>7 DEF Activates, ATS!Resume

(* A thread that enables the signals or sends one is about to yield, and   *)
(* runs the loop on its return.                                            *)
LEMMA CallsOwn ==
  ASSUME SketchParams, BodyTypeOK, OwnInv, NEW t \in Threads,
         Enables(t) \/ Disables(t) \/ SignalsATS(t)
  PROVE  OwnInv'
<1> USE DEF OwnInv
<1>0. \A u \in Threads : pc'[u] = pc[u]
  BY DEF Enables, Disables, SignalsATS, patternVars
<1>1. /\ LoopsOK' /\ \A u \in Threads : InLoop(u)' <=> InLoop(u)
  <2>1. UNCHANGED <<frames, drain>>
    BY DEF Enables, Disables, SignalsATS, ATS!Enable, ATS!Disable, ATS!Signal,
           ATS!kernelVars, kernelVars
  <2> QED BY <2>1 DEF LoopsOK, InLoop, ATS!Loops
<1>2. CASE UNCHANGED signalVars
  BY <1>0, <1>1, <1>2 DEF signalVars, SignalsItself
<1>3. CASE ATS!Enable(t)
  <2>1. /\ ats_active' = [ats_active EXCEPT ![t] = 1]
        /\ to_yield' = to_yield \union {t}
        /\ UNCHANGED ats_pending
    BY <1>3 DEF ATS!Enable
  <2> QED BY <1>0, <1>1, <2>1 DEF SignalsItself
<1>4. CASE ATS!Disable(t)
  <2>1. /\ ats_active' = [ats_active EXCEPT ![t] = 0]
        /\ UNCHANGED <<to_yield, ats_pending>>
    BY <1>4 DEF ATS!Disable
  <2> QED BY <1>0, <1>1, <2>1 DEF SignalsItself
<1>5. CASE SignalsATS(t)
  <2>1. PICK th \in Threads : th = Argument(t) /\ Has(t, <<"ATS_signal", th>>)
    <3>1. /\ Argument(t) \in Threads
          /\ Body[t][at[t]] = <<"ATS_signal", Argument(t)>>
      BY <1>5, ArgumentOK DEF SignalsATS
    <3>2. at[t] \in 1 .. Len(Body[t])
      BY <1>5, EntryPerformed DEF SignalsATS, Performing
    <3> QED BY <3>1, <3>2 DEF Has
  <2>2. /\ to_yield' = to_yield \union {t}
        /\ UNCHANGED ats_active
        /\ ats_pending' = [ats_pending EXCEPT ![th] = (@ + 1) % PendingMod]
    BY <1>5, <2>1 DEF SignalsATS, ATS!Signal, ATS!Counted
  <2>3. SignalsItself(th) => th = t
    BY <2>1 DEF SignalsItself
  <2>4. (ats_pending[th] + 1) % PendingMod \in 0 .. PendingMod - 1
    BY DEF SketchParams
  <2>5. ats_pending' \in [Threads -> 0 .. PendingMod - 1]
    BY <2>2, <2>4
  <2> QED BY <1>0, <1>1, <2>2, <2>3, <2>5 DEF SignalsItself
<1> QED BY <1>2, <1>3, <1>4, <1>5 DEF Enables, Disables

LEMMA OwnStep ==
  ASSUME SketchParams, ListenersPeriodic, Listeners # {}, BodyTypeOK, OwnInv,
         current_thread \in All, [SketchNext]_sketchVars
  PROVE  OwnInv'
<1>0. EventDriven = {}
  BY DEF ListenersPeriodic
<1>1. ASSUME UNCHANGED pc,
             UNCHANGED <<ats_active, ats_pending, to_yield>>,
             Pushes \/ Keeps
      PROVE  OwnInv'
  BY <1>1, OwnKept DEF OwnInv
<1>2. CASE UNCHANGED sketchVars
  BY <1>1, <1>2 DEF sketchVars, vars, kernelVars, patternVars, signalVars, Keeps
<1>3. CASE Interrupted \/ Idles
  <2>1. /\ Leaves /\ \E f \in Frames : Suspend(f)
        /\ UNCHANGED <<pc, ats_active, ats_pending, to_yield>>
    BY <1>3 DEF Interrupted, Idles, Tick, TimerInterrupt, MainLoop, MainYield,
                patternVars, signalVars, Frames
  <2> QED BY <1>1, <2>1, LeavesPushes
<1>4. CASE Returns
  BY <1>4 DEF Returns
<1>5. ASSUME NEW c \in All, Activates(c)
      PROVE  OwnInv'
  BY <1>5, ActivatesOwn
<1>6. ASSUME NEW t \in Threads, Executes(t)
      PROVE  OwnInv'
  <2>1. ~ Signals(t) /\ ~ Unblocks(t)
    BY <1>0, ArgumentOK DEF Signals, Unblocks
  <2>2. CASE Takes(t) \/ Gives(t)
    <3>1. UNCHANGED frames \/ \E f \in Frames : Suspend(f)
      BY <2>2 DEF Takes, Gives, Sem!P, Sem!V, Sem!kernelVars, Sem!Suspend,
                  Suspend, Frames
    <3>2. Leaves /\ UNCHANGED <<pc, ats_active, ats_pending, to_yield>>
      BY <2>2 DEF Takes, Gives, patternVars, signalVars
    <3> QED BY <1>1, <3>1, <3>2, LeavesPushes
  <2>3. CASE Gets(t) \/ Sets(t) \/ Uses(t) \/ Inputs(t) \/ OnlyOnce(t)
               \/ Removes(t)
    BY <1>1, <2>3 DEF Gets, Sets, Uses, Inputs, OnlyOnce, Removes, vars,
                      kernelVars, patternVars, signalVars, Keeps
  <2>4. CASE Enables(t) \/ Disables(t) \/ SignalsATS(t)
    BY <2>4, CallsOwn
  <2> QED BY <1>6, <2>1, <2>2, <2>3, <2>4 DEF Executes
<1>7. ASSUME NEW t \in Threads, Ends(t)
      PROVE  OwnInv'
  <2>1. /\ Keeps /\ UNCHANGED <<ats_active, ats_pending, to_yield>>
        /\ pc' = [pc EXCEPT ![t] = "account"]
    BY <1>7 DEF Ends, ExecutorEnds, GoTo, kernelVars, signalVars, Keeps
  <2>2. \A u \in Threads : pc'[u] # "await"
    BY <2>1 DEF OwnInv, BodyTypeOK
  <2> QED BY <2>1, <2>2, OwnKept
<1>8. ASSUME NEW t \in Threads, Continues(t)
      PROVE  OwnInv'
  <2>1. /\ \A u \in Threads : pc'[u] # "await"
        /\ UNCHANGED frames \/ \E f \in Frames : Suspend(f)
    BY <1>0, <1>8, PeriodicPattern DEF Continues
  <2>2. Leaves /\ UNCHANGED <<ats_active, ats_pending, to_yield>>
    BY <1>8 DEF Continues, signalVars
  <2> QED BY <2>1, <2>2, LeavesPushes, OwnKept
<1>9. ASSUME NEW t \in Threads, YieldsInCall(t)
      PROVE  OwnInv'
  <2>1. /\ current_thread = t
        /\ ATS!Suspend("call") /\ ATS!Leave
        /\ to_yield' = to_yield \ {t}
        /\ UNCHANGED <<pc, ats_active, ats_pending>>
    BY <1>9 DEF YieldsInCall, ATS!YieldInCall, ATS!Runs, patternVars
  <2>2. t \in All /\ PushesOn(t)
    BY <2>1 DEF ATS!Suspend, ATS!Leave, PushesOn, Frames, All
  <2>3. LoopsOK' /\ \A u \in Threads : InLoop(u) \/ u = t => InLoop(u)'
    BY <2>2, PushLoops
  <2> QED BY <2>1, <2>3 DEF OwnInv, SignalsItself
<1>10. ASSUME NEW t \in Threads, SpinsForever(t)
       PROVE  OwnInv'
  BY <1>2, <1>10 DEF SpinsForever
<1> QED BY <1>2, <1>3, <1>4, <1>5, <1>6, <1>7, <1>8, <1>9, <1>10
        DEF SketchNext

(* A thread that alone signals itself asynchronously, with the signals     *)
(* enabled, finds its handler called for all it sent when it is back from  *)
(* the call that sent it, preempted as it may have been on the way.        *)
THEOREM OwnSignalsAreHandled ==
  ASSUME SketchParams, RemovedAreLeft, ListenersPeriodic
  PROVE  SketchSpec => []OwnSignalsHandled
<1> DEFINE Inv == BodyTypeOK /\ BlockedInv /\ (Listeners # {} => OwnInv)
<1>1. SketchInit => Inv
  BY BodyTypeInit, BlockedInit, OwnInit
<1>2. Inv /\ [SketchNext]_sketchVars => Inv'
  <2> SUFFICES ASSUME Inv, [SketchNext]_sketchVars
               PROVE  Inv'
    OBVIOUS
  <2>1. BodyTypeOK' /\ BlockedInv'
    BY BodyTypeStep, BlockedStep
  <2>2. ASSUME Listeners # {}
        PROVE  OwnInv'
    BY <2>2, OwnStep, LinkedAreThreads DEF BlockedInv, StatusOK
  <2>3. Listeners' = Listeners
    BY DEF Listeners
  <2> QED BY <2>1, <2>2, <2>3
<1>3. Inv => OwnSignalsHandled
  <2>1. CASE Listeners = {}
    BY <2>1 DEF OwnSignalsHandled
  <2>2. CASE Listeners # {}
    BY <2>2, OwnHandled
  <2> QED BY <2>1, <2>2
<1> QED BY <1>1, <1>2, <1>3, PTL DEF SketchSpec

-----------------------------------------------------------------------------
(* What is stored is in order.  The one thread that stores has stored, in  *)
(* each of its jobs, the number of the job: what is in the queue is what   *)
(* it stored last, and no number is higher than that of its last set.      *)

Ring == INSTANCE RTQueue_proofs WITH
  howmany <- QueueSize, Elements <- 1 .. LastTick, NULL <- 0, Junk <- -2,
  MaxReads <- QueueSize

Cell(i)    == elements[(read_index + i) % QueueSize]
Last(t, j) == jobs[t] + IF at[t] > j THEN 1 ELSE 0

QueueInv ==
  /\ stored \in 0 .. QueueSize
  /\ read_index \in 0 .. QueueSize
  /\ write_index = (read_index + stored) % QueueSize
  /\ elements \in [0 .. QueueSize - 1 -> Int]
  /\ \A i, k \in 0 .. stored - 1 : i < k => Cell(i) < Cell(k)
  /\ \A t \in Threads : \A j \in 1 .. Len(Body[t]) :
       Body[t][j][1] = "set" => \A i \in 0 .. stored - 1 : Cell(i) <= Last(t, j)

LEMMA RingAssumption ==
  ASSUME SketchParams
  PROVE  Ring!QueueAssumption
<1>1. LastTick \in Int
  BY TickModAssumption
<1> QED BY <1>1 DEF SketchParams, Ring!QueueAssumption

(* Places that hold what is stored are elements of the queue, and one less *)
(* than once round apart they are not the same.                            *)
LEMMA Places ==
  ASSUME SketchParams, NEW a \in Nat
  PROVE  a % QueueSize \in 0 .. QueueSize - 1
BY DEF SketchParams

LEMMA PlacesApart ==
  ASSUME SketchParams, NEW r \in 0 .. QueueSize, NEW i \in Nat, NEW k \in Nat,
         i < k, k < QueueSize
  PROVE  (r + i) % QueueSize # (r + k) % QueueSize
<1>1. QueueSize \in Nat \ {0} /\ Ring!QueueAssumption
  BY RingAssumption DEF SketchParams
<1>2. /\ r + i \in 0 .. 2 * QueueSize /\ r + k \in 0 .. 2 * QueueSize
      /\ r + i < r + k /\ r + k < r + i + QueueSize
  BY <1>1
<1> QED BY <1>1, <1>2, Ring!Apart

LEMMA QueueInit ==
  ASSUME SketchParams, SketchInit
  PROVE  QueueInv
<1>1. /\ stored = 0 /\ read_index = 0 /\ write_index = 0
      /\ elements = [i \in 0 .. QueueSize - 1 |-> -2]
  BY DEF SketchInit, Q!Init, Q!Slots
<1>2. (0 + 0) % QueueSize = 0 /\ QueueSize \in Nat \ {0}
  BY DEF SketchParams
<1> QED BY <1>1, <1>2 DEF QueueInv

LEMMA QueueOrdered ==
  ASSUME SketchParams, QueueInv
  PROVE  StoredInOrder
<1> SUFFICES ASSUME NEW i \in 1 .. stored - 1
             PROVE  elements[(read_index + i - 1) % QueueSize]
                      < elements[(read_index + i) % QueueSize]
  BY DEF StoredInOrder
<1>1. /\ i - 1 \in 0 .. stored - 1 /\ i \in 0 .. stored - 1 /\ i - 1 < i
      /\ read_index + i - 1 = read_index + (i - 1)
  BY DEF QueueInv
<1>2. Cell(i - 1) < Cell(i)
  BY <1>1 DEF QueueInv
<1> QED BY <1>1, <1>2 DEF Cell

(* The number of the last set never goes down.                             *)
LEMMA LastGrows ==
  ASSUME SketchParams, BodyTypeOK, SketchNext,
         NEW u \in Threads, NEW j \in 1 .. Len(Body[u])
  PROVE  /\ Last(u, j) \in Nat /\ Last(u, j)' \in Nat
         /\ Last(u, j) <= Last(u, j)'
<1>0. /\ Len(Body[u]) \in Nat /\ at[u] \in Nat /\ jobs[u] \in Nat
      /\ at[u] <= Len(Body[u]) + 1
  BY DEF SketchParams, BodyTypeOK
<1>1. CASE Elsewhere
  BY <1>0, <1>1 DEF Elsewhere, Last
<1>2. ASSUME NEW t \in Threads, Performs(t)
      PROVE  /\ Last(u, j) \in Nat /\ Last(u, j)' \in Nat
             /\ Last(u, j) <= Last(u, j)'
  <2>1. jobs'[u] = jobs[u] /\ at'[u] \in {at[u], at[u] + 1}
    BY <1>2 DEF Performs, BodyTypeOK
  <2> QED BY <1>0, <2>1 DEF Last
<1>3. ASSUME NEW t \in Threads, Skips(t)
      PROVE  /\ Last(u, j) \in Nat /\ Last(u, j)' \in Nat
             /\ Last(u, j) <= Last(u, j)'
  <2>1. jobs'[u] = jobs[u] /\ at'[u] \in {at[u], Len(Body[u]) + 1}
    BY <1>3 DEF Skips, BodyTypeOK
  <2> QED BY <1>0, <2>1 DEF Last
<1>4. ASSUME NEW t \in Threads, Finishes(t)
      PROVE  /\ Last(u, j) \in Nat /\ Last(u, j)' \in Nat
             /\ Last(u, j) <= Last(u, j)'
  <2>1. \/ jobs'[u] = jobs[u] /\ at'[u] = at[u]
        \/ jobs'[u] = jobs[u] + 1 /\ at'[u] = 1 /\ at[u] > Len(Body[u])
    BY <1>4 DEF Finishes, BodyTypeOK
  <2> QED BY <1>0, <2>1 DEF Last
<1> QED BY <1>1, <1>2, <1>3, <1>4, BodyStep

(* Nothing but the two calls moves the queue.                              *)
LEMMA QueueCalls ==
  ASSUME SketchNext, \A t \in Threads : ~ Gets(t) /\ ~ Sets(t)
  PROVE  UNCHANGED queueVars
<1>1. ASSUME Interrupted \/ Idles \/ Returns
      PROVE  UNCHANGED queueVars
  BY <1>1 DEF Interrupted, Idles, Returns
<1>2. ASSUME NEW t \in All, Activates(t)
      PROVE  UNCHANGED queueVars
  BY <1>2 DEF Activates
<1>3. ASSUME NEW t \in Threads, \/ Executes(t) \/ Ends(t) \/ Continues(t)
                                \/ YieldsInCall(t) \/ SpinsForever(t)
      PROVE  UNCHANGED queueVars
  BY <1>3 DEF Executes, Signals, Unblocks, Takes, Gives, Uses, Inputs,
              OnlyOnce, Enables, Disables, SignalsATS, Removes, Ends, Continues,
              YieldsInCall, SpinsForever, sketchVars
<1> QED BY <1>1, <1>2, <1>3 DEF SketchNext

LEMMA QueueStep ==
  ASSUME SketchParams, OneSetter, BodyTypeOK, QueueInv, [SketchNext]_sketchVars
  PROVE  QueueInv'
<1> DEFINE n == QueueSize
<1>0. n \in Nat \ {0} /\ stored \in 0 .. n /\ read_index \in 0 .. n
  BY DEF QueueInv, SketchParams
<1>c. ASSUME NEW i \in 0 .. stored - 1
      PROVE  (read_index + i) % n \in 0 .. n - 1 /\ Cell(i) \in Int
  <2>1. read_index + i \in Nat
    BY <1>0
  <2>2. (read_index + i) % n \in 0 .. n - 1
    BY <2>1, Places
  <2> QED BY <2>2 DEF QueueInv, Cell
<1>1. CASE UNCHANGED sketchVars
  BY <1>1 DEF sketchVars, bodyVars, queueVars, QueueInv, Cell, Last
<1>2. ASSUME SketchNext,
             stored' \in 0 .. n, read_index' \in 0 .. n,
             write_index' = (read_index' + stored') % n,
             elements' = elements,
             \E d \in 0 .. n :
               /\ stored' + d <= stored
               /\ read_index' = read_index + d
      PROVE  QueueInv'
  <2>0. n \in Int /\ stored' \in Nat /\ stored \in Nat /\ read_index \in Nat
    BY <1>0, <1>2
  <2>1. PICK d \in 0 .. n : /\ stored' + d <= stored
                           /\ read_index' = read_index + d
    BY <1>2
  <2>2. \A i \in 0 .. stored' - 1 :
          i + d \in 0 .. stored - 1 /\ Cell(i)' = Cell(i + d)
    <3>0. PICK m \in Nat : m = stored' /\ m + d <= stored
      BY <2>0, <2>1
    <3> SUFFICES ASSUME NEW i \in 0 .. m - 1
                 PROVE  i + d \in 0 .. stored - 1 /\ Cell(i)' = Cell(i + d)
      BY <3>0
    <3>a. d \in Nat
      BY <2>0
    <3>b. m + d <= stored
      BY <3>0
    <3>c. read_index' = read_index + d
      BY <2>1
    <3>1. i + d \in 0 .. stored - 1 /\ read_index' + i = read_index + (i + d)
      BY <2>0, <3>a, <3>b, <3>c
    <3>2. Cell(i)' = elements'[(read_index' + i) % QueueSize]
      BY DEF Cell
    <3> QED BY <1>2, <3>1, <3>2 DEF Cell
  <2>3. \A i, k \in 0 .. stored' - 1 : i < k => Cell(i)' < Cell(k)'
    <3> SUFFICES ASSUME NEW i \in 0 .. stored' - 1, NEW k \in 0 .. stored' - 1,
                        i < k
                 PROVE  Cell(i)' < Cell(k)'
      OBVIOUS
    <3>1. /\ i + d \in 0 .. stored - 1 /\ Cell(i)' = Cell(i + d)
          /\ k + d \in 0 .. stored - 1 /\ Cell(k)' = Cell(k + d)
      BY <2>2
    <3>2. i + d < k + d
      BY <1>0, <2>0
    <3>3. Cell(i + d) < Cell(k + d)
      BY <3>1, <3>2 DEF QueueInv
    <3> QED BY <3>1, <3>3
  <2>4. ASSUME NEW t \in Threads, NEW j \in 1 .. Len(Body[t]),
               Body[t][j][1] = "set", NEW i \in 0 .. stored' - 1
        PROVE  Cell(i)' <= Last(t, j)'
    <3>1. /\ i + d \in 0 .. stored - 1 /\ Cell(i)' = Cell(i + d)
          /\ Cell(i + d) <= Last(t, j) /\ Cell(i + d) \in Int
      BY <1>c, <2>2, <2>4 DEF QueueInv
    <3>2. /\ Last(t, j) \in Nat /\ Last(t, j)' \in Nat
          /\ Last(t, j) <= Last(t, j)'
      BY <1>2, LastGrows
    <3> QED BY <3>1, <3>2
  <2> QED BY <1>2, <2>3, <2>4 DEF QueueInv
<1>3. CASE SketchNext /\ UNCHANGED queueVars
  <2>1. /\ UNCHANGED <<stored, read_index, write_index, elements>>
        /\ write_index = (read_index + stored) % n
    BY <1>3 DEF queueVars, QueueInv
  <2>2. /\ stored' \in 0 .. n /\ read_index' \in 0 .. n
        /\ write_index' = (read_index' + stored') % n
        /\ stored' + 0 <= stored /\ read_index' = read_index + 0
    BY <1>0, <2>1
  <2> QED BY <1>0, <1>2, <1>3, <2>1, <2>2
<1>4. ASSUME SketchNext, NEW t \in Threads, Gets(t), stored # 0
      PROVE  QueueInv'
  <2>1. /\ read_index < n /\ stored' = stored - 1
        /\ read_index' = read_index + 1
        /\ UNCHANGED <<write_index, elements>>
    BY <1>4 DEF Gets, Q!Get
  <2>2. /\ stored' \in 0 .. n /\ read_index' \in 0 .. n
        /\ read_index' + stored' = read_index + stored
        /\ stored' + 1 <= stored /\ 1 \in 0 .. n
    BY <1>0, <1>4, <2>1
  <2>3. write_index' = (read_index' + stored') % n
    BY <2>1, <2>2 DEF QueueInv
  <2> QED BY <1>2, <1>4, <2>1, <2>2, <2>3
<1>5. ASSUME SketchNext, NEW t \in Threads, Sets(t), stored # n
      PROVE  QueueInv'
  <2>1. PICK e : e = jobs[t] + 1
    OBVIOUS
  <2>2. PICK place \in 0 .. n - 1 : place = write_index
    <3>1. read_index + stored \in Nat
      BY <1>0
    <3>2. (read_index + stored) % n \in 0 .. n - 1
      BY <3>1, Places
    <3> QED BY <3>2 DEF QueueInv
  <2>3. /\ elements' = [elements EXCEPT ![place] = e]
        /\ stored' = stored + 1 /\ UNCHANGED read_index
        /\ write_index' = IF place + 1 = n THEN 0 ELSE place + 1
    BY <1>5, <2>1, <2>2 DEF Sets, Q!Set, Q!NextWrite
  <2>4. PICK j \in 1 .. Len(Body[t]) :
          /\ j = at[t] /\ Body[t][j][1] = "set"
          /\ at'[t] = j + 1 /\ jobs'[t] = jobs[t]
          /\ at[t] \in Nat /\ jobs[t] \in Nat
    BY <1>5, EntryPerformed DEF Sets, Performing, Advance, BodyTypeOK
  <2>5. /\ e \in Int /\ Last(t, j) = e - 1 /\ Last(t, j)' = e
    BY <2>1, <2>4 DEF Last
  <2>6. place = (read_index + stored) % n
    BY <2>2 DEF QueueInv
  <2> PICK last : last = stored
    OBVIOUS
  <2>7. /\ Cell(last)' = e
        /\ \A i \in 0 .. stored - 1 : Cell(i)' = Cell(i)
    <3>1. ASSUME NEW i \in 0 .. stored - 1
          PROVE  Cell(i)' = Cell(i)
      <4>1. i \in Nat /\ stored \in Nat /\ i < stored /\ stored < n
        BY <1>0, <1>5
      <4>2. (read_index + i) % n # place
        BY <1>0, <2>6, <4>1, PlacesApart
      <4>3. (read_index + i) % n \in 0 .. n - 1
        BY <1>c
      <4> QED BY <2>3, <4>2, <4>3 DEF QueueInv, Cell
    <3>2. Cell(last)' = elements'[place]
      BY <2>3, <2>6 DEF Cell
    <3>3. elements'[place] = e
      BY <2>3 DEF QueueInv
    <3> QED BY <3>1, <3>2, <3>3
  <2>8. write_index' = (read_index' + stored') % n
    <3>1. /\ read_index + stored \in 0 .. 2 * n - 1
          /\ read_index' + stored' = read_index + stored + 1
      BY <1>0, <1>5, <2>3
    <3>2. Ring!NextWrite(place) = (read_index + stored + 1) % n
      BY <1>0, <2>6, <3>1, RingAssumption, Ring!NextWriteIsMod
    <3> QED BY <2>3, <3>1, <3>2 DEF Ring!NextWrite
  <2>9. stored' \in 0 .. n /\ elements' \in [0 .. n - 1 -> Int]
    BY <1>0, <1>5, <2>3, <2>5 DEF QueueInv
  <2>10. \A i \in 0 .. stored - 1 : Cell(i) <= e - 1
    BY <2>4, <2>5 DEF QueueInv
  <2>11. ASSUME NEW i \in 0 .. stored' - 1, NEW k \in 0 .. stored' - 1, i < k
         PROVE  Cell(i)' < Cell(k)'
    <3>1. /\ i \in 0 .. stored - 1
          /\ k = stored \/ k \in 0 .. stored - 1
      BY <1>0, <2>3, <2>11
    <3>2. Cell(i)' = Cell(i) /\ Cell(i) \in Int /\ Cell(i) < e
      BY <1>c, <2>5, <2>7, <2>10, <3>1
    <3>3. CASE k = last
      BY <2>7, <3>2, <3>3
    <3>4. CASE k \in 0 .. stored - 1
      <4>1. Cell(k)' = Cell(k) /\ Cell(i) < Cell(k)
        BY <2>7, <2>11, <3>1, <3>4 DEF QueueInv
      <4> QED BY <3>2, <4>1
    <3> QED BY <3>1, <3>3, <3>4
  <2>12. ASSUME NEW u \in Threads, NEW k \in 1 .. Len(Body[u]),
                Body[u][k][1] = "set", NEW i \in 0 .. stored' - 1
         PROVE  Cell(i)' <= Last(u, k)'
    <3>1. u = t /\ k = j
      BY <2>4, <2>12 DEF OneSetter
    <3>2. Cell(i)' <= e
      <4>1. i = stored \/ i \in 0 .. stored - 1
        BY <1>0, <2>3
      <4>2. CASE i = last
        BY <2>5, <2>7, <4>2
      <4>3. CASE i \in 0 .. stored - 1
        <5>1. Cell(i)' = Cell(i) /\ Cell(i) \in Int /\ Cell(i) <= e - 1
          BY <1>c, <2>7, <2>10, <4>3
        <5> QED BY <2>5, <5>1
      <4> QED BY <4>1, <4>2, <4>3
    <3> QED BY <2>5, <3>1, <3>2
  <2> QED BY <1>0, <2>3, <2>8, <2>9, <2>11, <2>12 DEF QueueInv
<1>6. ASSUME SketchNext, NEW t \in Threads,
             (Gets(t) /\ stored = 0) \/ (Sets(t) /\ stored = n)
      PROVE  QueueInv'
  <2>1. UNCHANGED <<stored, read_index, write_index, elements>>
    BY <1>0, <1>6 DEF Gets, Sets, Q!Get, Q!Set
  <2>2. write_index = (read_index + stored) % n
    BY DEF QueueInv
  <2>3. /\ stored' \in 0 .. n /\ read_index' \in 0 .. n
        /\ write_index' = (read_index' + stored') % n
        /\ stored' + 0 <= stored /\ read_index' = read_index + 0
    BY <1>0, <2>1, <2>2
  <2> QED BY <1>0, <1>2, <1>6, <2>1, <2>3
<1>7. CASE SketchNext
  <2>1. CASE \A t \in Threads : ~ Gets(t) /\ ~ Sets(t)
    BY <1>3, <1>7, <2>1, QueueCalls
  <2>2. ASSUME NEW t \in Threads, Gets(t)
        PROVE  QueueInv'
    BY <1>4, <1>6, <1>7, <2>2
  <2>3. ASSUME NEW t \in Threads, Sets(t)
        PROVE  QueueInv'
    BY <1>5, <1>6, <1>7, <2>3
  <2> QED BY <2>1, <2>2, <2>3
<1> QED BY <1>1, <1>7

(* A queue one thread stores in holds what it set in the order it set it,  *)
(* whoever gets from it, as long as it is got from no more often than it   *)
(* has elements.                                                           *)
THEOREM StoredIsInOrder ==
  ASSUME SketchParams, OneSetter
  PROVE  SketchSpec => []StoredInOrder
<1> DEFINE Inv == BodyTypeOK /\ QueueInv
<1>1. SketchInit => Inv
  BY BodyTypeInit, QueueInit
<1>2. Inv /\ [SketchNext]_sketchVars => Inv'
  BY BodyTypeStep, QueueStep
<1>3. Inv => StoredInOrder
  BY QueueOrdered
<1> QED BY <1>1, <1>2, <1>3, PTL DEF SketchSpec
=============================================================================
