---------------------------- MODULE RTATS_proofs ----------------------------
(***************************************************************************)
(* What TLC checks on small instances of RTATS, proved for every set of    *)
(* threads, every number of signals and every depth of the nested loops.   *)
(***************************************************************************)
EXTENDS RTATS, RTKernel_proofs, FiniteSetTheorems, FunctionTheorems,
        SequenceTheorems, TLAPS

-----------------------------------------------------------------------------
(* Stacks of loops: one more on top, one less, and how many of them are    *)
(* about to call the handler.                                              *)

Hands(s) == {i \in 1 .. Len(s) : s[i].at = "handle"}

LEMMA Push ==
  ASSUME NEW S, NEW s \in Seq(S), NEW x \in S
  PROVE  /\ <<x>> \o s \in Seq(S)
         /\ <<x>> \o s # <<>>
         /\ Len(<<x>> \o s) = Len(s) + 1
         /\ (<<x>> \o s)[1] = x
         /\ Head(<<x>> \o s) = x
         /\ \A i \in 1 .. Len(s) : (<<x>> \o s)[i + 1] = s[i]
<1>1. <<x>> \in Seq(S) /\ Len(<<x>>) = 1 /\ <<x>>[1] = x
  OBVIOUS
<1>2. Len(s) \in Nat
  OBVIOUS
<1>3. /\ <<x>> \o s \in Seq(S)
      /\ Len(<<x>> \o s) = Len(s) + 1
      /\ \A i \in 1 .. 1 + Len(s) :
           (<<x>> \o s)[i] = IF i <= 1 THEN <<x>>[i] ELSE s[i - 1]
  BY <1>1, <1>2, ConcatProperties
<1>4. (<<x>> \o s)[1] = x
  BY <1>1, <1>2, <1>3
<1>5. \A i \in 1 .. Len(s) : (<<x>> \o s)[i + 1] = s[i]
  BY <1>2, <1>3
<1>6. <<x>> \o s # <<>>
  BY <1>2, <1>3
<1> QED BY <1>3, <1>4, <1>5, <1>6

LEMMA HandsFinite ==
  ASSUME NEW s \in Seq(Loops)
  PROVE  IsFiniteSet(Hands(s)) /\ Cardinality(Hands(s)) \in Nat
<1>1. Len(s) \in Nat
  OBVIOUS
<1>2. IsFiniteSet(1 .. Len(s))
  BY <1>1, FS_Interval
<1>3. Hands(s) \in SUBSET (1 .. Len(s))
  BY DEF Hands
<1>4. IsFiniteSet(Hands(s))
  BY <1>2, <1>3, FS_Subset
<1> QED BY <1>4, FS_CardinalityType

LEMMA PushHands ==
  ASSUME NEW s \in Seq(Loops), NEW x \in Loops
  PROVE  Cardinality(Hands(<<x>> \o s)) =
           Cardinality(Hands(s)) + (IF x.at = "handle" THEN 1 ELSE 0)
<1> DEFINE A == {i + 1 : i \in Hands(s)}
           f == [i \in Hands(s) |-> i + 1]
<1>1. Len(s) \in Nat /\ Hands(s) \subseteq 1 .. Len(s)
  BY DEF Hands
<1>2. IsFiniteSet(A) /\ Cardinality(A) = Cardinality(Hands(s))
  <2>1. f \in Bijection(Hands(s), A)
    <3>1. f \in [Hands(s) -> A]
      OBVIOUS
    <3>2. \A i, j \in Hands(s) : f[i] = f[j] => i = j
      BY <1>1
    <3>3. \A a \in A : \E i \in Hands(s) : f[i] = a
      OBVIOUS
    <3> HIDE DEF f, A
    <3> QED BY <3>1, <3>2, <3>3, Fun_IsBij
  <2>2. ExistsBijection(Hands(s), A)
    BY <2>1 DEF ExistsBijection
  <2> QED BY <2>2, HandsFinite, FS_Bijection
<1>3. 1 \notin A
  BY <1>1
<1>4. Hands(<<x>> \o s) = IF x.at = "handle" THEN A \union {1} ELSE A
  <2>1. /\ Len(<<x>> \o s) = Len(s) + 1
        /\ (<<x>> \o s)[1] = x
        /\ \A i \in 1 .. Len(s) : (<<x>> \o s)[i + 1] = s[i]
    BY Push
  <2>2. ASSUME NEW i \in 1 .. Len(s) + 1
        PROVE  (<<x>> \o s)[i].at = "handle" <=>
                 (i \in A \/ (i = 1 /\ x.at = "handle"))
    <3>1. CASE i = 1
      BY <2>1, <3>1, <1>3
    <3>2. CASE i # 1
      <4>1. i - 1 \in 1 .. Len(s) /\ i = (i - 1) + 1
        BY <1>1, <3>2
      <4>2. (<<x>> \o s)[i] = s[i - 1]
        BY <2>1, <4>1
      <4>3. i \in A <=> i - 1 \in Hands(s)
        BY <1>1, <4>1
      <4> QED BY <3>2, <4>1, <4>2, <4>3 DEF Hands
    <3> QED BY <3>1, <3>2
  <2>3. A \subseteq 1 .. Len(s) + 1
    BY <1>1
  <2> QED BY <1>1, <2>1, <2>2, <2>3 DEF Hands
<1>5. Cardinality(A \union {1}) = Cardinality(A) + 1
  BY <1>2, <1>3, FS_AddElement
<1>6. Cardinality(Hands(s)) \in Nat
  BY HandsFinite
<1> HIDE DEF A
<1> QED BY <1>2, <1>4, <1>5, <1>6

LEMMA Pop ==
  ASSUME NEW s \in Seq(Loops), s # <<>>
  PROVE  /\ Head(s) \in Loops /\ Tail(s) \in Seq(Loops)
         /\ Len(s) \in Nat \ {0} /\ Len(Tail(s)) = Len(s) - 1
         /\ s[1] = Head(s)
         /\ \A i \in 1 .. Len(Tail(s)) : Tail(s)[i] = s[i + 1]
         /\ s = <<Head(s)>> \o Tail(s)
<1>1. /\ Head(s) \in Loops /\ Tail(s) \in Seq(Loops)
      /\ Len(Tail(s)) = Len(s) - 1
      /\ \A i \in 1 .. Len(Tail(s)) : Tail(s)[i] = s[i + 1]
  BY HeadTailProperties
<1>2. Len(s) \in Nat \ {0}
  BY EmptySeq
<1>3. s[1] = Head(s)
  BY <1>2
<1>4. s = <<Head(s)>> \o Tail(s)
  <2> DEFINE r == <<Head(s)>> \o Tail(s)
  <2>1. /\ r \in Seq(Loops) /\ Len(r) = Len(Tail(s)) + 1 /\ r[1] = Head(s)
        /\ \A i \in 1 .. Len(Tail(s)) : r[i + 1] = Tail(s)[i]
    BY <1>1, Push
  <2>2. Len(r) = Len(s)
    BY <1>1, <1>2, <2>1
  <2>3. ASSUME NEW i \in 1 .. Len(s) PROVE s[i] = r[i]
    <3>1. CASE i = 1
      BY <1>3, <2>1, <3>1
    <3>2. CASE i # 1
      <4>1. i - 1 \in 1 .. Len(Tail(s)) /\ i = (i - 1) + 1
        BY <1>1, <1>2, <3>2
      <4> QED BY <1>1, <2>1, <4>1
    <3> QED BY <3>1, <3>2
  <2> HIDE DEF r
  <2> QED BY <2>1, <2>2, <2>3, SeqEqual
<1> QED BY <1>1, <1>2, <1>3, <1>4

LEMMA PopHands ==
  ASSUME NEW s \in Seq(Loops), s # <<>>
  PROVE  Cardinality(Hands(s)) =
           Cardinality(Hands(Tail(s)))
             + (IF Head(s).at = "handle" THEN 1 ELSE 0)
<1>1. Head(s) \in Loops /\ Tail(s) \in Seq(Loops) /\ s = <<Head(s)>> \o Tail(s)
  BY Pop
<1>2. Cardinality(Hands(<<Head(s)>> \o Tail(s))) =
        Cardinality(Hands(Tail(s))) + (IF Head(s).at = "handle" THEN 1 ELSE 0)
  BY <1>1, PushHands
<1> QED BY <1>1, <1>2

(* The loop on top goes on: the others stay where they are.                *)
LEMMA Replace ==
  ASSUME NEW s \in Seq(Loops), s # <<>>, NEW x \in Loops
  PROVE  /\ <<x>> \o Tail(s) \in Seq(Loops)
         /\ <<x>> \o Tail(s) # <<>>
         /\ Len(<<x>> \o Tail(s)) = Len(s)
         /\ Head(<<x>> \o Tail(s)) = x
         /\ \A i \in 1 .. Len(s) :
              (<<x>> \o Tail(s))[i] = IF i = 1 THEN x ELSE s[i]
         /\ Cardinality(Hands(<<x>> \o Tail(s)))
              + (IF Head(s).at = "handle" THEN 1 ELSE 0)
            = Cardinality(Hands(s)) + (IF x.at = "handle" THEN 1 ELSE 0)
<1>1. /\ Tail(s) \in Seq(Loops) /\ Len(s) \in Nat \ {0}
      /\ Len(Tail(s)) = Len(s) - 1
      /\ \A i \in 1 .. Len(Tail(s)) : Tail(s)[i] = s[i + 1]
  BY Pop
<1>2. /\ <<x>> \o Tail(s) \in Seq(Loops) /\ <<x>> \o Tail(s) # <<>>
      /\ Len(<<x>> \o Tail(s)) = Len(Tail(s)) + 1
      /\ (<<x>> \o Tail(s))[1] = x /\ Head(<<x>> \o Tail(s)) = x
      /\ \A i \in 1 .. Len(Tail(s)) : (<<x>> \o Tail(s))[i + 1] = Tail(s)[i]
  BY <1>1, Push
<1>3. ASSUME NEW i \in 1 .. Len(s), i # 1
      PROVE  (<<x>> \o Tail(s))[i] = s[i]
  <2>1. i - 1 \in 1 .. Len(Tail(s)) /\ i = (i - 1) + 1
    BY <1>1, <1>3
  <2> QED BY <1>1, <1>2, <2>1
<1>4. Cardinality(Hands(s)) =
        Cardinality(Hands(Tail(s))) + (IF Head(s).at = "handle" THEN 1 ELSE 0)
  BY PopHands
<1>5. Cardinality(Hands(<<x>> \o Tail(s))) =
        Cardinality(Hands(Tail(s))) + (IF x.at = "handle" THEN 1 ELSE 0)
  BY <1>1, PushHands
<1>6. Cardinality(Hands(Tail(s))) \in Nat
  BY <1>1, HandsFinite
<1>7. Len(<<x>> \o Tail(s)) = Len(s)
  BY <1>1, <1>2
<1> QED BY <1>1, <1>2, <1>3, <1>4, <1>5, <1>6, <1>7

-----------------------------------------------------------------------------
(* Types.  A thread has one loop for each call it is suspended in.         *)

Types == TypeOK /\ RunningIsReady

CountsOK ==
  /\ ats_active \in [Threads -> {0, 1}]
  /\ ats_pending \in [Threads -> 0 .. PendingMod - 1]
  /\ to_yield \in SUBSET Threads
  /\ sent \in [Threads -> 0 .. SentCap]
  /\ handled \in [Threads -> 0 .. HandledCap]

DrainOK ==
  /\ drain \in [All -> Seq(Loops)]
  /\ \A t \in All : Len(drain[t]) = Len(frames[t])

LEMMA InLoops ==
  ASSUME NEW p \in {"check", "test", "load", "store", "handle", "done"}
  PROVE  [at |-> p, read |-> 0] \in Loops
BY ATSAssumption DEF Loops

LEMMA LeaveType ==
  ASSUME TypeOK, Leave, NEW f \in Frames, Suspend(f)
  PROVE  DrainOK'
<1> DEFINE x == [at |-> "check", read |-> 0]
<1>1. x \in Loops
  BY InLoops
<1>2. /\ current_thread \in All
      /\ drain \in [All -> Seq(Loops)] /\ frames \in [All -> Seq(Frames)]
      /\ \A t \in All : Len(drain[t]) = Len(frames[t])
  BY DEF TypeOK, KernelTypeOK
<1>3. /\ drain' = [drain EXCEPT ![current_thread] =
                                      <<x>> \o drain[current_thread]]
      /\ frames' = [frames EXCEPT
                      ![current_thread] = <<f>> \o frames[current_thread]]
  BY DEF Leave, Suspend
<1> HIDE DEF x
<1>4. /\ <<x>> \o drain[current_thread] \in Seq(Loops)
      /\ Len(<<x>> \o drain[current_thread]) = Len(drain[current_thread]) + 1
  BY <1>1, <1>2, Push
<1>5. Len(<<f>> \o frames[current_thread]) = Len(frames[current_thread]) + 1
  BY <1>2, Push
<1> QED BY <1>2, <1>3, <1>4, <1>5 DEF DrainOK

(* A yield of the current thread with the table as it is.                  *)
LEMMA PlainYieldType ==
  ASSUME KernelTypeOK, UNCHANGED clockVars, Suspend("call"),
         ThreadYield(status, ticks_to_wait, carry_ticks_to_wait,
                     queue_last_input)
  PROVE  KernelTypeOK' /\ RunningIsReady'
<1>1. FramesOK'
  BY SuspendType DEF Frames
<1>2. /\ status \in [All -> Status]
      /\ ticks_to_wait \in [All -> Ticks]
      /\ carry_ticks_to_wait \in [All -> {0, 1}]
      /\ queue_last_input \in [Threads -> Ticks]
  BY DEF KernelTypeOK
<1> QED BY <1>1, <1>2, CallType

LEMMA CountedType ==
  ASSUME TypeOK, NEW th \in Threads, Counted(th)
  PROVE  /\ ats_pending' \in [Threads -> 0 .. PendingMod - 1]
         /\ sent' \in [Threads -> 0 .. SentCap]
<1>1. (ats_pending[th] + 1) % PendingMod \in 0 .. PendingMod - 1
  BY ATSAssumption DEF TypeOK
<1>2. sent[th] + 1 \in 0 .. SentCap
  BY ATSAssumption DEF TypeOK, Counted
<1> QED BY <1>1, <1>2 DEF TypeOK, Counted

LEMMA InitTypes == Init => Types
<1> SUFFICES ASSUME Init PROVE Types
  OBVIOUS
<1>1. KernelTypeOK /\ RunningIsReady
  BY KernelInitType DEF Init
<1>2. 0 \in 0 .. PendingMod - 1 /\ 0 \in 0 .. SentCap /\ 0 \in 0 .. HandledCap
  BY ATSAssumption DEF HandledCap
<1>3. CountsOK
  BY <1>2 DEF Init, CountsOK
<1>4. DrainOK
  BY DEF Init, KernelInit, DrainOK
<1> QED BY <1>1, <1>3, <1>4 DEF Types, TypeOK, CountsOK, DrainOK

(* The steps in which the current thread gives up the processor.           *)
LEMMA LeavingTypes ==
  ASSUME Types,
         \/ Tick \/ MainLoop
         \/ \E t \in Threads : YieldInCall(t)
         \/ \E th \in Interrupts : InterruptSignals(th)
  PROVE  Types'
<1>1. KernelTypeOK' /\ RunningIsReady' /\ DrainOK'
  <2>1. CASE Tick
    BY <2>1, TimerType, LeaveType
    DEF Tick, TimerInterrupt, Types, TypeOK, Frames
  <2>2. CASE MainLoop
    BY <2>2, MainYieldType, LeaveType
    DEF MainLoop, MainYield, Types, TypeOK, Frames
  <2>3. CASE \E t \in Threads : YieldInCall(t)
    BY <2>3, PlainYieldType, LeaveType DEF YieldInCall, Types, TypeOK, Frames
  <2>4. CASE \E th \in Interrupts : InterruptSignals(th)
    BY <2>4, PlainYieldType, LeaveType
    DEF InterruptSignals, Types, TypeOK, Frames
  <2> QED BY <2>1, <2>2, <2>3, <2>4
<1>2. CountsOK'
  <2>1. CASE Tick \/ MainLoop
    BY <2>1 DEF Tick, MainLoop, Types, TypeOK, CountsOK
  <2>2. CASE \E t \in Threads : YieldInCall(t)
    BY <2>2 DEF YieldInCall, Types, TypeOK, CountsOK
  <2>3. CASE \E th \in Interrupts : InterruptSignals(th)
    <3>1. PICK th \in Interrupts : InterruptSignals(th)
      BY <2>3
    <3>2. /\ ats_pending' \in [Threads -> 0 .. PendingMod - 1]
          /\ sent' \in [Threads -> 0 .. SentCap]
      BY <3>1, CountedType, ATSAssumption DEF InterruptSignals, Types
    <3> QED BY <3>1, <3>2 DEF InterruptSignals, Types, TypeOK, CountsOK
  <2> QED BY <2>1, <2>2, <2>3
<1> QED BY <1>1, <1>2 DEF Types, TypeOK, CountsOK, DrainOK

(* Those in which a thread executes code of its own.                       *)
LEMMA CallingTypes ==
  ASSUME Types, NEW t \in Threads,
         \/ Enable(t) \/ Disable(t)
         \/ \E th \in Targets[t] : Signal(t, th)
  PROVE  Types'
<1>1. UNCHANGED <<kernelVars, drain>>
  BY DEF Enable, Disable, Signal
<1>2. KernelTypeOK' /\ RunningIsReady' /\ DrainOK'
  BY <1>1 DEF kernelVars, Types, TypeOK, KernelTypeOK, RunningIsReady, DrainOK
<1>3. CountsOK'
  <2>1. CASE Enable(t) \/ Disable(t)
    BY <2>1 DEF Enable, Disable, Types, TypeOK, CountsOK
  <2>2. CASE \E th \in Targets[t] : Signal(t, th)
    <3>1. PICK th \in Targets[t] : Signal(t, th)
      BY <2>2
    <3>2. /\ ats_pending' \in [Threads -> 0 .. PendingMod - 1]
          /\ sent' \in [Threads -> 0 .. SentCap]
      BY <3>1, CountedType, ATSAssumption DEF Signal, Types
    <3> QED BY <3>1, <3>2 DEF Signal, Types, TypeOK, CountsOK
  <2> QED BY <2>1, <2>2
<1> QED BY <1>2, <1>3 DEF Types, TypeOK, CountsOK, DrainOK

(* A step of the loop on top: what it may become, and what it counts.      *)
LEMMA GoOnType ==
  ASSUME TypeOK, NEW t \in All, drain[t] # <<>>, NEW p, NEW r,
         [at |-> p, read |-> r] \in Loops, GoOn(t, p, r), UNCHANGED frames
  PROVE  DrainOK'
<1>1. drain[t] \in Seq(Loops)
  BY DEF TypeOK
<1>2. /\ <<[at |-> p, read |-> r]>> \o Tail(drain[t]) \in Seq(Loops)
      /\ Len(<<[at |-> p, read |-> r]>> \o Tail(drain[t])) = Len(drain[t])
  BY <1>1, Replace
<1> QED BY <1>2 DEF TypeOK, GoOn, DrainOK

LEMMA TakingTypes ==
  ASSUME Types, NEW t \in All,
         Check(t) \/ (t \in Threads /\ Take(t))
  PROVE  Types'
<1>1. drain[t] # <<>> /\ UNCHANGED kernelVars
  BY DEF Check, Take, Test, Load, Store, Handle, Draining
<1>2. KernelTypeOK' /\ RunningIsReady'
  BY <1>1 DEF kernelVars, Types, TypeOK, KernelTypeOK, RunningIsReady
<1>3. DrainOK'
  <2>1. CASE Check(t)
    BY <1>1, <2>1, GoOnType, InLoops DEF Check, Types, kernelVars
  <2>2. CASE Test(t)
    BY <1>1, <2>2, GoOnType, InLoops DEF Test, Types, kernelVars
  <2>3. CASE t \in Threads /\ Load(t)
    <3>1. [at |-> "store", read |-> ats_pending[t]] \in Loops
      BY <2>3 DEF Types, TypeOK, Loops
    <3> QED BY <1>1, <2>3, <3>1, GoOnType DEF Load, Types, kernelVars
  <2>4. CASE Store(t)
    BY <1>1, <2>4, GoOnType, InLoops DEF Store, Types, kernelVars
  <2>5. CASE Handle(t)
    BY <1>1, <2>5, GoOnType, InLoops DEF Handle, Types, kernelVars
  <2> QED BY <2>1, <2>2, <2>3, <2>4, <2>5 DEF Take
<1>4. CountsOK'
  <2>1. CASE Check(t) \/ Test(t) \/ Load(t)
    BY <2>1 DEF Check, Test, Load, Types, TypeOK, CountsOK
  <2>2. CASE t \in Threads /\ Store(t)
    <3>1. drain[t] \in Seq(Loops)
      BY DEF Types, TypeOK
    <3>2. Loop(t) \in Loops
      BY <1>1, <3>1, Pop DEF Loop
    <3>3. Loop(t).read - 1 \in Int
      BY <3>2, ATSAssumption DEF Loops
    <3>4. (Loop(t).read - 1) % PendingMod \in 0 .. PendingMod - 1
      BY <3>3, ATSAssumption
    <3> QED BY <2>2, <3>4 DEF Store, Types, TypeOK, CountsOK
  <2>3. CASE t \in Threads /\ Handle(t)
    BY <2>3, ATSAssumption DEF Handle, Types, TypeOK, CountsOK, HandledCap
  <2> QED BY <2>1, <2>2, <2>3 DEF Take
<1> QED BY <1>2, <1>3, <1>4 DEF Types, TypeOK, CountsOK, DrainOK

LEMMA ReturnTypes ==
  ASSUME Types, NEW t \in All, Return(t)
  PROVE  Types'
<1>1. KernelTypeOK' /\ RunningIsReady'
  BY ReturnType DEF Return, Types, TypeOK
<1>2. DrainOK'
  <2>1. /\ current_thread = t /\ drain[t] # <<>> /\ frames[t] # <<>>
        /\ drain[t] \in Seq(Loops) /\ frames[t] \in Seq(Frames)
        /\ drain' = [drain EXCEPT ![t] = Tail(drain[t])]
        /\ frames' = [frames EXCEPT ![t] = Tail(frames[t])]
    BY DEF Return, Draining, YieldReturn, TimerInterruptReturn, Types, TypeOK,
           KernelTypeOK
  <2>2. /\ Tail(drain[t]) \in Seq(Loops)
        /\ Len(Tail(drain[t])) = Len(drain[t]) - 1
        /\ Len(Tail(frames[t])) = Len(frames[t]) - 1
    BY <2>1, HeadTailProperties
  <2> QED BY <2>1, <2>2 DEF Types, TypeOK, KernelTypeOK, DrainOK
<1>3. CountsOK'
  BY DEF Return, Types, TypeOK, CountsOK
<1> QED BY <1>1, <1>2, <1>3 DEF Types, TypeOK, CountsOK, DrainOK

LEMMA StepTypes == Types /\ [Next]_vars => Types'
<1> SUFFICES ASSUME Types, [Next]_vars PROVE Types'
  OBVIOUS
<1>1. CASE UNCHANGED vars
  BY <1>1 DEF vars, kernelVars, atsVars, Types, TypeOK, KernelTypeOK,
              RunningIsReady
<1>2. CASE \E t \in All : Resume(t)
  BY <1>2, TakingTypes, ReturnTypes DEF Resume
<1>3. CASE \E t \in Threads : Take(t)
  BY <1>3, TakingTypes DEF All
<1>4. CASE \/ \E t \in Threads : \E th \in Targets[t] : Signal(t, th)
           \/ \E t \in Listeners : Enable(t) \/ Disable(t)
  BY <1>4, CallingTypes, ATSAssumption
<1>5. CASE \/ Tick \/ MainLoop
           \/ \E t \in Threads : YieldInCall(t)
           \/ \E th \in Interrupts : InterruptSignals(th)
  BY <1>5, LeavingTypes
<1> QED BY <1>1, <1>2, <1>3, <1>4, <1>5 DEF Next

LEMMA TypesInvariance == Spec => []Types
BY InitTypes, StepTypes, PTL DEF Spec

(* Every variable keeps its type, ats_pending its 32 bits, and a thread    *)
(* has as many loops as it has calls to return from.                       *)
THEOREM TypeCorrect == Spec => []TypeOK
<1>1. Types => TypeOK
  BY DEF Types
<1> QED BY <1>1, TypesInvariance, PTL

-----------------------------------------------------------------------------
(***************************************************************************)
(* No signal is lost.  What is decremented is the value that was read; it  *)
(* may be stale, but a thread comes back to it through a loop that has     *)
(* just found the count zero and its signals all taken.  The inductive     *)
(* invariant says so of each thread: one that is away has a new loop on    *)
(* top (Away), the loops below it take signals (Busy) that were sent       *)
(* (Sent), a value that was read covers what is not yet taken (Read), and  *)
(* a loop that is over leaves nothing to take (Over).                      *)
(***************************************************************************)
Taken(t) == handled[t] + Cardinality(InHand(t))

Away(t) == t # current_thread /\ drain[t] # <<>> => Loop(t).at = "check"

Busy(t) ==
  \A i \in 1 .. Len(drain[t]) :
    drain[t][i].at \in {"test", "load", "store", "handle"} => ats_active[t] = 1

Sent(t) ==
  /\ ats_pending[t] <= sent[t]
  /\ \A i \in 1 .. Len(drain[t]) :
       drain[t][i].at = "store" => drain[t][i].read <= sent[t]

Read(t) ==
  /\ sent[t] <= Taken(t) + ats_pending[t]
  /\ drain[t] # <<>> /\ Loop(t).at = "store" =>
       sent[t] <= Taken(t) + Loop(t).read

Over(t) ==
  drain[t] # <<>> /\ Loop(t).at = "done" /\ ats_active[t] = 1 =>
    sent[t] <= Taken(t)

Sound(t) == Away(t) /\ Busy(t) /\ Sent(t) /\ Read(t) /\ Over(t)

IInv == Types /\ \A t \in Threads : Sound(t)

LEMMA TakenType == ASSUME TypeOK, NEW t \in Threads PROVE Taken(t) \in Nat
<1>1. drain[t] \in Seq(Loops) /\ handled[t] \in Nat
  BY ATSAssumption DEF TypeOK, All, HandledCap
<1>2. Cardinality(Hands(drain[t])) \in Nat /\ InHand(t) = Hands(drain[t])
  BY <1>1, HandsFinite DEF InHand, Hands
<1> QED BY <1>1, <1>2 DEF Taken

LEMMA ReadType ==
  ASSUME NEW s \in Seq(Loops), NEW i \in 1 .. Len(s)
  PROVE  s[i] \in Loops /\ s[i].read \in Nat
<1>1. s[i] \in Loops
  BY ElementOfSeq
<1> QED BY <1>1, ATSAssumption DEF Loops

LEMMA InitSound == Init => IInv
<1> SUFFICES ASSUME Init PROVE IInv
  OBVIOUS
<1>1. Types
  BY InitTypes
<1>2. ASSUME NEW t \in Threads PROVE Sound(t)
  <2>1. /\ drain[t] = <<>> /\ Len(drain[t]) = 0
        /\ sent[t] = 0 /\ ats_pending[t] = 0
    BY DEF Init, All
  <2>2. Taken(t) \in Nat
    BY <1>1, TakenType DEF Types
  <2> QED BY <2>1, <2>2 DEF Sound, Away, Busy, Sent, Read, Over
<1> QED BY <1>1, <1>2 DEF IInv

(* What concerns a thread is as it was, and it is still away, or still not.*)
LEMMA SameSound ==
  ASSUME NEW t \in Threads, Sound(t),
         drain'[t] = drain[t], ats_active'[t] = ats_active[t],
         ats_pending'[t] = ats_pending[t], sent'[t] = sent[t],
         handled'[t] = handled[t],
         t = current_thread => t = current_thread'
  PROVE  Sound(t)'
BY DEF Sound, Away, Busy, Sent, Read, Over, Taken, InHand, Loop

(* A signal may come in while a thread is away, or as it is sent away.     *)
OneMore(t) ==
  /\ ats_active'[t] = ats_active[t] /\ handled'[t] = handled[t]
  /\ \/ sent'[t] = sent[t] /\ ats_pending'[t] = ats_pending[t]
     \/ sent'[t] = sent[t] + 1 /\ ats_pending'[t] = ats_pending[t] + 1

LEMMA CountedOneMore ==
  ASSUME IInv, NEW th \in Threads, Counted(th),
         UNCHANGED <<ats_active, handled>>
  PROVE  \A t \in Threads : OneMore(t)
<1>1. /\ sent[th] \in 0 .. SentCap /\ sent[th] < SentCap
      /\ ats_pending[th] \in 0 .. PendingMod - 1 /\ ats_pending[th] <= sent[th]
  BY DEF IInv, Types, TypeOK, Sound, Sent, Counted
<1>2. (ats_pending[th] + 1) % PendingMod = ats_pending[th] + 1
  BY <1>1, ATSAssumption
<1> QED BY <1>2 DEF Counted, OneMore, IInv, Types, TypeOK

LEMMA AwaySound ==
  ASSUME IInv, NEW t \in Threads, OneMore(t), drain'[t] = drain[t],
         drain[t] = <<>> \/ Loop(t).at = "check"
  PROVE  Sound(t)'
<1>1. /\ sent[t] \in Nat /\ ats_pending[t] \in Nat /\ Taken(t) \in Nat
      /\ drain[t] \in Seq(Loops)
  BY TakenType, ATSAssumption DEF IInv, Types, TypeOK, All
<1>2. Taken(t)' = Taken(t) /\ Loop(t)' = Loop(t)
  BY DEF OneMore, Taken, InHand, Loop
<1>3. ASSUME NEW i \in 1 .. Len(drain[t]), drain[t][i].at = "store"
      PROVE  drain[t][i].read <= sent'[t]
  <2>1. drain[t][i].read \in Int /\ drain[t][i].read <= sent[t]
    BY <1>1, <1>3, ReadType DEF IInv, Sound, Sent
  <2> QED BY <1>1, <2>1 DEF OneMore
<1>4. Sent(t)'
  BY <1>1, <1>3 DEF OneMore, IInv, Sound, Sent
<1>5. Read(t)' /\ Over(t)' /\ Away(t)'
  BY <1>1, <1>2 DEF OneMore, IInv, Sound, Read, Over, Away
<1>6. Busy(t)'
  BY DEF OneMore, IInv, Sound, Busy
<1> QED BY <1>4, <1>5, <1>6 DEF Sound

LEMMA LeavingSound ==
  ASSUME IInv, NEW t \in Threads, OneMore(t), Leave
  PROVE  Sound(t)'
<1>1. CASE t # current_thread
  <2>1. drain'[t] = drain[t] /\ (drain[t] = <<>> \/ Loop(t).at = "check")
    BY <1>1 DEF Leave, IInv, Types, TypeOK, Sound, Away, All
  <2> QED BY <2>1, AwaySound
<1>2. CASE t = current_thread
  <2> DEFINE x == [at |-> "check", read |-> 0]
             d == drain[t]
  <2>1. x \in Loops /\ d \in Seq(Loops)
    BY InLoops DEF IInv, Types, TypeOK, All
  <2>2. drain'[t] = <<x>> \o d
    BY <1>2 DEF Leave, IInv, Types, TypeOK, All
  <2>3. x.at = "check"
    OBVIOUS
  <2>4. Len(d) \in Nat
    BY <2>1
  <2> HIDE DEF x
  <2>5. /\ drain'[t] # <<>> /\ Loop(t)' = x
        /\ Len(drain'[t]) = Len(d) + 1 /\ drain'[t][1] = x
        /\ \A i \in 1 .. Len(d) : drain'[t][i + 1] = d[i]
    BY <2>1, <2>2, Push DEF Loop
  <2>6. ASSUME NEW i \in 1 .. Len(drain'[t])
        PROVE  drain'[t][i] = x \/ \E j \in 1 .. Len(d) : drain'[t][i] = d[j]
    <3>1. CASE i = 1
      BY <2>5, <3>1
    <3>2. CASE i # 1
      <4>1. i - 1 \in 1 .. Len(d) /\ i = (i - 1) + 1
        BY <2>4, <2>5, <3>2
      <4> QED BY <2>5, <4>1
    <3> QED BY <3>1, <3>2
  <2>7. Taken(t)' = Taken(t)
    <3>1. Cardinality(Hands(drain'[t])) = Cardinality(Hands(d))
      <4>1. Cardinality(Hands(d)) \in Nat
        BY <2>1, HandsFinite
      <4> QED BY <2>1, <2>2, <2>3, <4>1, PushHands
    <3>2. InHand(t) = Hands(d) /\ InHand(t)' = Hands(drain'[t])
      BY DEF InHand, Hands
    <3> QED BY <3>1, <3>2 DEF Taken, OneMore
  <2>8. /\ sent[t] \in Nat /\ ats_pending[t] \in Nat /\ Taken(t) \in Nat
    BY TakenType, ATSAssumption DEF IInv, Types, TypeOK
  <2>9. Busy(t)'
    BY <2>3, <2>6 DEF OneMore, IInv, Sound, Busy
  <2>10. Sent(t)'
    <3>1. ASSUME NEW j \in 1 .. Len(d), d[j].at = "store"
          PROVE  d[j].read <= sent'[t]
      <4>1. d[j].read \in Int /\ d[j].read <= sent[t]
        BY <2>1, <3>1, ReadType DEF IInv, Sound, Sent
      <4> QED BY <2>8, <4>1 DEF OneMore
    <3>2. ats_pending'[t] <= sent'[t]
      BY <2>8 DEF OneMore, IInv, Sound, Sent
    <3> QED BY <2>3, <2>6, <3>1, <3>2 DEF Sent
  <2>11. Read(t)' /\ Over(t)' /\ Away(t)'
    BY <2>3, <2>5, <2>7, <2>8 DEF OneMore, IInv, Sound, Read, Over, Away
  <2> QED BY <2>9, <2>10, <2>11 DEF Sound
<1> QED BY <1>1, <1>2

(* The loop of the current thread goes on.                                 *)
LEMMA GoOnEffect ==
  ASSUME IInv, NEW t \in Threads, NEW from, Draining(t, from),
         NEW p, NEW r, [at |-> p, read |-> r] \in Loops, GoOn(t, p, r)
  PROVE  /\ t = current_thread /\ Loop(t).at = from
         /\ drain'[t] # <<>> /\ Loop(t)' = [at |-> p, read |-> r]
         /\ Len(drain[t]) \in Nat /\ Len(drain'[t]) = Len(drain[t])
         /\ drain[t] # <<>> /\ 1 \in 1 .. Len(drain[t])
         /\ drain[t][1] = Loop(t) /\ Loop(t) \in Loops /\ Loop(t).read \in Nat
         /\ \A i \in 1 .. Len(drain[t]) :
              drain'[t][i] = IF i = 1 THEN [at |-> p, read |-> r]
                             ELSE drain[t][i]
         /\ Cardinality(InHand(t)') + (IF from = "handle" THEN 1 ELSE 0)
              = Cardinality(InHand(t)) + (IF p = "handle" THEN 1 ELSE 0)
         /\ Cardinality(InHand(t)) \in Nat /\ Cardinality(InHand(t)') \in Nat
         /\ \A u \in Threads \ {t} : drain'[u] = drain[u]
<1> DEFINE x == [at |-> p, read |-> r]
           d == drain[t]
<1>1. d \in Seq(Loops) /\ d # <<>> /\ t = current_thread /\ Loop(t).at = from
  BY DEF IInv, Types, TypeOK, All, Draining
<1>2. drain'[t] = <<x>> \o Tail(d)
  BY DEF GoOn, IInv, Types, TypeOK, All
<1>3. x.at = p
  OBVIOUS
<1>4. Len(d) \in Nat \ {0} /\ d[1] = Loop(t) /\ Loop(t) \in Loops
  BY <1>1, Pop DEF Loop
<1>5. Loop(t).read \in Nat
  BY <1>4, ATSAssumption DEF Loops
<1> HIDE DEF x
<1>6. /\ drain'[t] \in Seq(Loops)
      /\ drain'[t] # <<>> /\ Loop(t)' = x /\ Len(drain'[t]) = Len(d)
      /\ \A i \in 1 .. Len(d) : drain'[t][i] = IF i = 1 THEN x ELSE d[i]
      /\ Cardinality(Hands(drain'[t]))
           + (IF Head(d).at = "handle" THEN 1 ELSE 0)
           = Cardinality(Hands(d)) + (IF x.at = "handle" THEN 1 ELSE 0)
  BY <1>1, <1>2, Replace DEF Loop, x
<1>7. InHand(t) = Hands(d) /\ InHand(t)' = Hands(drain'[t]) /\ Head(d) = Loop(t)
  BY DEF InHand, Hands, Loop
<1>8. Cardinality(Hands(d)) \in Nat /\ Cardinality(Hands(drain'[t])) \in Nat
  BY <1>1, <1>6, HandsFinite
<1>9. \A u \in Threads \ {t} : drain'[u] = drain[u]
  BY DEF GoOn, IInv, Types, TypeOK, All
<1> QED BY <1>1, <1>3, <1>4, <1>5, <1>6, <1>7, <1>8, <1>9 DEF x

(* What the loop becomes is sound if it is so on top; those below it were. *)
LEMMA GoOnSound ==
  ASSUME IInv, NEW t \in Threads, NEW from, Draining(t, from),
         NEW p, NEW r, [at |-> p, read |-> r] \in Loops, GoOn(t, p, r),
         UNCHANGED <<current_thread, ats_active, sent>>,
         p \in {"test", "load", "store", "handle"} => ats_active[t] = 1,
         p = "store" => r <= sent[t],
         ats_pending'[t] <= sent[t],
         sent[t] <= Taken(t)' + ats_pending'[t],
         p = "store" => sent[t] <= Taken(t)' + r,
         p = "done" /\ ats_active[t] = 1 => sent[t] <= Taken(t)'
  PROVE  Sound(t)'
<1>1. /\ t = current_thread
      /\ drain'[t] # <<>> /\ Loop(t)' = [at |-> p, read |-> r]
      /\ Len(drain'[t]) = Len(drain[t])
      /\ \A i \in 1 .. Len(drain[t]) :
           drain'[t][i] = IF i = 1 THEN [at |-> p, read |-> r]
                          ELSE drain[t][i]
  BY GoOnEffect
<1>2. Away(t)'
  BY <1>1 DEF Away
<1>3. Busy(t)'
  BY <1>1 DEF IInv, Sound, Busy
<1>4. Sent(t)'
  BY <1>1 DEF IInv, Sound, Sent
<1>5. Read(t)' /\ Over(t)'
  BY <1>1 DEF Read, Over
<1> QED BY <1>2, <1>3, <1>4, <1>5 DEF Sound

LEMMA TakingSound ==
  ASSUME IInv, ~WrapsBelowZero, NEW t \in Threads, Check(t) \/ Take(t)
  PROVE  Sound(t)'
<1>0. /\ sent[t] \in 0 .. SentCap /\ ats_pending[t] \in 0 .. PendingMod - 1
      /\ handled[t] \in 0 .. HandledCap /\ Taken(t) \in Nat
      /\ SentCap \in Nat /\ PendingMod \in Nat
      /\ Sound(t)
  BY TakenType, ATSAssumption DEF IInv, Types, TypeOK
<1>1. CASE Check(t)
  <2> DEFINE p == IF ats_active[t] = 1 THEN "test" ELSE "done"
  <2>1. /\ Draining(t, "check") /\ GoOn(t, p, 0)
        /\ UNCHANGED <<current_thread, ats_active, ats_pending, sent, handled>>
    BY <1>1 DEF Check, kernelVars
  <2>2. [at |-> p, read |-> 0] \in Loops
    BY InLoops
  <2>3. p \in {"test", "done"} /\ (p = "test" <=> ats_active[t] = 1)
    OBVIOUS
  <2> HIDE DEF p
  <2>4. Taken(t)' = Taken(t)
    BY <2>1, <2>2, <2>3, GoOnEffect DEF Taken
  <2> QED BY <1>0, <2>1, <2>2, <2>3, <2>4, GoOnSound DEF Sound, Sent, Read
<1>2. CASE Test(t)
  <2> DEFINE p == IF ats_pending[t] # 0 THEN "load" ELSE "done"
  <2>1. /\ Draining(t, "test") /\ GoOn(t, p, 0)
        /\ UNCHANGED <<current_thread, ats_active, ats_pending, sent, handled>>
    BY <1>2 DEF Test, kernelVars
  <2>2. [at |-> p, read |-> 0] \in Loops
    BY InLoops
  <2>3. p \in {"load", "done"} /\ (p = "done" <=> ats_pending[t] = 0)
    OBVIOUS
  <2> HIDE DEF p
  <2>4. Taken(t)' = Taken(t) /\ ats_active[t] = 1
    BY <2>1, <2>2, <2>3, GoOnEffect DEF Taken, IInv, Sound, Busy
  <2> QED BY <1>0, <2>1, <2>2, <2>3, <2>4, GoOnSound DEF Sound, Sent, Read
<1>3. CASE Load(t)
  <2>1. /\ Draining(t, "load") /\ GoOn(t, "store", ats_pending[t])
        /\ UNCHANGED <<current_thread, ats_active, ats_pending, sent, handled>>
    BY <1>3 DEF Load, kernelVars
  <2>2. [at |-> "store", read |-> ats_pending[t]] \in Loops
    BY <1>0 DEF Loops
  <2>3. Taken(t)' = Taken(t) /\ ats_active[t] = 1
    BY <2>1, <2>2, GoOnEffect DEF Taken, IInv, Sound, Busy
  <2> QED BY <1>0, <2>1, <2>2, <2>3, GoOnSound DEF Sound, Sent, Read
<1>4. CASE Store(t)
  <2>1. /\ Draining(t, "store") /\ GoOn(t, "handle", 0)
        /\ UNCHANGED <<current_thread, ats_active, sent, handled>>
    BY <1>4 DEF Store, kernelVars
  <2>2. [at |-> "handle", read |-> 0] \in Loops
    BY InLoops
  <2>3. /\ Loop(t).at = "store" /\ Loop(t) \in Loops /\ drain[t] # <<>>
        /\ Loop(t).read <= sent[t] /\ ats_active[t] = 1
        /\ sent[t] <= Taken(t) + Loop(t).read
    BY <2>1, <2>2, GoOnEffect DEF IInv, Sound, Busy, Sent, Read
  <2>4. Loop(t).read \in 0 .. PendingMod - 1 /\ Loop(t).read # 0
    BY <2>1, <2>3 DEF Loops, WrapsBelowZero
  <2>5. ats_pending'[t] = Loop(t).read - 1
    <3>1. (Loop(t).read - 1) % PendingMod = Loop(t).read - 1
      BY <1>0, <2>4
    <3> QED BY <1>4, <3>1 DEF Store, IInv, Types, TypeOK
  <2>6. Taken(t)' = Taken(t) + 1
    <3>1. /\ Cardinality(InHand(t)') = Cardinality(InHand(t)) + 1
          /\ Cardinality(InHand(t)) \in Nat
      BY <2>1, <2>2, GoOnEffect
    <3>2. handled'[t] = handled[t] /\ handled[t] \in Nat
      BY <1>0, <2>1, ATSAssumption DEF HandledCap
    <3> QED BY <3>1, <3>2 DEF Taken
  <2> QED BY <1>0, <2>1, <2>2, <2>3, <2>4, <2>5, <2>6, GoOnSound
<1>5. CASE Handle(t)
  <2>1. /\ Draining(t, "handle") /\ GoOn(t, "test", 0)
        /\ UNCHANGED <<current_thread, ats_active, ats_pending, sent>>
    BY <1>5 DEF Handle, kernelVars
  <2>2. [at |-> "test", read |-> 0] \in Loops
    BY InLoops
  <2>3. ats_active[t] = 1
    BY <2>1, <2>2, GoOnEffect DEF IInv, Sound, Busy
  <2>4. /\ Cardinality(InHand(t)') + 1 = Cardinality(InHand(t))
        /\ Cardinality(InHand(t)) \in Nat /\ Cardinality(InHand(t)') \in Nat
    BY <2>1, <2>2, GoOnEffect
  <2>5. handled'[t] = IF handled[t] = HandledCap THEN handled[t]
                      ELSE handled[t] + 1
    BY <1>5 DEF Handle, IInv, Types, TypeOK
  <2>6. Taken(t)' = Taken(t) \/ Taken(t)' > sent[t]
    <3>1. CASE handled[t] = HandledCap
      <4>1. handled'[t] = HandledCap /\ HandledCap > sent[t]
        BY <1>0, <2>5, <3>1 DEF HandledCap
      <4> QED BY <1>0, <2>4, <4>1 DEF Taken, HandledCap
    <3>2. CASE handled[t] # HandledCap
      <4>1. handled'[t] = handled[t] + 1
        BY <2>5, <3>2
      <4> QED BY <1>0, <2>4, <4>1 DEF Taken
    <3> QED BY <3>1, <3>2
  <2>7. Taken(t)' \in Int
    BY <1>0, <2>4, <2>5 DEF Taken, HandledCap
  <2> QED BY <1>0, <2>1, <2>2, <2>3, <2>6, <2>7, GoOnSound
          DEF Sound, Sent, Read
<1> QED BY <1>1, <1>2, <1>3, <1>4, <1>5 DEF Take

(* The loop on top is over: the one below it goes on.                      *)
LEMMA ReturnSound ==
  ASSUME IInv, NEW t \in Threads, Return(t)
  PROVE  Sound(t)'
<1> DEFINE d == drain[t]
<1>1. /\ d \in Seq(Loops) /\ d # <<>> /\ t = current_thread
      /\ Head(d).at = "done" /\ drain'[t] = Tail(d)
      /\ UNCHANGED <<current_thread, ats_active, ats_pending, sent, handled>>
  BY DEF Return, Draining, Loop, YieldReturn, TimerInterruptReturn, IInv,
         Types, TypeOK, All
<1>2. /\ Tail(d) \in Seq(Loops)
      /\ Len(d) \in Nat \ {0} /\ Len(Tail(d)) = Len(d) - 1
      /\ \A i \in 1 .. Len(Tail(d)) : Tail(d)[i] = d[i + 1]
  BY <1>1, Pop
<1>3. \A i \in 1 .. Len(Tail(d)) : i + 1 \in 1 .. Len(d)
  BY <1>2
<1>4. Taken(t)' = Taken(t)
  <2>1. Cardinality(Hands(d)) = Cardinality(Hands(Tail(d)))
    <3>1. Cardinality(Hands(Tail(d))) \in Nat
      BY <1>2, HandsFinite
    <3> QED BY <1>1, <3>1, PopHands
  <2>2. InHand(t) = Hands(d) /\ InHand(t)' = Hands(Tail(d))
    BY <1>1 DEF InHand, Hands
  <2> QED BY <1>1, <2>1, <2>2 DEF Taken
<1>5. Away(t)'
  BY <1>1 DEF Away
<1>6. Busy(t)'
  BY <1>1, <1>2, <1>3 DEF IInv, Sound, Busy
<1>7. Sent(t)'
  BY <1>1, <1>2, <1>3 DEF IInv, Sound, Sent
<1>8. Read(t)' /\ Over(t)'
  <2>1. ats_active[t] = 1 => sent[t] <= Taken(t)
    BY <1>1 DEF IInv, Sound, Over, Loop
  <2>2. sent[t] \in Nat /\ Taken(t) \in Nat
    BY TakenType, ATSAssumption DEF IInv, Types, TypeOK
  <2>3. ASSUME Tail(d) # <<>>
        PROVE  /\ Head(Tail(d)).read \in Nat
               /\ Head(Tail(d)).at = "store" => ats_active[t] = 1
    <3>1. /\ Head(Tail(d)) \in Loops /\ 1 \in 1 .. Len(Tail(d))
          /\ Head(Tail(d)) = Tail(d)[1]
      BY <1>2, <2>3, Pop
    <3>2. Head(Tail(d)).at = "store" => ats_active[t] = 1
      BY <1>2, <1>3, <3>1 DEF IInv, Sound, Busy
    <3> QED BY <3>1, <3>2, ATSAssumption DEF Loops
  <2> QED BY <1>1, <1>4, <2>1, <2>2, <2>3 DEF IInv, Sound, Read, Over, Loop
<1> QED BY <1>5, <1>6, <1>7, <1>8 DEF Sound

LEMMA StepSound == IInv /\ ~WrapsBelowZero /\ [Next]_vars => IInv'
<1> SUFFICES ASSUME IInv, ~WrapsBelowZero, [Next]_vars PROVE IInv'
  OBVIOUS
<1>0. Types'
  BY StepTypes DEF IInv
<1> SUFFICES ASSUME NEW t \in Threads PROVE Sound(t)'
  BY <1>0 DEF IInv
<1>1. CASE \E u \in All : Check(u) \/ Return(u) \/ (u \in Threads /\ Take(u))
  <2>1. PICK u \in All : Check(u) \/ Return(u) \/ (u \in Threads /\ Take(u))
    BY <1>1
  <2>2. CASE u = t
    BY <2>1, <2>2, TakingSound, ReturnSound
  <2>3. CASE u # t
    <3>1. /\ drain'[t] = drain[t] /\ ats_active'[t] = ats_active[t]
          /\ ats_pending'[t] = ats_pending[t] /\ sent'[t] = sent[t]
          /\ handled'[t] = handled[t] /\ t # current_thread
      BY <2>1, <2>3
      DEF Check, Return, Take, Test, Load, Store, Handle, GoOn, Draining, IInv,
          Types, TypeOK, All
    <3> QED BY <3>1, SameSound DEF IInv
  <2> QED BY <2>2, <2>3
<1>2. CASE Tick \/ MainLoop \/ \E u \in Threads : YieldInCall(u)
  <2>1. OneMore(t) /\ Leave
    BY <1>2 DEF Tick, MainLoop, YieldInCall, OneMore
  <2> QED BY <2>1, LeavingSound
<1>3. CASE \E th \in Interrupts : InterruptSignals(th)
  <2>1. OneMore(t) /\ Leave
    BY <1>3, CountedOneMore, ATSAssumption DEF InterruptSignals
  <2> QED BY <2>1, LeavingSound
<1>4. CASE \/ \E u \in Threads : \E th \in Targets[u] : Signal(u, th)
           \/ UNCHANGED vars
  <2>1. CASE UNCHANGED vars
    BY <2>1, SameSound DEF vars, kernelVars, atsVars, IInv
  <2>2. CASE \E u \in Threads : \E th \in Targets[u] : Signal(u, th)
    <3>1. PICK u \in Threads, th \in Threads : Signal(u, th)
      BY <2>2, ATSAssumption
    <3>2. OneMore(t) /\ drain' = drain
      BY <3>1, CountedOneMore DEF Signal
    <3>3. drain[t] = <<>> \/ Loop(t).at = "check"
      <4>1. CASE t = u
        <5>1. Len(drain[t]) = Len(frames[t]) /\ frames[t] = <<>>
          BY <3>1, <4>1 DEF Signal, InCode, Runs, IInv, Types, TypeOK, All
        <5>2. drain[t] \in Seq(Loops)
          BY DEF IInv, Types, TypeOK, All
        <5> QED BY <5>1, <5>2, EmptySeq
      <4>2. CASE t # u
        BY <3>1, <4>2 DEF Signal, InCode, Runs, IInv, Sound, Away
      <4> QED BY <4>1, <4>2
    <3> QED BY <3>2, <3>3, AwaySound
  <2> QED BY <1>4, <2>1, <2>2
<1>5. CASE \E u \in Listeners : Enable(u) \/ Disable(u)
  <2>1. PICK u \in Threads : Enable(u) \/ Disable(u)
    BY <1>5, ATSAssumption
  <2>2. UNCHANGED <<current_thread, drain, ats_pending, sent, handled>>
    BY <2>1 DEF Enable, Disable, kernelVars
  <2>3. CASE t = u
    <3>1. Len(drain[t]) = Len(frames[t]) /\ frames[t] = <<>>
      BY <2>1, <2>3 DEF Enable, Disable, InCode, Runs, IInv, Types, TypeOK, All
    <3>2. drain[t] \in Seq(Loops)
      BY DEF IInv, Types, TypeOK, All
    <3>3. drain[t] = <<>> /\ 1 .. Len(drain[t]) = {}
      BY <3>1, <3>2, EmptySeq
    <3> QED BY <2>2, <3>3
            DEF IInv, Sound, Away, Busy, Sent, Read, Over, Taken, InHand, Loop
  <2>4. CASE t # u
    <3>1. ats_active'[t] = ats_active[t]
      BY <2>1, <2>4 DEF Enable, Disable, IInv, Types, TypeOK
    <3> QED BY <2>2, <3>1, SameSound DEF IInv
  <2> QED BY <2>3, <2>4
<1> QED BY <1>1, <1>2, <1>3, <1>4, <1>5 DEF Next, Resume, All

(* Until a count goes below zero no signal is lost, however deep the loops *)
(* nest and wherever they are preempted.                                   *)
THEOREM SignalsAreKept == Spec => NoSignalLost
<1>1. IInv => Kept
  <2>1. ASSUME IInv, NEW t \in Threads
        PROVE  sent[t] <= handled[t] + ats_pending[t] + Cardinality(InHand(t))
    <3>1. sent[t] <= Taken(t) + ats_pending[t]
      BY <2>1 DEF IInv, Sound, Read
    <3>2. handled[t] \in Nat /\ ats_pending[t] \in Nat
      BY <2>1, ATSAssumption DEF IInv, Types, TypeOK, HandledCap
    <3>3. Cardinality(InHand(t)) \in Nat
      <4>1. drain[t] \in Seq(Loops) /\ InHand(t) = Hands(drain[t])
        BY <2>1 DEF IInv, Types, TypeOK, All, InHand, Hands
      <4> QED BY <4>1, HandsFinite
    <3> QED BY <3>1, <3>2, <3>3 DEF Taken
  <2> QED BY <2>1 DEF Kept
<1>2. Init => IInv
  BY InitSound
<1>3. IInv /\ ~WrapsBelowZero /\ [Next]_vars => IInv'
  BY StepSound
<1> QED BY <1>1, <1>2, <1>3, PTL DEF Spec, NoSignalLost
=============================================================================
