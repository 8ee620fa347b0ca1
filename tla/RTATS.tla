-------------------------------- MODULE RTATS -------------------------------
(***************************************************************************)
(* The asynchronous signals of the library: thread_ATS_signal(th) counts a *)
(* signal for th, and th calls its error_handler once for each when it is  *)
(* next given the processor.                                               *)
(*                                                                         *)
(* The calls are made by thread_start(), right after do_switch(), on the   *)
(* way back from the thread_yield() the thread was suspended in.  By then  *)
(* reti has turned interrupts on: the loop that takes the signals can be   *)
(* preempted anywhere, ats_pending-- included, and the thread then runs    *)
(* the same loop once more, in a call nested in the first, before it goes  *)
(* on.  Each frame of a thread therefore has a loop of its own: drain[t]   *)
(* is parallel to frames[t], and an element says where that loop is:       *)
(*   check   if(current_thread->ats_active==1)                             *)
(*   test    while(current_thread->ats_pending!=0)                         *)
(*   load    ats_pending-- reads the count         store  and writes it    *)
(*   handle  error_handler(SIMPLERTFRAMEWORK_ATS_SIGNAL)                   *)
(*   done    the loop is over, thread_yield() returns                      *)
(***************************************************************************)
EXTENDS RTKernel, FiniteSets

CONSTANTS
  Targets,     (* the threads each thread signals                             *)
  Listeners,   (* the threads that enable and disable the signals             *)
  Interrupts,  (* the threads interrupt handlers signal                       *)
  PendingMod,  (* 2^32: ats_pending is a uint32_t                             *)
  SentCap      (* bound: no thread is sent more signals than that             *)

ASSUME ATSAssumption ==
  /\ Targets \in [Threads -> SUBSET Threads]
  /\ Listeners \subseteq Threads
  /\ Interrupts \subseteq Threads
  /\ SentCap \in Nat
  /\ PendingMod \in Nat /\ PendingMod > SentCap

VARIABLES
  ats_active, ats_pending,
  to_yield,    (* the threads inside a call of the library, about to yield    *)
  drain,
  sent,        (* how many signals each thread was sent                       *)
  handled      (* and how many times it called its handler, up to a cap       *)

atsVars == <<ats_active, ats_pending, to_yield, drain, sent, handled>>
vars == <<kernelVars, atsVars>>

HandledCap == SentCap + 1

Loops == [at : {"check", "test", "load", "store", "handle", "done"},
          read : 0 .. PendingMod - 1]

TypeOK ==
  /\ KernelTypeOK
  /\ ats_active \in [Threads -> {0, 1}]
  /\ ats_pending \in [Threads -> 0 .. PendingMod - 1]
  /\ to_yield \in SUBSET Threads
  /\ drain \in [All -> Seq(Loops)]
  /\ \A t \in All : Len(drain[t]) = Len(frames[t])
  /\ sent \in [Threads -> 0 .. SentCap]
  /\ handled \in [Threads -> 0 .. HandledCap]

Init ==
  /\ KernelInit
  /\ ats_active = [t \in Threads |-> 0]
  /\ ats_pending = [t \in Threads |-> 0]
  /\ to_yield = {}
  /\ drain = [t \in All |-> <<>>]
  /\ sent = [t \in Threads |-> 0]
  /\ handled = [t \in Threads |-> 0]

-----------------------------------------------------------------------------
(* The current thread is suspended, and has the loop to run on its return. *)
Leave ==
  drain' = [drain EXCEPT
              ![current_thread] = <<[at |-> "check", read |-> 0]>> \o @]

Counted(th) ==
  /\ sent[th] < SentCap
  /\ sent' = [sent EXCEPT ![th] = @ + 1]
  /\ ats_pending' = [ats_pending EXCEPT ![th] = (@ + 1) % PendingMod]

InCode(t) == Runs(t) /\ t \notin to_yield

(* thread_ATS_signal(th): counted with interrupts off, then thread_yield() *)
Signal(t, th) ==
  /\ InCode(t)
  /\ Counted(th)
  /\ to_yield' = to_yield \union {t}
  /\ UNCHANGED <<kernelVars, ats_active, drain, handled>>

Enable(t) ==
  /\ InCode(t)
  /\ ats_active[t] = 0
  /\ ats_active' = [ats_active EXCEPT ![t] = 1]
  /\ to_yield' = to_yield \union {t}
  /\ UNCHANGED <<kernelVars, ats_pending, drain, sent, handled>>

Disable(t) ==
  /\ InCode(t)
  /\ ats_active[t] = 1
  /\ ats_active' = [ats_active EXCEPT ![t] = 0]
  /\ UNCHANGED <<kernelVars, ats_pending, to_yield, drain, sent, handled>>

YieldInCall(t) ==
  /\ Runs(t) /\ t \in to_yield
  /\ UNCHANGED clockVars
  /\ ThreadYield(status, ticks_to_wait, carry_ticks_to_wait, queue_last_input)
  /\ Suspend("call") /\ Leave
  /\ to_yield' = to_yield \ {t}
  /\ UNCHANGED <<ats_active, ats_pending, sent, handled>>

(* An interrupt handler signals th: its call runs with interrupts off.     *)
InterruptSignals(th) ==
  /\ Len(frames[current_thread]) < MaxNest
  /\ Counted(th)
  /\ UNCHANGED clockVars
  /\ ThreadYield(status, ticks_to_wait, carry_ticks_to_wait, queue_last_input)
  /\ Suspend("call") /\ Leave
  /\ UNCHANGED <<ats_active, to_yield, handled>>

Tick ==
  /\ TimerInterrupt /\ Leave
  /\ UNCHANGED <<ats_active, ats_pending, to_yield, sent, handled>>

MainLoop ==
  /\ MainYield /\ Leave
  /\ UNCHANGED <<ats_active, ats_pending, to_yield, sent, handled>>

-----------------------------------------------------------------------------
(* thread_start(), after do_switch()                                       *)
Loop(t) == Head(drain[t])

Draining(t, at) ==
  /\ current_thread = t
  /\ drain[t] # <<>>
  /\ Loop(t).at = at

GoOn(t, at, read) ==
  drain' = [drain EXCEPT ![t] = <<[at |-> at, read |-> read]>> \o Tail(@)]

(* Mutant: a loop nested in another is skipped.                            *)
CheckOutermost(t) ==
  /\ Draining(t, "check")
  /\ GoOn(t, IF t \in Threads /\ Len(drain[t]) = 1 /\ ats_active[t] = 1
             THEN "test" ELSE "done", 0)
  /\ UNCHANGED <<kernelVars, ats_active, ats_pending, to_yield, sent, handled>>

Check(t) ==
  /\ Draining(t, "check")
  /\ GoOn(t, IF t \in Threads /\ ats_active[t] = 1 THEN "test" ELSE "done", 0)
  /\ UNCHANGED <<kernelVars, ats_active, ats_pending, to_yield, sent, handled>>

(* Mutant: an off-by-one, the last signal stays.                           *)
TestLeavesOne(t) ==
  /\ Draining(t, "test")
  /\ GoOn(t, IF ats_pending[t] > 1 THEN "load" ELSE "done", 0)
  /\ UNCHANGED <<kernelVars, ats_active, ats_pending, to_yield, sent, handled>>

Test(t) ==
  /\ Draining(t, "test")
  /\ GoOn(t, IF ats_pending[t] # 0 THEN "load" ELSE "done", 0)
  /\ UNCHANGED <<kernelVars, ats_active, ats_pending, to_yield, sent, handled>>

Load(t) ==
  /\ Draining(t, "load")
  /\ GoOn(t, "store", ats_pending[t])
  /\ UNCHANGED <<kernelVars, ats_active, ats_pending, to_yield, sent, handled>>

(* Mutant: ats_pending is a signed count.                                  *)
StoreSigned(t) ==
  /\ Draining(t, "store")
  /\ ats_pending' = [ats_pending EXCEPT ![t] = Loop(t).read - 1]
  /\ GoOn(t, "handle", 0)
  /\ UNCHANGED <<kernelVars, ats_active, to_yield, sent, handled>>

Store(t) ==
  /\ Draining(t, "store")
  /\ ats_pending' =
       [ats_pending EXCEPT ![t] = (Loop(t).read - 1) % PendingMod]
  /\ GoOn(t, "handle", 0)
  /\ UNCHANGED <<kernelVars, ats_active, to_yield, sent, handled>>

Handle(t) ==
  /\ Draining(t, "handle")
  /\ handled' = [handled EXCEPT ![t] = IF @ = HandledCap THEN @ ELSE @ + 1]
  /\ GoOn(t, "test", 0)
  /\ UNCHANGED <<kernelVars, ats_active, ats_pending, to_yield, sent>>

Return(t) ==
  /\ Draining(t, "done")
  /\ YieldReturn \/ TimerInterruptReturn
  /\ drain' = [drain EXCEPT ![t] = Tail(@)]
  /\ UNCHANGED <<ats_active, ats_pending, to_yield, sent, handled>>

Resume(t) == Check(t) \/ Return(t)
Take(t)   == Test(t) \/ Load(t) \/ Store(t) \/ Handle(t)

Next ==
  \/ Tick \/ MainLoop
  \/ \E t \in All : Resume(t)
  \/ \E t \in Threads : Take(t) \/ YieldInCall(t)
  \/ \E t \in Threads : \E th \in Targets[t] : Signal(t, th)
  \/ \E t \in Listeners : Enable(t) \/ Disable(t)
  \/ \E th \in Interrupts : InterruptSignals(th)

Spec == Init /\ [][Next]_vars

(* Fairness as in RTThreads: the timer does not stop, and a thread that is *)
(* dispatched again and again gets on.  Each step is named, as the nested  *)
(* loop of a thread is not to count as progress of the outer one.          *)
FairSpec ==
  /\ Spec
  /\ WF_vars(Tick)
  /\ \A t \in All : SF_vars(Check(t)) /\ SF_vars(Return(t))
  /\ \A t \in Listeners : /\ SF_vars(Test(t)) /\ SF_vars(Load(t))
                          /\ SF_vars(Store(t)) /\ SF_vars(Handle(t))

-----------------------------------------------------------------------------
(* Properties                                                              *)

(* The decrement of a count that is zero, which makes it 2^32-1: between   *)
(* the test and the reading, a nested loop took all there was.             *)
WrapsBelowZero ==
  \E t \in Threads : Draining(t, "store") /\ Loop(t).read = 0

(* Until that happens no signal is lost: ats_pending-- is not atomic and   *)
(* can overwrite a count that grew since it was read, but whatever a       *)
(* thread was sent while it was preempted it has handled, in the nested    *)
(* loop, by then.                                                          *)
InHand(t) == {i \in 1 .. Len(drain[t]) : drain[t][i].at = "handle"}

Kept ==
  \A t \in Threads :
    sent[t] <= handled[t] + ats_pending[t] + Cardinality(InHand(t))

NoSignalLost == []~WrapsBelowZero => []Kept

(* "if pending handlers, activate them": a handler is activated for a      *)
(* signal that was sent.                                                   *)
NoSignalInvented == \A t \in Threads : handled[t] <= sent[t]

(* A thread that keeps the signals enabled handles, in the end, all it was *)
(* sent, unless its count once went below zero.                            *)
SignalsHandled ==
  []~WrapsBelowZero =>
    \A t \in Listeners :
      handled[t] < sent[t] ~> (handled[t] >= sent[t] \/ ats_active[t] = 0)
=============================================================================
