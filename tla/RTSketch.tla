------------------------------ MODULE RTSketch ------------------------------
(***************************************************************************)
(* A sketch: threads that loop() creates before it calls                   *)
(* threads_subsystem_start(), each with an executor of its own, on the     *)
(* whole library.  An executor is the sequence of what it does that other  *)
(* threads can tell, Body[t]; each entry is a pair <<call, argument>>:     *)
(*   "signal" th    thread_signal(th)      "unblock" th  thread_unblock(th)*)
(*   "P" sem        thread_semaphore_P     "V" sem       thread_semaphore_V*)
(*   "get" q        thread_queue_nb_get_element(q)                         *)
(*   "set" q        thread_queue_nb_set_element(q, <a new value>)          *)
(*   "use" data     an access to data that threads share                   *)
(*   "input" port   if (Serial.available() > 0), for the rest of the body  *)
(*   "first" count  if (counter == 0), likewise: in the first job only      *)
(*   "ATS_enable", "ATS_disable" t, "ATS_signal" th                        *)
(*   "remove" th    thread_remove(th)                                      *)
(* Between two of them an executor prints, computes or delays: it may be   *)
(* preempted there and take any time.                                      *)
(***************************************************************************)
EXTENDS RTThreads, FiniteSets

CONSTANTS
  Body,
  Tokens,      (* thread_semaphore_create(Tokens[sem])                        *)
  QueueSize,   (* thread_queue_create(QueueSize)                              *)
  PendingMod,  (* as in RTATS                                                 *)
  SentCap      (* bound, as in RTATS                                          *)

Sems == DOMAIN Tokens

Listeners ==
  {t \in Threads : \E i \in 1 .. Len(Body[t]) : Body[t][i][1] = "ATS_enable"}

NULL == "NULL"

(* What a program must be like.  Each entry of a body is a call with an    *)
(* argument it can have,                                                   *)
Entries ==
  ({"signal", "unblock"} \X EventDriven) \union ({"P", "V"} \X Sems)
    \union ({"get", "set", "use", "input", "first"} \X STRING)
    \union ({"ATS_enable", "ATS_disable", "ATS_signal", "remove"} \X Threads)

Calls(t, kind) == \E i \in 1 .. Len(Body[t]) : Body[t][i][1] = kind
Has(t, entry)  == \E i \in 1 .. Len(Body[t]) : Body[t][i] = entry

SketchParams ==
  /\ Body \in [Threads -> Seq(Entries)]
  /\ Tokens \in [Sems -> Nat]
  /\ NULL \notin Sems
  /\ QueueSize \in Nat \ {0}
  /\ PendingMod \in Nat \ {0}

(* a body that may end early has no use for a semaphore and removes nobody,*)
EarlyEndsHarmless ==
  \A t \in Threads :
    Calls(t, "input") \/ Calls(t, "first") =>
      \A kind \in {"P", "V", "remove"} : ~ Calls(t, kind)

(* a thread is removed by another, waits for no semaphore then, and nobody *)
(* uses it,                                                                *)
RemovedAreLeft ==
  \A t, th \in Threads :
    Has(t, <<"remove", th>>) =>
      /\ th # t
      /\ ~ Calls(th, "P")
      /\ \A u \in Threads, kind \in {"signal", "unblock", "ATS_signal"} :
           ~ Has(u, <<kind, th>>)

(* a semaphore that one thread both takes and gives is a lock, taken and   *)
(* given in turn by all who use it,                                        *)
Times(t, entry, last) ==
  Cardinality({i \in 1 .. last : Body[t][i] = entry})
Depth(t, sem, last) ==
  Times(t, <<"P", sem>>, last) - Times(t, <<"V", sem>>, last)

LocksPaired ==
  \A sem \in Sems :
    /\ Tokens[sem] = 1
    /\ \E t \in Threads : Has(t, <<"P", sem>>) /\ Has(t, <<"V", sem>>)
    => \A t \in Threads :
         /\ \A last \in 0 .. Len(Body[t]) : Depth(t, sem, last) \in {0, 1}
         /\ Depth(t, sem, Len(Body[t])) = 0

(* asynchronous signals are used among periodic threads,                   *)
ListenersPeriodic == Listeners # {} => EventDriven = {}

(* and one thread stores in the queue, once a job.                         *)
OneSetter ==
  \A t, u \in Threads :
    \A i \in 1 .. Len(Body[t]), j \in 1 .. Len(Body[u]) :
      Body[t][i][1] = "set" /\ Body[u][j][1] = "set" => t = u /\ i = j

VARIABLES
  at,      (* per thread: the entry of Body[t] it performs next               *)
  jobs,    (* how often its executor has ended                                *)
  signals, (* and how often thread_signal() was called for it                 *)
  value, blocked_semaphore,                        (* of RTSemaphores         *)
  stored, read_index, write_index, elements, result,            (* of RTQueue *)
  ats_active, ats_pending, to_yield, drain, sent, handled         (* of RTATS *)

bodyVars   == <<at, jobs, signals>>
tokenVars  == <<value, blocked_semaphore>>
queueVars  == <<stored, read_index, write_index, elements, result>>
signalVars == <<ats_active, ats_pending, to_yield, sent, handled>>
sketchVars == <<vars, bodyVars, tokenVars, queueVars, signalVars, drain>>

Sem == INSTANCE RTSemaphores WITH
  Initialization <- Tokens, freed <- {}, inside <- {}, Locks <- <<>>,
  Waits <- <<>>, Posts <- <<>>, Frees <- <<>>, Posted <- {}, Naps <- {},
  ValueCap <- 0

(* A program stores the number of the job that stores: 1, 2, ...           *)
Q == INSTANCE RTQueue WITH
  howmany <- QueueSize, Elements <- 1 .. LastTick, NULL <- 0, Junk <- -2,
  MaxReads <- QueueSize

ATS == INSTANCE RTATS

SketchInit ==
  /\ Init
  /\ at = [t \in Threads |-> 1]
  /\ jobs = [t \in Threads |-> 0]
  /\ signals = [t \in Threads |-> 0]
  /\ value = Tokens
  /\ blocked_semaphore = [t \in Threads |-> NULL]
  /\ Q!Init
  /\ ats_active = [t \in Threads |-> 0]
  /\ ats_pending = [t \in Threads |-> 0]
  /\ to_yield = {}
  /\ drain = [t \in All |-> <<>>]
  /\ sent = [t \in Threads |-> 0]
  /\ handled = [t \in Threads |-> 0]

-----------------------------------------------------------------------------
(* The executor of t performs the next entry of its body, which is a call  *)
(* of the kind given.                                                      *)
Performing(t, call) ==
  /\ At(t, "exec") /\ t \notin to_yield
  /\ at[t] <= Len(Body[t]) /\ Body[t][at[t]][1] = call
  /\ UNCHANGED jobs

Argument(t) == Body[t][at[t]][2]
Advance(t)  == at' = [at EXCEPT ![t] = @ + 1]

(* A thread suspended by this step will look for asynchronous signals on   *)
(* its way back, thread_start() sees to it.  Where no thread enables them  *)
(* it finds nothing to do, and the look is left out.                       *)
Leaves ==
  drain' = [t \in All |->
              IF Listeners # {} /\ Len(frames'[t]) > Len(frames[t])
              THEN <<[at |-> "check", read |-> 0]>> \o drain[t]
              ELSE drain[t]]

Signals(t) ==
  /\ Performing(t, "signal") /\ Advance(t)
  /\ ThreadSignal(Argument(t))
  /\ signals' = [signals EXCEPT ![Argument(t)] = @ + 1]
  /\ Leaves
  /\ UNCHANGED <<tokenVars, queueVars, signalVars>>

Unblocks(t) ==
  /\ Performing(t, "unblock") /\ Advance(t)
  /\ ThreadUnblock(Argument(t), queue_last_input)
  /\ Leaves
  /\ UNCHANGED <<signals, patternVars, tokenVars, queueVars, signalVars>>

Takes(t) ==
  /\ Performing(t, "P") /\ Advance(t)
  /\ Sem!P(Argument(t))
  /\ Leaves
  /\ UNCHANGED <<signals, patternVars, queueVars, signalVars>>

Gives(t) ==
  /\ Performing(t, "V") /\ Advance(t)
  /\ Sem!V(Argument(t))
  /\ Leaves
  /\ UNCHANGED <<signals, patternVars, queueVars, signalVars>>

Gets(t) ==
  /\ Performing(t, "get") /\ Advance(t)
  /\ Q!Get
  /\ UNCHANGED <<signals, vars, tokenVars, signalVars, drain>>

Sets(t) ==
  /\ Performing(t, "set") /\ Advance(t)
  /\ Q!Set(jobs[t] + 1)
  /\ UNCHANGED <<signals, vars, tokenVars, signalVars, drain>>

Uses(t) ==
  /\ Performing(t, "use") /\ Advance(t)
  /\ UNCHANGED <<signals, vars, tokenVars, queueVars, signalVars, drain>>

(* Something was received, or the rest of the body is skipped.             *)
Inputs(t) ==
  /\ Performing(t, "input")
  /\ \/ Advance(t)
     \/ at' = [at EXCEPT ![t] = Len(Body[t]) + 1]
  /\ UNCHANGED <<signals, vars, tokenVars, queueVars, signalVars, drain>>

(* The rest of the body is skipped in every job but the first.             *)
OnlyOnce(t) ==
  /\ Performing(t, "first")
  /\ at' = [at EXCEPT ![t] = IF jobs[t] = 0 THEN @ + 1 ELSE Len(Body[t]) + 1]
  /\ UNCHANGED <<signals, vars, tokenVars, queueVars, signalVars, drain>>

Enables(t) ==
  /\ Performing(t, "ATS_enable") /\ Advance(t)
  /\ \/ ATS!Enable(t)
     \/ ats_active[t] = 1 /\ UNCHANGED <<kernelVars, signalVars, drain>>
  /\ UNCHANGED <<signals, patternVars, tokenVars, queueVars>>

Disables(t) ==
  /\ Performing(t, "ATS_disable") /\ Advance(t)
  /\ \/ ATS!Disable(t)
     \/ ats_active[t] = 0 /\ UNCHANGED <<kernelVars, signalVars, drain>>
  /\ UNCHANGED <<signals, patternVars, tokenVars, queueVars>>

SignalsATS(t) ==
  /\ Performing(t, "ATS_signal") /\ Advance(t)
  /\ ATS!Signal(t, Argument(t))
  /\ UNCHANGED <<signals, patternVars, tokenVars, queueVars>>

Removes(t) ==
  /\ Performing(t, "remove") /\ Advance(t)
  /\ ThreadRemove(Argument(t))
  /\ UNCHANGED <<signals, current_thread, status, timerVars, clockVars,
                 costVars, queue_last_input, frames, patternVars, tokenVars,
                 queueVars, signalVars, drain>>

(* The last entry is done: the executor returns to periodic_pattern().     *)
Ends(t) ==
  /\ ExecutorEnds(t) /\ t \notin to_yield /\ at[t] > Len(Body[t])
  /\ at' = [at EXCEPT ![t] = 1]
  /\ jobs' = [jobs EXCEPT ![t] = @ + 1]
  /\ UNCHANGED <<signals, tokenVars, queueVars, signalVars, drain>>

Executes(t) ==
  Signals(t) \/ Unblocks(t) \/ Takes(t) \/ Gives(t) \/ Gets(t) \/ Sets(t)
    \/ Uses(t) \/ Inputs(t) \/ OnlyOnce(t) \/ Enables(t) \/ Disables(t)
    \/ SignalsATS(t) \/ Removes(t)

-----------------------------------------------------------------------------
(* The rest of periodic_pattern(), the timer, and the way back from        *)
(* thread_yield(), with the loop of thread_start() on it.                  *)
Continues(t) ==
  /\ pc[t] # "exec" /\ Pattern(t)
  /\ Leaves
  /\ UNCHANGED <<bodyVars, tokenVars, queueVars, signalVars>>

Interrupted ==
  /\ Tick
  /\ Leaves
  /\ UNCHANGED <<bodyVars, tokenVars, queueVars, signalVars>>

Idles ==
  /\ MainLoop
  /\ Leaves
  /\ UNCHANGED <<bodyVars, tokenVars, queueVars, signalVars>>

Returns ==
  /\ Listeners = {} /\ Return
  /\ UNCHANGED <<bodyVars, tokenVars, queueVars, signalVars, drain>>

Activates(t) ==
  /\ \/ ATS!Resume(t)
     \/ t \in Listeners /\ (ATS!Test(t) \/ ATS!Load(t) \/ ATS!Store(t))
     \/ t \in Listeners /\ Handler[t] # "spins" /\ ATS!Handle(t)
  /\ UNCHANGED <<patternVars, bodyVars, tokenVars, queueVars>>

YieldsInCall(t) ==
  /\ ATS!YieldInCall(t)
  /\ UNCHANGED <<patternVars, bodyVars, tokenVars, queueVars>>

(* An error handler loops for ever, called for an asynchronous signal or   *)
(* by periodic_pattern().                                                  *)
SpinsForever(t) ==
  /\ \/ Spin(t)
     \/ ATS!Draining(t, "handle") /\ Handler[t] = "spins"
  /\ UNCHANGED sketchVars

SketchNext ==
  \/ Interrupted \/ Idles \/ Returns
  \/ \E t \in All : Activates(t)
  \/ \E t \in Threads :
       \/ Executes(t) \/ Ends(t) \/ Continues(t)
       \/ YieldsInCall(t) \/ SpinsForever(t)
SketchSpec == SketchInit /\ [][SketchNext]_sketchVars

-----------------------------------------------------------------------------
(* Properties                                                              *)

(* The calls made: which thread made it, in which of its jobs, and which   *)
(* entry of its body it is.                                                *)
Made(entry) ==
  {c \in UNION {{t} \X (0 .. jobs[t]) \X (1 .. Len(Body[t])) : t \in Threads} :
     /\ Body[c[1]][c[3]] = entry
     /\ c[2] < jobs[c[1]] \/ c[3] < at[c[1]]}

Total(entry) == Cardinality(Made(entry))

(* What the executors did and what the semaphores hold agree: the tokens   *)
(* of a semaphore are those it was created with and those given, less      *)
(* those taken, whoever waited for one and however often it was preempted. *)
TokensAccounted ==
  \A sem \in Sems :
    value[sem] + Total(<<"P", sem>>)
      = Tokens[sem] + Total(<<"V", sem>>) + Cardinality(Sem!Waiting(sem))

(* Two executors that put P and V around their use of shared data are      *)
(* never between the two at once.                                          *)
Between(t, sem) ==
  /\ Has(t, <<"V", sem>>)
  /\ Depth(t, sem, at[t] - 1) > 0
  /\ blocked_semaphore[t] # sem

MutualExclusion ==
  \A t, u \in Threads : \A sem \in Sems :
    Tokens[sem] = 1 /\ Between(t, sem) /\ Between(u, sem) => t = u

(* A thread never does more jobs than it was signalled, one that is only   *)
(* unblocked none; and it serves every signal if its policies are SAVE.    *)
Started(th) ==
  jobs[th] + (IF pc[th] \in {"release", "reset", "exec"} THEN 1 ELSE 0)

Served(th) ==
  jobs[th] - (IF pc[th] \in {"account", "cost", "sleep", "dec", "spin"}
              THEN 1 ELSE 0)

SavesAll(th) ==
  OverPolicy[th] = "SAVE" /\ (MitPolicy[th] = "SAVE" \/ Kind[th] = "aperiodic")

SignalsServedOnce ==
  \A th \in EventDriven :
    /\ Started(th) <= signals[th]
    /\ SavesAll(th) => Served(th) + queue_pending[th] = signals[th]

(* When a thread that alone signals itself is back from thread_ATS_signal()*)
(* its handler has been called, unless it has disabled the signals.        *)
SignalsItself(t) ==
  \A u \in Threads : Has(u, <<"ATS_signal", t>>) => u = t

OwnSignalsHandled ==
  \A t \in Listeners :
    SignalsItself(t) /\ Runs(t) /\ t \notin to_yield /\ ats_active[t] = 1
      => ats_pending[t] = 0

(* What a queue holds lies in the order it was set in, from read_index on  *)
(* and round the end of the block, however sets and gets interleave.       *)
StoredInOrder ==
  \A i \in 1 .. stored - 1 :
    elements[(read_index + i - 1) % QueueSize]
      < elements[(read_index + i) % QueueSize]

(* thread_remove() takes out of the list the thread it was called for and  *)
(* no other, wherever it stood, the rest stays in the order of creation,   *)
(* and a thread that is out, whose memory is free, asleep or preempted as  *)
(* it may have been, is never given the processor again.                   *)
Removed == {t \in Threads : Made(<<"remove", t>>) # {}}

ListInOrder ==
  \A i, j \in 1 .. Len(thread_list) : i < j =>
    \A k, l \in 1 .. Len(ThreadList) :
      thread_list[i] = ThreadList[k] /\ thread_list[j] = ThreadList[l] => k < l

RemovedStaysOut ==
  Linked = All \ Removed /\ ListInOrder /\ current_thread \in Linked
=============================================================================
