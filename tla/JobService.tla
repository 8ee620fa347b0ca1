----------------------------- MODULE JobService -----------------------------
(***************************************************************************)
(* What the library promises of its periodic, sporadic and aperiodic       *)
(* threads, whatever the scheduler does: a thread does one job at a time;  *)
(* an event-driven thread starts a job only for a signal that was accepted *)
(* and that no other job has served; and two jobs of a thread with a       *)
(* period, or a minimum interarrival time, start more than that time apart.*)
(***************************************************************************)
EXTENDS Integers

CONSTANTS
  Threads,
  EventDriven,  (* the threads that wait for signals                          *)
  Separation,   (* the minimum time between two jobs, or Anytime              *)
  Anytime,
  Never         (* the start of the job of a thread that had none yet         *)

VARIABLES
  clock,
  backlog,      (* the signals accepted for jobs that have not ended          *)
  busy,         (* the threads that are doing a job                           *)
  started       (* when each thread started its last job                      *)

vars == <<clock, backlog, busy, started>>

Init ==
  /\ clock = 0
  /\ backlog = [t \in Threads |-> 0]
  /\ busy = {}
  /\ started = [t \in Threads |-> Never]

Tick ==
  /\ clock' = clock + 1
  /\ UNCHANGED <<backlog, busy, started>>

Accept(t) ==
  /\ backlog' = [backlog EXCEPT ![t] = @ + 1]
  /\ UNCHANGED <<clock, busy, started>>

Start(t) ==
  /\ t \notin busy
  /\ t \in EventDriven => backlog[t] > 0
  /\ \/ Separation[t] = Anytime
     \/ started[t] = Never
     \/ clock - started[t] > Separation[t]
  /\ busy' = busy \union {t}
  /\ started' = [started EXCEPT ![t] = clock]
  /\ UNCHANGED <<clock, backlog>>

End(t) ==
  /\ t \in busy
  /\ busy' = busy \ {t}
  /\ IF t \in EventDriven
     THEN backlog' = [backlog EXCEPT ![t] = @ - 1]
     ELSE UNCHANGED backlog
  /\ UNCHANGED <<clock, started>>

Next ==
  \/ Tick
  \/ \E t \in EventDriven : Accept(t)
  \/ \E t \in Threads : Start(t) \/ End(t)

Spec == Init /\ [][Next]_vars
=============================================================================
