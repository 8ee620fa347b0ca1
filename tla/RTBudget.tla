------------------------------ MODULE RTBudget ------------------------------
(***************************************************************************)
(* What the budget of a thread is about: the time the processor was with   *)
(* it.  The program has no such count.  current_cost_ticks is to be one,   *)
(* kept by differences of the tick counter at every switch; ran is what it *)
(* is held against, a history variable that no action of RTThreads reads:  *)
(* the ticks that came while the thread had the processor, since it last   *)
(* executed current_cost_ticks = 0.                                        *)
(***************************************************************************)
EXTENDS RTThreads

VARIABLE ran

Zeroes(t) == pc[t] \in {"entry", "reset"} /\ pc'[t] # pc[t]
Spends(t) == t = current_thread /\ global_tick' # global_tick

BudgetInit == Init /\ ran = [t \in Threads |-> 0]

BudgetNext ==
  /\ Next
  /\ ran' = [t \in Threads |-> IF Zeroes(t) THEN 0
                               ELSE IF Spends(t) THEN ran[t] + 1 ELSE ran[t]]

BudgetSpec == BudgetInit /\ [][BudgetNext]_<<vars, ran>>

-----------------------------------------------------------------------------
(* Properties                                                              *)

(* A thread loses its priority only when the processor has been with it    *)
(* for more than max_cost_ticks since its current_cost_ticks was set to 0: *)
(* it is charged for no other thread, whoever ran in between, and for each *)
(* tick once, whether the switch or get_current_cost_ticks() charges it.   *)
(* Up to the reset of a job that is since the reset of the job before.  A  *)
(* thread that has not executed its first current_cost_ticks = 0 is        *)
(* demoted by what malloc() left there: of it this says nothing.           *)
DemotedOnlyAfterOverrun ==
  [][\A t \in Threads :
       priority'[t] # priority[t] /\ pc[t] # "entry" =>
         ran'[t] > MaxCost[t]]_<<vars, ran>>
=============================================================================
