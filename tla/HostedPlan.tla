----------------------------- MODULE HostedPlan -----------------------------
(***************************************************************************)
(* A plan run by Runner::run_plan on the executors of once-core: the       *)
(* scheduler of PlanScheduler launches a node, the adapter of its executor *)
(* takes it through HostedExecution, and the scheduler joins it when the   *)
(* adapter returns, possibly before the tasks it left behind have ended.   *)
(***************************************************************************)
EXTENDS PlanScheduler, HostedExecution

ASSUME SameActions == Actions = Nodes

vars == <<planVars, hostedVars>>

Init == PlanInit /\ HostedInit

Schedule == ((\E i \in Nodes : Visit(i)) \/ Validated \/ Return) /\ UNCHANGED hostedVars
Spawn(a) == Launch(a) /\ Start(a)
JoinNext == \E a \in Nodes : Ended(a) /\ Join(a, ~failed[a]) /\ UNCHANGED hostedVars
Work     == HostedStep /\ UNCHANGED planVars

Next == Schedule \/ (\E a \in Nodes : Spawn(a)) \/ JoinNext \/ Work

Spec == Init /\ [][Next]_vars

(* The scheduler and the spawned actions are polled, blocking tasks end,     *)
(* providers answer, and a semaphore wakes the head of its queue.  No budget *)
(* has to run out and no call has to fail.  Every action takes finitely many *)
(* steps, so fairness to all of them together is enough.                     *)
Progress ==
  \/ Schedule \/ (\E a \in Nodes : Spawn(a)) \/ JoinNext
  \/ /\ (\E a \in Actions : Proceed(a) \/ Background(a)) \/ (\E p \in Pools : Grant(p))
     /\ UNCHANGED planVars

Fairness == WF_vars(Progress)

FairSpec == Spec /\ Fairness

-----------------------------------------------------------------------------
\* run_plan returns: no order in which actions of different executors acquire
\* their permits, wait behind each other, fail or leave tasks behind makes the
\* scheduler wait forever.
PlanReturns == <>(stage = "returned")

\* Once the plan has returned, every permit comes back, also the ones kept by
\* blocking tasks, create tasks and cleanups that outlive their action.
PermitsComeBack == stage = "returned" ~> \A a \in Actions, p \in Pools : held[a][p] = Nothing
=============================================================================
