--------------------------- MODULE PlanScheduler ---------------------------
(***************************************************************************)
(* Runner::run_plan: the validation of a plan and the scheduler that runs  *)
(* it, from plan/topology.rs and plan/scheduler.rs of once-core.           *)
(*                                                                         *)
(* A plan is a vector of nodes, each with a vector of dependency indices   *)
(* that may repeat, point outside the plan or form a cycle.  The queue of  *)
(* ready nodes is kept as a set: the model may launch any ready node next, *)
(* the code launches the one that became ready first.                      *)
(***************************************************************************)
EXTENDS Naturals, FiniteSets, Sequences

CONSTANTS
  Nodes,        \* the indices of the nodes
  Plans,        \* the dependency vectors a plan may have
  MaxInFlight   \* Runner::max_parallel_plan_tasks

ASSUME NodesFinite == IsFiniteSet(Nodes)
ASSUME PlansTyped  == \A d \in Plans : DOMAIN d = Nodes /\ \A n \in Nodes : d[n] \in Seq(Nat)
ASSUME WindowNat   == MaxInFlight \in Nat

VARIABLES
  deps,        \* the plan being run
  stage,       \* "validate", "run" or "returned"
  remaining,   \* Topology.remaining, or the copy of it that validate works on
  ready,       \* nodes whose dependencies are all complete
  visited,     \* nodes popped by validate
  running,     \* nodes of the JoinSet
  outcomes,    \* nodes whose outcome was recorded
  aborted,     \* whether a failure was recorded
  result       \* what run returned: "none", "bad", "cycle", "error", "ok" or "panic"

planVars == <<deps, stage, remaining, ready, visited, running, outcomes, aborted, result>>

\* The positions of n's dependency vector that name a node outside done.
Pending(d, n, done) == {k \in DOMAIN d[n] : d[n][k] \notin done}
\* How often n names i.
Times(d, n, i) == Cardinality({k \in DOMAIN d[n] : d[n][k] = i})

\* Mutant: a dependency named twice is counted once.
DepCountDistinct(d) == [n \in Nodes |-> Cardinality({d[n][k] : k \in DOMAIN d[n]})]

DepCount(d) == [n \in Nodes |-> Len(d[n])]
Roots(d) == {n \in Nodes : Len(d[n]) = 0}
BadDep(d) == \E n \in Nodes : \E k \in DOMAIN d[n] : d[n][k] \notin Nodes
Window == IF MaxInFlight = 0 THEN 1 ELSE MaxInFlight

PlanInit ==
  /\ deps \in Plans
  /\ remaining = DepCount(deps)
  /\ ready = Roots(deps)
  /\ visited = {} /\ running = {} /\ outcomes = {} /\ aborted = FALSE
  /\ \/ /\ BadDep(deps)
        /\ stage = "returned" /\ result = "bad"
     \/ /\ ~BadDep(deps)
        /\ stage = "validate" /\ result = "none"

\* The loop over the dependents of i: one decrement for each time a node
\* names i, and a node whose count arrives at zero is ready.
ReleaseDependents(i) ==
  /\ remaining' = [n \in Nodes |-> remaining[n] - Times(deps, n, i)]
  /\ ready' = (ready \ {i})
       \cup {n \in Nodes : Times(deps, n, i) > 0 /\ remaining[n] = Times(deps, n, i)}

\* Topology::validate pops a node that waits for nothing.
Visit(i) ==
  /\ stage = "validate" /\ i \in ready
  /\ visited' = visited \cup {i}
  /\ ReleaseDependents(i)
  /\ UNCHANGED <<deps, stage, running, outcomes, aborted, result>>

\* Nothing is left to pop: a node that was not visited is on or behind a cycle.
Validated ==
  /\ stage = "validate" /\ ready = {}
  /\ IF visited # Nodes
       THEN stage' = "returned" /\ result' = "cycle" /\ UNCHANGED <<remaining, ready>>
       ELSE /\ stage' = "run" /\ UNCHANGED result
            /\ remaining' = DepCount(deps) /\ ready' = Roots(deps)
  /\ UNCHANGED <<deps, visited, running, outcomes, aborted>>

CanLaunch == ~aborted /\ Cardinality(running) < Window /\ ready # {}

Launch(i) ==
  /\ stage = "run" /\ CanLaunch /\ i \in ready
  /\ running' = running \cup {i} /\ ready' = ready \ {i}
  /\ UNCHANGED <<deps, stage, remaining, visited, outcomes, aborted, result>>

\* Mutant: a failed node makes its dependents ready like any other.
JoinRegardless(i, ok) ==
  /\ stage = "run" /\ ~CanLaunch /\ i \in running
  /\ running' = running \ {i} /\ outcomes' = IF ok THEN outcomes \cup {i} ELSE outcomes
  /\ ReleaseDependents(i)
  /\ UNCHANGED <<deps, stage, visited, aborted, result>>

\* join_next hands over node i once nothing more can be launched.  A node that
\* errors, exits with a nonzero code or panics aborts the plan; one that
\* succeeds is recorded, and makes dependents ready unless the plan is aborted.
Join(i, ok) ==
  /\ stage = "run" /\ ~CanLaunch /\ i \in running
  /\ running' = running \ {i}
  /\ IF ok
       THEN /\ outcomes' = outcomes \cup {i} /\ UNCHANGED aborted
            /\ IF aborted THEN UNCHANGED <<remaining, ready>> ELSE ReleaseDependents(i)
       ELSE aborted' = TRUE /\ UNCHANGED <<outcomes, remaining, ready>>
  /\ UNCHANGED <<deps, stage, visited, result>>

\* The JoinSet is empty.  Without a failure every outcome is unwrapped, which
\* panics on a node that never ran.
Return ==
  /\ stage = "run" /\ ~CanLaunch /\ running = {}
  /\ stage' = "returned"
  /\ result' = IF aborted THEN "error" ELSE IF outcomes = Nodes THEN "ok" ELSE "panic"
  /\ UNCHANGED <<deps, remaining, ready, visited, running, outcomes, aborted>>

PlanNext ==
  \/ \E i \in Nodes : Visit(i) \/ Launch(i) \/ \E ok \in BOOLEAN : Join(i, ok)
  \/ Validated
  \/ Return

PlanSpec == PlanInit /\ [][PlanNext]_planVars

-----------------------------------------------------------------------------
PlanTypeOK ==
  /\ deps \in Plans
  /\ stage \in {"validate", "run", "returned"}
  /\ result \in {"none", "bad", "cycle", "error", "ok", "panic"}
  /\ remaining \in [Nodes -> Nat]
  /\ ready \subseteq Nodes /\ visited \subseteq Nodes
  /\ running \subseteq Nodes /\ outcomes \subseteq Nodes
  /\ aborted \in BOOLEAN

\* "Indices of actions that must succeed before this action runs": a node that
\* was spawned has only dependencies whose success was recorded, although a
\* dependency may be named twice, finish while others run, or fail.
DependenciesFirst ==
  \A n \in running \cup outcomes : \A k \in DOMAIN deps[n] : deps[n][k] \in outcomes

\* "validated DAG must populate every outcome": run never unwraps the outcome
\* of a node that did not run, because validate refused every plan in which
\* some nodes wait for each other.
NeverPanics == result # "panic"

\* "After the first failure, wait for in-flight actions without launching more."
NothingAfterFailure == [][aborted => running' \subseteq running]_planVars
=============================================================================
