--------------------------- MODULE BuildScheduler ---------------------------
(***************************************************************************)
(* The scheduler of graph targets (commands/graph/analysis/scheduler.rs,   *)
(* scheduler/state.rs and scheduler/ranking.rs): targets whose             *)
(* dependencies are complete are started, the longest remaining chain      *)
(* first, and an outcome is dropped when its last reader has started.      *)
(*                                                                         *)
(* A graph gives each target its dependencies, in `deps` and then role by  *)
(* role; one may be named several times.  Building a target, its deferred  *)
(* outputs included (module DeferredOutputs), is one step of its task.     *)
(***************************************************************************)
EXTENDS Integers, Sequences, FiniteSets
LOCAL INSTANCE FiniteSetsExt
LOCAL INSTANCE SequencesExt

CONSTANTS
    Graphs,       \* graphs: [target |-> its dependencies, in order]
    Plain,        \* targets of a kind without an implementation
    MaxInFlight   \* resources.max_parallel_actions()

VARIABLES
    graph,
    reachable,    \* what is built
    retained,     \* targets whose outcome the caller wants
    remaining_deps, remaining_readers,
    startable,    \* BuildState.ready
    building,     \* the JoinSet: [target |-> "running", "built" or "failed"]
    outcomes, completed,
    buildResult   \* what run returned

buildVars == <<graph, reachable, retained, remaining_deps, remaining_readers, startable,
               building, outcomes, completed, buildResult>>

Targets == DOMAIN graph

dependency_ids(t) == ToSet(graph[t])

(* reachable_analysis_targets_from *)
ReachableFrom(roots) ==
    LET From[n \in 0 .. Cardinality(Targets)] ==
            IF n = 0 THEN roots
            ELSE From[n - 1] \cup (UNION {dependency_ids(t) : t \in From[n - 1]} \ Plain)
    IN  From[Cardinality(Targets)]

(* The dependencies of t that are built, a repeated one as often as named. *)
Built(t) == SelectSeq(graph[t], LAMBDA d : d \in reachable)

Dependents(t) == {d \in reachable : t \in ToSet(Built(d))}

Named(t, d) == Cardinality({i \in DOMAIN Built(d) : Built(d)[i] = t})

(* Mutant: a target that names a dependency twice is counted once. *)
ReadersOnce(t) == Cardinality(Dependents(t))

Readers(t) == MapThenSumSet(LAMBDA d : Named(t, d), Dependents(t))

(* critical_depths: the targets whose chains of dependents are shorter      *)
(* than n; those of a cycle are never ranked.                               *)
Ranked ==
    LET Shorter[n \in 0 .. Cardinality(reachable)] ==
            IF n = 0 THEN {} ELSE {t \in reachable : Dependents(t) \subseteq Shorter[n - 1]}
    IN  Shorter

critical_depths ==
    [t \in reachable |-> Min({n \in DOMAIN Ranked : t \in Ranked[n]})]

Cyclic == Ranked[Cardinality(reachable)] # reachable

BuildInit ==
    /\ graph \in Graphs
    /\ \E root \in Targets \ Plain :
          \/ /\ reachable = ReachableFrom({root})
             /\ retained = {root}
          \/ /\ reachable = ReachableFrom(dependency_ids(root) \ Plain)
             /\ retained = dependency_ids(root) \ Plain
             /\ reachable # {}
    /\ remaining_deps = [t \in reachable |-> Len(Built(t))]
    /\ remaining_readers =
          [t \in reachable |-> Readers(t) + IF t \in retained THEN 1 ELSE 0]
    /\ startable = {t \in reachable : Built(t) = <<>>}
    /\ building = <<>>
    /\ outcomes = {}
    /\ completed = 0
    /\ buildResult = IF Cyclic THEN "cyclic" ELSE "none"

-----------------------------------------------------------------------------
InFlight == DOMAIN building

CanSpawn == Cardinality(InFlight) < MaxInFlight /\ startable # {}

(* BinaryHeap<(usize, Reverse<String>)>: the deepest, of these the first. *)
NextTarget ==
    CHOOSE t \in startable : \A o \in startable \ {t} :
        \/ critical_depths[t] > critical_depths[o]
        \/ critical_depths[t] = critical_depths[o] /\ t < o

(* read_dependency: takes the outcome with the last read, copies it before. *)
read_dependency(s, d) ==
    IF ~s.ok \/ s.readers[d] = 0 \/ d \notin s.outcomes THEN [s EXCEPT !.ok = FALSE]
    ELSE [ok |-> TRUE,
          readers |-> [s.readers EXCEPT ![d] = @ - 1],
          outcomes |-> IF s.readers[d] = 1 THEN s.outcomes \ {d} ELSE s.outcomes]

dependency_inputs(t) ==
    FoldLeft(read_dependency,
             [ok |-> TRUE, readers |-> remaining_readers, outcomes |-> outcomes],
             Built(t))

spawn_ready ==
    /\ buildResult = "none"
    /\ CanSpawn
    /\ LET t == NextTarget
           read == dependency_inputs(t)
       IN  /\ startable' = startable \ {t}
           /\ remaining_readers' = read.readers
           /\ outcomes' = read.outcomes
           /\ IF read.ok
              THEN /\ building' = [o \in InFlight \cup {t} |->
                                      IF o = t THEN "running" ELSE building[o]]
                   /\ UNCHANGED buildResult
              ELSE /\ building' = <<>>
                   /\ buildResult' = "internal"
    /\ UNCHANGED <<graph, reachable, retained, remaining_deps, completed>>

(* A task ends, at any time. *)
EndBuild(t) ==
    /\ building[t] = "running"
    /\ \E how \in {"built", "failed"} : building' = [building EXCEPT ![t] = how]
    /\ UNCHANGED <<graph, reachable, retained, remaining_deps, remaining_readers,
                   startable, outcomes, completed, buildResult>>

record_completion(t) ==
    LET left == [o \in reachable |-> remaining_deps[o] - Named(t, o)] IN
    /\ outcomes' = outcomes \cup {t}
    /\ completed' = completed + 1
    /\ remaining_deps' = left
    /\ startable' = startable \cup {o \in Dependents(t) : left[o] = 0}

JoinBuild(t) ==
    /\ buildResult = "none"
    /\ ~CanSpawn
    /\ building[t] = "built"
    /\ record_completion(t)
    /\ building' = [o \in InFlight \ {t} |-> building[o]]
    /\ UNCHANGED <<graph, reachable, retained, remaining_readers, buildResult>>

(* An error leaves run, and drops the tasks that are still in the set. *)
JoinFailure(t) ==
    /\ buildResult = "none"
    /\ ~CanSpawn
    /\ building[t] = "failed"
    /\ buildResult' = "failed"
    /\ building' = <<>>
    /\ UNCHANGED <<graph, reachable, retained, remaining_deps, remaining_readers,
                   startable, outcomes, completed>>

ReturnBuild ==
    /\ buildResult = "none"
    /\ ~CanSpawn
    /\ InFlight = {} \/ completed = Cardinality(reachable)
    /\ buildResult' = IF completed = Cardinality(reachable) THEN "ok" ELSE "stalled"
    /\ UNCHANGED <<graph, reachable, retained, remaining_deps, remaining_readers,
                   startable, building, outcomes, completed>>

BuildNext ==
    \/ spawn_ready
    \/ \E t \in InFlight : EndBuild(t) \/ JoinBuild(t) \/ JoinFailure(t)
    \/ ReturnBuild

BuildSpec == BuildInit /\ [][BuildNext]_buildVars

-----------------------------------------------------------------------------
Started == {t \in reachable : remaining_deps[t] = 0} \ startable
Complete == IF buildResult = "none" THEN Started \ InFlight ELSE {}

(* An outcome is kept exactly as long as somebody may still read it: a      *)
(* dependent that has not started, or the caller, and one without readers   *)
(* to the end.  So no read finds it missing or its readers used up, however *)
(* often a dependency is named and whatever order targets finish in, and an *)
(* acyclic graph never leaves the scheduler with nothing to do before       *)
(* everything is built (read_dependency, record_completion).                *)
ReadersServed ==
    /\ buildResult \notin {"internal", "stalled"}
    /\ buildResult = "none" =>
          outcomes = {t \in Complete : \/ t \in retained
                                       \/ Dependents(t) = {}
                                       \/ ~(Dependents(t) \subseteq Started)}
    /\ buildResult = "ok" => retained \subseteq outcomes
=============================================================================
