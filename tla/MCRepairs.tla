------------------------------ MODULE MCRepairs ------------------------------
(***************************************************************************)
(* Two parts that do not touch each other, one of them in each behaviour:  *)
(* the repair of what crashed processes left at a provider, and of outputs *)
(* that the cache lost.                                                    *)
(***************************************************************************)
EXTENDS RemoteLifecycle, OutputRecovery, TLC

CONSTANTS a1, a2, a3, x1

VARIABLE part

\* Producers that need each other's outputs, along two ways.
MCInputsOf == (a1 :> <<a2, a3>>) @@ (a2 :> <<a3>>) @@ (a3 :> <<a1>>)
MCWanted == {<<a1>>, <<a3, x1>>}

\* Creates that follow each other.  The credentials are interchangeable, so
\* that the process may start with any one of them.
OneAtATime == Cardinality({o \in Ops : own[o] \notin {"idle", "over"}}) <= 1

\* The part that does not run stays where it starts.
MCInit ==
  /\ Init /\ pcred = [p \in Procs |-> CHOOSE c \in Creds : TRUE]
  /\ RecoveryInit
  /\ part \in {"lifecycle", "recovery"}

MCNext ==
  \/ part = "lifecycle" /\ Next /\ OneAtATime' /\ UNCHANGED <<part, recoveryVars>>
  \/ part = "recovery" /\ RecoveryNext /\ UNCHANGED <<part, vars>>

\* The fairness of FairSpec, where that part runs.  RecoveryFairness asks for
\* nothing while no restore is under way.
MCFairness ==
  /\ WF_vars(part = "lifecycle" /\ TasksRun)
  /\ \A o \in Ops : WF_vars(part = "lifecycle" /\ Elapse(o))
  /\ \A p \in Procs : WF_vars(part = "lifecycle" /\ ProcessRuns(p))
  /\ RecoveryFairness

MCFairSpec == MCInit /\ [][MCNext]_<<part, vars, recoveryVars>> /\ MCFairness
=============================================================================
