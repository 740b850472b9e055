---------------------------- MODULE MCHostedPlan ----------------------------
(***************************************************************************)
(* Small instances of HostedPlan: four actions, a remote quota and a      *)
(* Docker worker for one of them, and staging budgets that cannot serve    *)
(* two actions at once.                                                    *)
(***************************************************************************)
EXTENDS HostedPlan

MCNodes == 0..3

\* Four independent nodes, more than the window; a diamond; a node that names one of
\* two dependencies twice; a cycle behind a root; an index outside the plan.
MCPlans == { <<<<>>, <<>>, <<>>, <<>>>>, <<<<>>, <<0>>, <<0>>, <<1, 2>>>>,
             <<<<>>, <<>>, <<0, 0, 1>>, <<>>>>, <<<<>>, <<2, 0>>, <<1>>, <<>>>>, <<<<>>, <<4>>, <<>>, <<>>>> }
MCDeps == {[n \in MCNodes |-> p[n + 1]] : p \in MCPlans}
Flat == {[n \in MCNodes |-> <<>>]}

\* Node 3 is a local command.
Mix(k0, k1, k2) == [n \in MCNodes |-> <<k0, k1, k2, "local">>[n + 1]]
MCMixes == {Mix("e2b", "e2b", "download"), Mix("docker", "docker", "local"),
            Mix("daytona", "docker", "e2b"), Mix("tuist", "local", "local")}
DockerMix == {Mix("docker", "docker", "docker")}
TuistMix == {Mix("tuist", "tuist", "e2b")}

Units(remote, host, worker, slot, transfer, capture) ==
  [p \in Pools |-> CASE p = "remote" -> remote [] p = "host" -> host [] p = "worker" -> worker
                     [] p = "slot" -> slot [] p = "transfer" -> transfer [] p = "capture" -> capture]
Scarce == Units(1, 3, 1, 1, 2, 1)
Ample  == Units(3, 3, 3, 3, 2, 1)

\* The outputs of node 1 exceed the transfer budget.
MCOutput == [n \in MCNodes |-> IF n = 1 THEN 2 ELSE 1]
SmallOutput == [n \in MCNodes |-> 1]
=============================================================================
