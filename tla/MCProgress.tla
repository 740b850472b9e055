----------------------------- MODULE MCProgress ------------------------------
(***************************************************************************)
(* Three parts that do not touch each other, one of them in each           *)
(* behaviour: the resource pool and the probe of the remote cache, whose   *)
(* callers must not wait forever, and the loss intervals.                  *)
(***************************************************************************)
EXTENDS MCResourcePool, RemoteProbe, LossIntervals

VARIABLE part

FairRequests == {Ask(1, 1, 0), Ask(2, 1, 0)}

allVars == <<part, vars, probeVars, lossVars>>

\* The parts that do not run stay where they start, where no fairness
\* condition applies to them.
MCInit ==
  /\ Init /\ ProbeInit /\ LossInit
  /\ part \in {"pool", "probe", "loss"}

MCNext ==
  \/ part = "pool" /\ Next /\ UNCHANGED <<part, probeVars, lossVars>>
  \/ part = "probe" /\ ProbeNext /\ UNCHANGED <<part, vars, lossVars>>
  \/ part = "loss" /\ LossNext /\ UNCHANGED <<part, vars, probeVars>>

MCFairSpec == MCInit /\ [][MCNext]_allVars /\ Fairness /\ ProbeFairness
=============================================================================
