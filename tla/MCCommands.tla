------------------------------ MODULE MCCommands -----------------------------
(***************************************************************************)
(* Two parts that do not touch each other, one of them in each behaviour:  *)
(* a plan of hosted actions, and the end of a process that runs actions    *)
(* itself.                                                                 *)
(***************************************************************************)
EXTENDS MCHostedPlan, ProcessGroups

VARIABLE part

\* Two actions and one signal, or one action and two.
GroupScope == spawns + signals <= 3

\* The part that does not run stays where it starts; a plan that is refused has
\* returned, and waits for nothing.
MCInit ==
  /\ Init /\ ProcessInit
  /\ part \in {"plan", "groups"}
  /\ part = "groups" => stage = "returned" /\ kind = Mix("tuist", "local", "local")

MCNext ==
  \/ part = "plan" /\ Next /\ UNCHANGED <<part, processVars>>
  \/ part = "groups" /\ ProcessNext /\ GroupScope' /\ UNCHANGED <<part, vars>>

MCFairSpec ==
  MCInit /\ [][MCNext]_<<part, vars, processVars>> /\ Fairness /\ ProcessFairness
=============================================================================
