-------------------------- MODULE MCRemoteLifecycle --------------------------
(***************************************************************************)
(* Two parts that do not touch each other, one of them in each behaviour:  *)
(* sandboxes created at a provider, and groups of processes started here.  *)
(***************************************************************************)
EXTENDS RemoteLifecycle, ProcessGroups, TLC

VARIABLE part

allVars == <<part, vars, processVars>>

Symmetry == Permutations(Procs) \cup Permutations(Ops)

\* What the safety run explores: one create with every fault, or two with no
\* fault and one credential that compete for the journal's last slot.
Scope ==
  \/ Cardinality({o \in Ops : own[o] # "idle"}) <= 1
  \/ faults = 0 /\ \A p, q \in Procs : pcred[p] = pcred[q]

\* Two actions and one signal, or one action and two.
GroupScope == spawns + signals <= 3

\* The part that does not run stays where it starts.
MCInit ==
  /\ Init /\ ProcessInit
  /\ part \in {"sandboxes", "groups"}
  /\ part = "groups" => pcred = [p \in Procs |-> CHOOSE c \in Creds : TRUE]

MCNext ==
  \/ part = "sandboxes" /\ Next /\ Scope' /\ UNCHANGED <<part, processVars>>
  \/ part = "groups" /\ ProcessNext /\ GroupScope' /\ UNCHANGED <<part, vars>>

MCSpec == MCInit /\ [][MCNext]_allVars
=============================================================================
