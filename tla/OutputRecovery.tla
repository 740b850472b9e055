--------------------------- MODULE OutputRecovery ----------------------------
(***************************************************************************)
(* Recovery of outputs the cache lost (once-cli, graph/analysis/actions/   *)
(* recovery.rs): a restore that fails runs the recorded producer again, as *)
(* a task that all restores share, which restores its own inputs first.    *)
(*                                                                         *)
(* An action has one output, with its name.  A restore is followed in the  *)
(* same way for a caller and for the inputs of a repair.                   *)
(***************************************************************************)
EXTENDS Integers, Sequences, FiniteSets, SequencesExt

CONSTANTS
  Restorers,     \* callers of Repair::restore
  Producers,     \* actions that were recorded
  Orphans,       \* outputs nobody recorded producing
  Wanted,        \* what a caller may want, as sequences of outputs
  InputsOf,      \* the inputs of each producer, in their order
  MaxDepth, Executions, \* RepairLimits
  Permits,       \* bound: actions and restores the pool admits at a time
  MaxLosses      \* bound: failures, evictions and contention

Outputs == Producers \cup Orphans
Threads == Restorers \cup Producers

VARIABLES
  at, wants,   \* where a restore or repair is, and the outputs it still needs
  depth,       \* of each repair
  waits,       \* pairs of repairs: the first waits for the second
  remaining,
  admitted,    \* who holds a permit of the pool
  actionLock,  \* the lock file of each action: "free", "repair" or "other"
  stored,      \* outputs that are in the cache or in place
  losses

recoveryVars == <<at, wants, depth, waits, remaining, admitted, actionLock, stored, losses>>

RecoveryInit ==
  /\ at = [t \in Threads |-> IF t \in Restorers THEN "new" ELSE "none"]
  /\ wants = [t \in Threads |-> <<>>]
  /\ depth = [p \in Producers |-> 0] /\ waits = {}
  /\ remaining = Executions
  /\ admitted = {} /\ actionLock = [p \in Producers |-> "free"]
  /\ stored = {} /\ losses = 0

Attempting == {"whole", "single", "again"}

\* Where a restore goes on: a caller returns, a repair with its own outcome.
Restored(t) == IF t \in Restorers THEN "returned" ELSE "admission"
Failed(t) == IF t \in Restorers THEN "returned" ELSE "failed"

\* reaches: the second repair is the first or somewhere behind it.
reaches(from, to) ==
  \E path \in SeqOf(Producers, Cardinality(Producers)) :
    /\ path # <<>> /\ path[1] = from /\ Last(path) = to
    /\ \A i \in 1..(Len(path) - 1) : <<path[i], path[i + 1]>> \in waits

-----------------------------------------------------------------------------
(* restore_at *)

restore(c, outputs) ==
  /\ at[c] = "new"
  /\ at' = [at EXCEPT ![c] = "whole"] /\ wants' = [wants EXCEPT ![c] = outputs]
  /\ UNCHANGED <<depth, waits, remaining, admitted, actionLock, stored, losses>>

\* restore_attempt: acquire_materialization.
AcquireMaterialization(t) ==
  /\ at[t] \in Attempting /\ t \notin admitted
  /\ Cardinality(admitted) < Permits
  /\ admitted' = admitted \cup {t}
  /\ UNCHANGED <<at, wants, depth, waits, remaining, actionLock, stored, losses>>

\* The attempt is over.  All outputs at once, then one by one; what is not
\* there is repaired, if its producer is known, and looked at again.
Attempted(t) ==
  /\ at[t] \in Attempting /\ t \in admitted
  /\ admitted' = admitted \ {t}
  /\ LET needed == IF at[t] = "whole" THEN ToSet(wants[t]) ELSE {Head(wants[t])}
         rest == IF at[t] = "whole" THEN <<>> ELSE Tail(wants[t])
         recompute == CASE at[t] = "whole" -> "single"
                        [] at[t] = "single" /\ Head(wants[t]) \in Producers -> "repair"
                        [] OTHER -> Failed(t)
     IN \/ /\ needed \subseteq stored
           /\ wants' = [wants EXCEPT ![t] = rest]
           /\ at' = [at EXCEPT ![t] = IF rest = <<>> THEN Restored(t) ELSE "single"]
           /\ UNCHANGED losses
        \/ /\ ~ needed \subseteq stored
           /\ at' = [at EXCEPT ![t] = recompute]
           /\ UNCHANGED <<wants, losses>>
        \/ /\ losses < MaxLosses /\ losses' = losses + 1
           /\ at' \in {[at EXCEPT ![t] = recompute],   \* the cache is unavailable
                       [at EXCEPT ![t] = Failed(t)]}   \* another error
           /\ UNCHANGED wants
  /\ UNCHANGED <<depth, waits, remaining, actionLock, stored>>

\* Mutant of begin_wait: only a repair that needs itself is refused.
WaitUnlessSelf(t, p) == t # p

\* begin_wait refuses a wait that closes a cycle; a caller never does.
begin_wait(t, p) == t \in Restorers \/ ~reaches(p, t)

\* repair: the producer's repair is awaited, and spawned if there is none.
repair(t) ==
  LET p == Head(wants[t])
      level == IF t \in Restorers THEN 0 ELSE depth[t] + 1
  IN /\ at[t] = "repair"
     /\ IF level >= MaxDepth \/ ~begin_wait(t, p)
          THEN at' = [at EXCEPT ![t] = Failed(t)] /\ UNCHANGED <<depth, waits>>
          ELSE /\ at' = [at EXCEPT ![t] = "waiting",
                                   ![p] = IF @ = "none" THEN "spawned" ELSE @]
               /\ depth' = IF at[p] = "none" THEN [depth EXCEPT ![p] = level] ELSE depth
               /\ waits' = waits \cup ({t} \cap Producers) \X {p}
     /\ UNCHANGED <<wants, remaining, admitted, actionLock, stored, losses>>

\* The repair has its answer, which is everybody's.
RepairOver(t) ==
  LET p == Head(wants[t])
  IN /\ at[t] = "waiting" /\ at[p] \in {"ok", "failed"}
     /\ at' = [at EXCEPT ![t] = IF at[p] = "ok" THEN "again" ELSE Failed(t)]
     /\ waits' = waits \ {<<t, p>>}
     /\ UNCHANGED <<wants, depth, remaining, admitted, actionLock, stored, losses>>

-----------------------------------------------------------------------------
(* The task of a repair *)

\* spend_repair, and rerun up to its inputs.
StartRepair(p) ==
  /\ at[p] = "spawned"
  /\ IF remaining = 0
       THEN at' = [at EXCEPT ![p] = "failed"] /\ UNCHANGED <<wants, remaining>>
       ELSE /\ remaining' = remaining - 1
            /\ at' = [at EXCEPT ![p] = IF InputsOf[p] = <<>> THEN "admission" ELSE "whole"]
            /\ wants' = [wants EXCEPT ![p] = InputsOf[p]]
  /\ UNCHANGED <<depth, waits, admitted, actionLock, stored, losses>>

\* with_action_lock_and_permit: a permit first ...
AcquirePermit(p) ==
  /\ at[p] = "admission" /\ Cardinality(admitted) < Permits
  /\ admitted' = admitted \cup {p}
  /\ at' = [at EXCEPT ![p] = "try lock"]
  /\ UNCHANGED <<wants, depth, waits, remaining, actionLock, stored, losses>>

\* ... then the lock, without waiting for it ...
TryLock(p) ==
  /\ at[p] = "try lock"
  /\ IF actionLock[p] = "free"
       THEN /\ actionLock' = [actionLock EXCEPT ![p] = "repair"]
            /\ at' = [at EXCEPT ![p] = "running"] /\ UNCHANGED admitted
       ELSE /\ at' = [at EXCEPT ![p] = "wait lock"] /\ admitted' = admitted \ {p}
            /\ UNCHANGED actionLock
  /\ UNCHANGED <<wants, depth, waits, remaining, stored, losses>>

\* ... which is waited for without the permit (wait_for_action_lock).
WaitForLock(p) ==
  /\ at[p] = "wait lock" /\ actionLock[p] = "free"
  /\ at' = [at EXCEPT ![p] = "admission"]
  /\ UNCHANGED <<wants, depth, waits, remaining, admitted, actionLock, stored, losses>>

\* What the task holds goes with it.
Ends(p, outcome) ==
  /\ at' = [at EXCEPT ![p] = outcome]
  /\ admitted' = admitted \ {p}
  /\ actionLock' = IF at[p] = "running" THEN [actionLock EXCEPT ![p] = "free"] ELSE actionLock
  /\ waits' = {w \in waits : w[1] # p}
  /\ UNCHANGED <<wants, depth, remaining>>

\* The producer ran, and wrote what it wrote the first time.
Rerun(p) ==
  /\ at[p] = "running" /\ Ends(p, "ok")
  /\ stored' = stored \cup {p}
  /\ UNCHANGED losses

\* It did not, or the task panicked, was dropped or met its deadline.
RepairFails(p) ==
  /\ at[p] \notin {"none", "ok", "failed"} /\ Ends(p, "failed")
  /\ losses < MaxLosses /\ losses' = losses + 1
  /\ UNCHANGED stored

-----------------------------------------------------------------------------
(* Everybody else *)

\* A caller goes away.
DropRestore(c) ==
  /\ at[c] \notin {"new", "returned"}
  /\ at' = [at EXCEPT ![c] = "returned"] /\ admitted' = admitted \ {c}
  /\ UNCHANGED <<wants, depth, waits, remaining, actionLock, stored, losses>>

\* The cache drops an output, or gets one from elsewhere.
CacheChanges(o) ==
  /\ losses < MaxLosses /\ losses' = losses + 1
  /\ stored' = IF o \in stored THEN stored \ {o} ELSE stored \cup {o}
  /\ UNCHANGED <<at, wants, depth, waits, remaining, admitted, actionLock>>

\* Another process runs the same action.
OtherLocks(p) ==
  /\ losses < MaxLosses /\ losses' = losses + 1
  /\ actionLock[p] = "free" /\ actionLock' = [actionLock EXCEPT ![p] = "other"]
  /\ UNCHANGED <<at, wants, depth, waits, remaining, admitted, stored>>
OtherUnlocks(p) ==
  /\ actionLock[p] = "other" /\ actionLock' = [actionLock EXCEPT ![p] = "free"]
  /\ UNCHANGED <<at, wants, depth, waits, remaining, admitted, stored, losses>>

ThreadStep(t) == Attempted(t) \/ repair(t) \/ RepairOver(t)
TaskStep(p) == StartRepair(p) \/ TryLock(p) \/ WaitForLock(p) \/ Rerun(p)

RecoveryNext ==
  \/ \E c \in Restorers : DropRestore(c) \/ \E outputs \in Wanted : restore(c, outputs)
  \/ \E t \in Threads : AcquireMaterialization(t) \/ ThreadStep(t)
  \/ \E p \in Producers : AcquirePermit(p) \/ TaskStep(p) \/ RepairFails(p)
  \/ \E o \in Outputs : CacheChanges(o)
  \/ \E p \in Producers : OtherLocks(p) \/ OtherUnlocks(p)

\* The scheduler goes on while a task can, the pool admits while it has a
\* permit, and producers and other processes end.  No task is promised a turn
\* of its own.
Going ==
  \/ \E t \in Threads : AcquireMaterialization(t) \/ ThreadStep(t)
  \/ \E p \in Producers : AcquirePermit(p) \/ TaskStep(p) \/ OtherUnlocks(p)
RecoveryFairness == WF_recoveryVars(Going)

-----------------------------------------------------------------------------
(* Properties *)

Resting == {"new", "returned", "none", "ok", "failed"}

\* Every restore returns and every repair has an answer, although repairs are
\* shared, wait for each other, compete for permits and locks, and the recorded
\* producers may need each other's outputs.
RestoresEnd == (\E t \in Threads : at[t] \notin Resting) ~> (\A t \in Threads : at[t] \in Resting)
=============================================================================
