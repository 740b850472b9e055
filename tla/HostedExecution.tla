-------------------------- MODULE HostedExecution --------------------------
(***************************************************************************)
(* The permits an action holds while an executor runs it: admission        *)
(* (executor/admission.rs), the two staging budgets (executor/staging.rs)  *)
(* and the order in which each adapter of once-core acquires and drops     *)
(* them.  An adapter is the sequence of its steps that acquire a permit,   *)
(* hand one to a task that outlives the caller, or give one up.            *)
(*                                                                         *)
(* Every pool is a fair semaphore: waiters are served in arrival order and *)
(* all or nothing, so a large request at the head holds up the smaller     *)
(* ones behind it.  The host pool and Docker's pool of workers, modelled   *)
(* in full by ResourcePool, only ever see equal requests here.             *)
(***************************************************************************)
EXTENDS Naturals, Sequences, FiniteSetsExt, SequencesExt

CONSTANTS
  Actions,      \* the actions of an invocation
  Mixes,        \* the executors the actions may be bound to
  Budgeted,     \* actions that declare timeout_ms
  Capacity,     \* units of each pool
  Input,        \* units an input archive takes
  Restored,     \* units the archive of post_setup_inputs takes; 0 without any
  Output,       \* units the output archive of each action takes
  MaxArchive,   \* RemoteIoLimits.max_archive_bytes
  Capture,      \* RemoteIoLimits.max_capture_bytes
  MaxFaults     \* bound: calls that fail and commands that exit nonzero

Pools == {"remote", "host", "worker", "slot", "transfer", "capture"}
\* The pools of an ExecutionPermit and of the guards attached to it.
LeasePools == {"remote", "host", "worker"}
Kinds == {"local", "download", "e2b", "daytona", "docker", "tuist"}

ASSUME HostedAssumption ==
  /\ Mixes \subseteq [Actions -> Kinds]
  /\ Budgeted \subseteq Actions
  /\ Capacity \in [Pools -> Nat]
  /\ {Input, Restored, MaxArchive, Capture, MaxFaults} \subseteq Nat
  /\ Output \in [Actions -> Nat]

VARIABLES
  kind,      \* the executor of each action
  pc,        \* the step of its adapter an action is at; 0 before it is launched
  queue,     \* the waiters of each pool
  held,      \* what an action's permits reserve, and who keeps them
  job,       \* units a blocking task of the action is writing
  machine,   \* its sandbox: none, creating, live, deleting, recovering or lost
  failed,    \* whether it failed
  faults     \* failures so far

hostedVars == <<kind, pc, queue, held, job, machine, failed, faults>>

-----------------------------------------------------------------------------
(* The adapters.                                                           *)

Acquire(p, n) == [do |-> "acquire", pool |-> p, size |-> n]
\* A call that is awaited, after which the permit of pool p is dropped.
Drop(p) == [do |-> "drop", pool |-> p, size |-> 0]
\* Blocking work that writes what the transfer permit covers.  It owns a clone
\* of the permit and of the lease ("owned") or not ("borrowed").
Job(how, then) == [do |-> how, pool |-> then, size |-> 0]
Command(p) == [do |-> "command", pool |-> p, size |-> 0]
Create == [do |-> "create", pool |-> "none", size |-> 0]
Delete == [do |-> "delete", pool |-> "none", size |-> 0]
\* A command that either returns, which skips n steps, or asks for them.
Try(p, n) == [do |-> "try", pool |-> p, size |-> n]

\* ExecutorResources::acquire: remote first, then the host.
Admission(k) ==
  IF k \in {"e2b", "daytona", "tuist"} THEN <<Acquire("remote", 1), Acquire("host", 1)>>
                                       ELSE <<Acquire("host", 1)>>

Archive(n) == <<Acquire("transfer", n), Job("owned", "keep")>>
Install(n) == <<Acquire("transfer", n), Job("owned", "transfer")>>

E2b(a) == Archive(Input) \o <<Acquire("capture", Capture), Create, Drop("transfer"), Command("capture")>>
         \o Install(2 * Output[a]) \o <<Delete>>

Daytona(a) == Archive(Input) \o <<Create, Drop("transfer"), Command("none")>>
             \o <<Acquire("transfer", Capture), Drop("transfer")>>
             \o <<Acquire("transfer", Capture), Drop("transfer")>>
             \o Install(2 * Output[a]) \o <<Delete>>

Restore == IF Restored = 0 THEN <<>> ELSE Archive(Restored) \o <<Drop("transfer")>>
Docker == <<Command("none"), Acquire("worker", 1)>> \o Archive(Input)
            \o <<Acquire("capture", Capture), Create, Drop("transfer")>> \o Restore
            \o <<Command("capture")>> \o Install(2 * MaxArchive) \o <<Delete>>

\* One missing input file; its verified copy is made without the permit.  The
\* upload is repeated once when the service has lost the inputs meanwhile.
Upload == <<Acquire("transfer", Input), Job("borrowed", "keep"), Drop("transfer")>>
\* The outputs are staged by tasks without the permit, and installed by one that
\* owns it.
Materialize(n) == <<Acquire("transfer", n), Job("borrowed", "keep"), Job("owned", "transfer")>>
Tuist(a) == <<Acquire("capture", Capture), Acquire("slot", 1)>> \o Upload
              \o <<Try("slot", Len(Upload) + 1)>> \o Upload \o <<Command("slot")>>
              \o Materialize(2 * Output[a])

\* The response headers; then the archive and what it expands to, in one
\* request; then the body, and the extraction.
Download == <<Command("none"), Acquire("transfer", 2 * Input), Job("owned", "keep"),
              Job("owned", "transfer")>>

Adapter(a, k) == CASE k = "local" -> <<Command("none")>>
                [] k = "download" -> Download
                [] k = "e2b" -> E2b(a)
                [] k = "daytona" -> Daytona(a)
                [] k = "docker" -> Docker
                [] k = "tuist" -> Tuist(a)

Programs == [a \in Actions, k \in Kinds |-> Admission(k) \o Adapter(a, k)]
Program(a) == Programs[a, kind[a]]
Final(a) == Len(Program(a))
Running(a) == pc[a] \in 1..Final(a)
Ended(a) == pc[a] > Final(a)
Step(a) == Program(a)[pc[a]]
At(a, do) == Running(a) /\ Step(a).do = do

-----------------------------------------------------------------------------
(* Permits.  A permit is a reference-counted reservation: by is the set of *)
(* its owners, and the units return when the last of them lets go.         *)

Nothing == [size |-> 0, by |-> {}]
Share(h, who) == IF h.by = {} THEN h ELSE [h EXCEPT !.by = @ \cup {who}]
Release(h, who) == IF h.by \subseteq {who} THEN Nothing ELSE [h EXCEPT !.by = @ \ {who}]
ReleaseAll(hs, who, ps) == [p \in Pools |-> IF p \in ps THEN Release(hs[p], who) ELSE hs[p]]

Used(p) == MapThenSumSet(LAMBDA a : held[a][p].size, Actions)
Waiting(a) == \E p \in Pools : Contains(queue[p], a)

\* The action goes on at step i with permits hs; at the end it drops its own.
Goto(a, i, hs) ==
  /\ pc' = [pc EXCEPT ![a] = i]
  /\ held' = [held EXCEPT ![a] = IF i > Final(a) THEN ReleaseAll(hs, "action", Pools) ELSE hs]

\* The adapter returns early with permits hs: its waits end, its staging is
\* dropped, and a live sandbox is deleted before the action ends.
Abandon(a, hs) ==
  /\ Goto(a, IF machine[a] = "live" THEN Final(a) ELSE Final(a) + 1,
          ReleaseAll(hs, "action", Pools \ LeasePools))
  /\ queue' = [p \in Pools |-> Remove(queue[p], a)]
  /\ failed' = [failed EXCEPT ![a] = TRUE]

HostedInit ==
  /\ kind \in Mixes
  /\ pc = [a \in Actions |-> 0]
  /\ queue = [p \in Pools |-> <<>>]
  /\ held = [a \in Actions |-> [p \in Pools |-> Nothing]]
  /\ job = [a \in Actions |-> 0]
  /\ machine = [a \in Actions |-> "none"]
  /\ failed = [a \in Actions |-> FALSE]
  /\ faults = 0

-----------------------------------------------------------------------------
Start(a) ==
  /\ pc[a] = 0
  /\ Goto(a, 1, held[a])
  /\ UNCHANGED <<kind, queue, job, machine, failed, faults>>

\* Mutant: a request larger than the pool waits for its turn.
RequestWaits(a) ==
  /\ At(a, "acquire") /\ ~Waiting(a)
  /\ queue' = [queue EXCEPT ![Step(a).pool] = Append(@, a)]
  /\ UNCHANGED <<kind, pc, held, job, machine, failed, faults>>

\* Units::acquire: a request the pool can never hold fails at once.
Request(a) ==
  /\ At(a, "acquire") /\ ~Waiting(a)
  /\ IF Step(a).size > Capacity[Step(a).pool]
       THEN Abandon(a, held[a])
       ELSE /\ queue' = [queue EXCEPT ![Step(a).pool] = Append(@, a)]
            /\ UNCHANGED <<pc, held, failed>>
  /\ UNCHANGED <<kind, job, machine, faults>>

Grant(p) ==
  /\ queue[p] # <<>>
  /\ LET a == Head(queue[p])
     IN  /\ Used(p) + Step(a).size <= Capacity[p]
         /\ Goto(a, pc[a] + 1, [held[a] EXCEPT ![p] = [size |-> Step(a).size, by |-> {"action"}]])
  /\ queue' = [queue EXCEPT ![p] = Tail(@)]
  /\ UNCHANGED <<kind, job, machine, failed, faults>>

\* Mutant: the blocking task borrows the caller's permits.
Borrowed(hs, who) == hs

\* spawn_blocking with a clone of the phase permit, which holds the lease too.
OwnedBy(hs, who) == [p \in Pools |-> IF p \in LeasePools \cup {"transfer"} THEN Share(hs[p], who) ELSE hs[p]]

StartJob(a) ==
  /\ At(a, "owned") \/ At(a, "borrowed")
  /\ job[a] = 0
  /\ job' = [job EXCEPT ![a] = held[a]["transfer"].size]
  /\ held' = [held EXCEPT ![a] = IF Step(a).do = "owned" THEN OwnedBy(@, "job") ELSE @]
  /\ UNCHANGED <<kind, pc, queue, machine, failed, faults>>

\* The blocking task stops.  Its caller goes on, unless it is gone or the work
\* failed.
JobEnds(a) ==
  /\ job[a] > 0
  /\ job' = [job EXCEPT ![a] = 0]
  /\ LET done == ReleaseAll(held[a], "job", Pools)
     IN  \/ /\ At(a, "owned") \/ At(a, "borrowed")
            /\ Goto(a, pc[a] + 1, ReleaseAll(done, "action", {Step(a).pool}))
            /\ UNCHANGED <<queue, failed, faults>>
         \/ /\ At(a, "owned") \/ At(a, "borrowed")
            /\ faults < MaxFaults /\ faults' = faults + 1
            /\ Abandon(a, done)
         \/ /\ ~At(a, "owned") /\ ~At(a, "borrowed")
            /\ held' = [held EXCEPT ![a] = done]
            /\ UNCHANGED <<pc, queue, failed, faults>>
  /\ UNCHANGED <<kind, machine>>

\* A transfer or a command whose permit is dropped when it returns.
Call(a) ==
  /\ At(a, "drop") \/ At(a, "command")
  /\ Goto(a, pc[a] + 1, ReleaseAll(held[a], "action", {Step(a).pool}))
  /\ UNCHANGED <<kind, queue, job, machine, failed, faults>>

\* execute of the Tuist service: done, or the inputs are uploaded again.
Execute(a) ==
  /\ At(a, "try")
  /\ \/ Goto(a, pc[a] + 1 + Step(a).size, ReleaseAll(held[a], "action", {Step(a).pool}))
     \/ Goto(a, pc[a] + 1, held[a])
  /\ UNCHANGED <<kind, queue, job, machine, failed, faults>>

\* A transfer that fails, or a command that fails or exits nonzero; in the
\* Tuist adapter also another file, whose failure drops the copies under way.
CallFails(a) ==
  /\ Running(a) /\ Step(a).do \in {"drop", "command", "try", "borrowed"}
  /\ faults < MaxFaults /\ faults' = faults + 1
  /\ Abandon(a, held[a])
  /\ UNCHANGED <<kind, job, machine>>

\* The budget of the action, or of the download without its extraction, runs out.
Timeout(a) ==
  /\ Running(a) /\ pc[a] > Len(Admission(kind[a])) /\ Step(a).do # "delete"
  /\ \/ a \in Budgeted /\ kind[a] \in {"e2b", "daytona", "docker"}
     \/ kind[a] = "download" /\ pc[a] < Final(a)
  /\ Abandon(a, held[a])
  /\ UNCHANGED <<kind, job, machine, faults>>

-----------------------------------------------------------------------------
(* Sandboxes: lifecycle::create_owned and Cleanup.                         *)

\* Mutant: the create task does not own the lease.
LeasedByCaller(hs, who) == hs

Leased(hs, who) == [p \in Pools |-> IF p \in LeasePools THEN Share(hs[p], who) ELSE hs[p]]

CreateStarts(a) ==
  /\ At(a, "create") /\ machine[a] = "none"
  /\ machine' = [machine EXCEPT ![a] = "creating"]
  /\ held' = [held EXCEPT ![a] = Leased(@, "machine")]
  /\ UNCHANGED <<kind, pc, queue, job, failed, faults>>

\* The provider answers.  A sandbox whose creator is gone, or whose id cannot
\* be journaled, is deleted by the create task.
Created(a) ==
  /\ machine[a] = "creating"
  /\ \/ /\ At(a, "create")
        /\ machine' = [machine EXCEPT ![a] = "live"]
        /\ Goto(a, pc[a] + 1, held[a])
        /\ UNCHANGED faults
     \/ /\ IF At(a, "create") THEN faults < MaxFaults /\ faults' = faults + 1
                              ELSE UNCHANGED faults
        /\ machine' = [machine EXCEPT ![a] = "deleting"]
        /\ UNCHANGED <<pc, held>>
  /\ UNCHANGED <<kind, queue, job, failed>>

\* The task of the sandbox ends with permits hs, and so does its caller, which
\* fails, if it is still there.
TaskFails(a, hs) ==
  \/ Running(a) /\ Abandon(a, hs)
  \/ Ended(a) /\ held' = [held EXCEPT ![a] = hs] /\ UNCHANGED <<pc, queue, failed>>

\* The create or the delete has no usable answer.  Docker retains the
\* reservation until recovery finds the container gone; for the others only
\* the journal remembers the sandbox.
Unresolved(a) ==
  /\ machine[a] \in {"creating", "deleting"}
  /\ faults < MaxFaults /\ faults' = faults + 1
  /\ LET docker == kind[a] = "docker"
     IN  /\ machine' = [machine EXCEPT ![a] = IF docker THEN "recovering" ELSE "lost"]
         /\ TaskFails(a, IF docker THEN held[a] ELSE ReleaseAll(held[a], "machine", Pools))
  /\ UNCHANGED <<kind, job>>

\* The intent cannot be journaled, or the request is refused before it is sent.
CreateRefused(a) ==
  /\ machine[a] = "creating"
  /\ faults < MaxFaults /\ faults' = faults + 1
  /\ machine' = [machine EXCEPT ![a] = "none"]
  /\ TaskFails(a, ReleaseAll(held[a], "machine", Pools))
  /\ UNCHANGED <<kind, job>>

DeleteStarts(a) ==
  /\ At(a, "delete") /\ machine[a] = "live"
  /\ machine' = [machine EXCEPT ![a] = "deleting"]
  /\ UNCHANGED <<kind, pc, queue, held, job, failed, faults>>

\* Mutant: a recovered container stays in the registry of retained reservations.
ConfirmedStillRetained(a) ==
  IF machine[a] = "recovering" THEN held[a] ELSE ReleaseAll(held[a], "machine", Pools)

\* What is left of the permits when the task that deletes or recovers ends.
Confirmed(a) == ReleaseAll(held[a], "machine", Pools)

\* The provider confirms, and the cleanup task drops its lease.
Gone(a) ==
  /\ machine[a] \in {"deleting", "recovering"}
  /\ machine' = [machine EXCEPT ![a] = "none"]
  /\ \/ At(a, "delete") /\ Goto(a, pc[a] + 1, Confirmed(a)) /\ UNCHANGED <<queue, failed>>
     \/ ~At(a, "delete") /\ TaskFails(a, Confirmed(a))
  /\ UNCHANGED <<kind, job, faults>>

-----------------------------------------------------------------------------
\* What the action itself does, and what the tasks it started do.
Proceed(a) == Request(a) \/ StartJob(a) \/ Call(a) \/ Execute(a) \/ CreateStarts(a) \/ DeleteStarts(a)
Background(a) == JobEnds(a) \/ Created(a) \/ Gone(a)
Disturb(a) == CallFails(a) \/ Timeout(a) \/ CreateRefused(a) \/ Unresolved(a)

HostedStep == \/ \E a \in Actions : Proceed(a) \/ Background(a) \/ Disturb(a)
              \/ \E p \in Pools : Grant(p)
HostedSpec == HostedInit /\ [][HostedStep \/ \E a \in Actions : Start(a)]_hostedVars

\* "Blocking file/archive/install/capture work owns staging and action leases":
\* what the blocking tasks are writing fits into the transfer budget, although
\* the actions that started them may have failed or timed out.
WritersCovered == MapThenSumSet(LAMBDA a : job[a], Actions) <= Capacity["transfer"]

\* "a cancelled caller never frees quota for a machine that is still running":
\* hosted sandboxes stay within the remote quota and containers within the
\* daemon's workers.  A hosted sandbox whose create or delete had no usable
\* answer is left to the journal; a container is counted until it is gone.
MachinesWithinQuota ==
  /\ Cardinality({a \in Actions : kind[a] \in {"e2b", "daytona"}
                                  /\ machine[a] \in {"creating", "live", "deleting"}}) <= Capacity["remote"]
  /\ Cardinality({a \in Actions : kind[a] = "docker"
                                  /\ machine[a] \notin {"none", "lost"}}) <= Capacity["worker"]

Ahead(p, b, a) == \E i, j \in DOMAIN queue[p] : i < j /\ queue[p][i] = b /\ queue[p][j] = a

\* Actions that can never be served unless one of them gives up: each is behind
\* another of them in its queue, or asks for units the others keep.
Deadlocked(S) ==
  \A a \in S : \E p \in Pools :
    /\ Contains(queue[p], a)
    /\ \/ \E b \in S : Ahead(p, b, a)
       \/ Step(a).size + MapThenSumSet(LAMBDA b : held[b][p].size, S) > Capacity[p]

\* "Separate capture and transfer pools prevent acquisition cycles."
NoAcquisitionCycle == \A S \in (SUBSET Actions) \ {{}} : ~Deadlocked(S)
=============================================================================
