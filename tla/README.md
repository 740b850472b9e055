# A verification development for `once`

`once` runs build actions, caches their results by content, runs some of them on
hosted sandboxes, and streams what happens to an event service. This directory holds
TLA+ models of the parts of it that are concurrent, durable or distributed, the TLC
configurations that check them, and proofs that TLAPS checks. `PROJECT.json` maps each
definition to the lines it models and lists components, runs, hazards, findings and
theorems.

1. [Inventory](#1-inventory)
2. [Modules](#2-modules)
3. [Runs, bounds and what they show](#3-runs-bounds-and-what-they-show)
4. [Fairness](#4-fairness)
5. [Proofs](#5-proofs)
6. [Findings](#6-findings)
7. [What is not modelled](#7-what-is-not-modelled)
8. [Plan](#8-plan)

To repeat a run: `tlc -workers 2 -config MCProgress.cfg MCProgress`; to check a
proof: `tlapm ComponentProofs.tla`.

## 1. Inventory

The system is a set of Rust crates. What each part keeps, does and depends on, what makes
it hard, and what being correct means for it:

| Part (crate) | State | Operations | Hard behaviour | Correct means |
|---|---|---|---|---|
| Host resource pool (`once-core/resources`) | usage per axis, queue of waiters, wakers | acquire (three forms), poll, withdraw, clone, release, dispatch | a grant and a dropped ticket race; wakers run after the mutex is released | never oversubscribed, nothing leaks, no waiter is delayed by a later one, none starves |
| Plan scheduler (`once-core/plan`) | counts, ready nodes, join set, outcomes | validate, launch, join, return | repeated dependencies, cycles, a failure while others run | dependencies first, nothing launched after a failure, no panic, the plan returns |
| Executor admission and adapters (`once-core/executor`, `remote/*`) | remote quota, worker and slot counts, transfer and capture staging, detached jobs, machines | acquire, stage, create, command, capture, install, delete | a timeout drops the caller while a blocking job or a machine goes on | detached work stays covered, permits come back, no cyclic waiting |
| Hosted sandbox lifecycle (`once-core/remote/lifecycle`) | journal of records, lock files, capacity lock | begin, mark, complete, defer, reconcile | process and machine crashes, several processes, lock files removed while open | no machine is forgotten, one owner, none deleted in use, leftovers are repaired |
| Run event delivery (`once-events-client`, `once-core/events.rs`) | bus, sequence numbers, ring, loss intervals, batch in flight | publish, receive, send, acknowledge, reconnect, stop | broken streams, late batches, overflow, shutdown and cancellation | every number accounted for, client and service agree, Ok means delivered, it ends |
| Loss intervals (`once-events-client/loss.rs`) | ordered map of intervals | record, acknowledge, snapshot, drain | merging on both sides, saturation | behaves as a set of numbers with reasons |
| Action runner (`once-core/runner.rs`) | none of its own | look up, admit, look up again, execute, store | entries evicted between check and use | an action runs or a complete result is restored |
| Store and collection (`once-cas`) | blobs, action results | put, get, forget, collect | collection beside writers, interruption | an action result never outlives blobs that the same pass removed |
| Remote cache (`once-cas/tuist`) | probe phase, flights per digest | initialise, transfer, retry | a probe that dies, cooldown, many callers | one probe, no caller waits forever, one transfer per digest |
| Graph build (`once-cli/commands/graph`) | reader counts, shared repairs, wait graph, action locks | schedule, restore, repair, materialise | repairs that need each other, overlapping outputs | no cycle of waits, no premature release, bounded repairs |
| Change tracker and receipts (`once-cli/commands/change_tracker`) | journal, generations, fences, watches | barrier, position, reuse a receipt | late and coalesced events, bounded journal | a reused receipt certifies what is on disk |
| Runtime sessions, termination, reporter (`once-cli`) | session record; one atomic | start, stop, supervise; handle, watch | three writers of one file; signal handlers | the last state wins, a caught signal is acted on |
| Front end, host tree, presentation, FFI, MCP, command line, web | caches, or none | evaluation, hashing, formatting | sequential | not for a model checker |

How they interact: the graph build and the plan scheduler run actions through the runner;
the runner admits them through the executor resources, of which the host pool is one; a
hosted adapter creates its machine through the lifecycle journal; everything publishes to
the event bus, which the reporter's transport drains into the event service.

## 2. Modules

| Module | Models | Role |
|---|---|---|
| `ResourcePool` | `resources/{pool,queue,limits,request}.rs` | component |
| `PlanScheduler` | `plan/{topology,scheduler}.rs` | component |
| `HostedExecution` | `executor/{admission,staging}.rs`, the adapters under `remote/` | component |
| `HostedPlan` | `plan.rs` (`run_plan`) | composes the two above |
| `RemoteLifecycle` | `remote/lifecycle*` | component |
| `ProcessGroups` | `local/process_group*`, `local/supervise.rs`, `termination.rs`, the watcher of `live_run_reporter.rs` | component |
| `EventSession` | `session.rs`, `buffer.rs`, the use of `loss.rs` | operators on the session |
| `EventTransport` | `transport.rs`, the bus of `events.rs` | composes session, bus, transport, stream and service |
| `LossSet`, `LossIntervals` | `loss.rs` | abstract specification and what implements it |
| `Eviction` | the plan of `gc.rs` | operators |
| `ActionCache` | `runner.rs`, `once-cas` (store, `gc.rs`, `tuist/cache.rs`) | composes runs, local store, collector and remote tier |
| `BatchDownload` | `tuist/flights.rs`, `tuist/cache/batch_download*` | component |
| `RemoteProbe` | `tuist/recovery.rs` | component |
| `ChangeTracker` | `change_tracker/*` | component |
| `BuildReceipt` | `graph/mod.rs` (`build`), `build_receipt.rs`, `source_digest_cache.rs` | composes invocations with the tracker |
| `BuildScheduler` | `analysis/scheduler*`, the reachable sets of `analysis.rs` | component |
| `DeferredOutputs` | `analysis/actions*`, `output_state.rs`, `materialization/*` | component |
| `OutputRecovery` | `analysis/actions/recovery.rs` | component |
| `Saturating` | saturating and clamped arithmetic of the sources | operators |
| `ProcessInvariant`, `RemoteInvariant`, `CacheInvariant` | | inductive invariants, definitions only |
| `ResourcePoolProofs`, `ComponentProofs` (plans, probe, loss intervals), `ProcessWorkersProofs`, `ProcessGroupsProofs`, `RemoteEntriesProofs`, `RemoteLifecycleProofs`, `EvictionProofs`, `ActionCacheProofs` | | proofs |
| `MCResourcePool`, `MCEventTransport`, `MCHostedPlan`, `MCDeferredOutputs` | | instances, and properties that sum over an instance |
| `MCPoolEventsOutputs`, `MCProgress`, `MCRemoteLifecycle`, `MCRepairs`, `MCCaches`, `MCCommands` | | several instances that share a run |

**ResourcePool.** A task is a caller with at most one ticket or permit. A request is an
amount per axis (`cpu`, `mem`, each slot name); zero of a slot means that the slot is not
mentioned. `acquire`, `acquire_required` and `acquire_client` clamp differently, as in the
code. A dispatch pass runs under `mutex`, one waiter per step (`SkipGranted`,
`GrantWaiter`, `ReserveForWaiter`, `EndPass`); `CallWaker` happens after the mutex is
released, in any order with polls (`ObserveGrant`, `Park`), with a poll nobody asked for
(`PollUnwoken`) and with `Withdraw`. `passed` is a history variable: whom a granted task
overtook.

**PlanScheduler.** `deps` is a plan's vector of dependency vectors. `Visit` and
`Validated` are `Topology::validate`; `Launch`, `Join` and `Return` are the loop of `run`.
The queue of ready nodes is a set, so the model may launch any of them next where the code
takes the oldest: every behaviour of the code is one of the model. The panic of
unwrapping an outcome that is missing is the result `"panic"`.

**HostedExecution.** Each adapter is the sequence of its steps that matter to permits:
acquire from a pool, drop, start a blocking job that owns its permits or only borrows
them, a command, create, delete, a non-waiting try. `held[a][p]` says how much of pool `p`
action `a` has, and which parties (the caller, its blocking job, its machine) keep it. A
`Timeout` or a failed call drops the caller, and what the other parties hold stays. Pools
are fair queues (`queue[p]`), as tokio's semaphore and the host pool are.

**RemoteLifecycle.** An operation is one create with its nonce. A record on disk is its
phase, `versions` are the contents a machine crash may leave, because the rename was not
followed by a directory sync yet. A lock file is the inode its path names now; removing
it leaves open handles on a file without a name, which is what `Unlink`, `Stale` and the
field `file` of a pass say. Owners and
reconciliation passes are separate tasks of several processes; the provider is external.

**ProcessGroups.** A worker thread reserves a slot of the table of atomics, spawns an
action as leader of a group, publishes its id, and later kills, unregisters and reaps it.
A handler runs on top of any thread that does not block the signal, and while it runs the
thread below it does not; it closes the table, walks it slot by slot, waits for slots that
are reserved, and ends the process, unless a watcher of a streamed run takes the signal.
A reaped id may be given to a stranger.

**EventTransport.** `stage` names the place of the transport task: `prime`, `open`,
`head`, `select`, `backoff`, `probe`, with the two drains. `wire` and `acks` are the stream,
`delayed` the batches of broken streams the service may still handle. The service
(`Disposition`, `Project`, `Serve`) is external and follows the protocol of RFC 0008, that
the client is written against. Stamps are abstracted to what `covering` tells
apart: a completion stamped before the cancellation, after it, or in the same millisecond
(`"tied"`), which counts as cancelled although it may have been published first.

**LossIntervals.** The map from first to last number with its reason, and the code's
saturating arithmetic at the top of the range. `LossSet` is what a reader expects: a set of
number-reason pairs.

**ActionCache.** A run is a call of `Runner::run_inner` in a workspace of its own: two
lookups, the check of a result's streams, restoring through staging and committing,
execution, capture blob by blob in the order of the code, and publication. Writing the
staged outputs may fail or be killed after some of them (`CommitFails`). The collector
lists results and blobs, decides, and removes file by file; it may be killed between two
removals. The remote tier loses blobs and fails calls. Modification times are positions
in a sequence of touches.

**BatchDownload.** A reader asks for one blob or for windows of several. The flight of a
digest is held by the reader or by the request queued for a batch; a batch is a task with
a transfer permit; what it cannot serve falls back to a stream under the same flight.

**RemoteProbe.** One probe at a time, on a task of its own, whose callers come, wait, are
cancelled and come again; success and refusals are kept, other failures are retried
after a cooldown that doubles up to its cap. Time passes at any point: a woken caller may
look when the cooldown is over, and then starts or awaits another probe (`expired` is the
history of who did).

**ChangeTracker, BuildReceipt.** The tracker journals what a watcher reports, late,
coalesced or not at all; sources and outputs have a journal each, which one event extends
in two steps; a barrier is answered once its sentinel was reported. An invocation takes a
position, loads the receipt and the recorded digests, returns a hit if nothing of the
target moved, and otherwise reads its sources, runs its action or restores the cached
result, records the output as it finds it, and stores both with the position it takes at
the end. An action reads the sources as they are when it runs, which need not be as they
were digested, and may write a file it does not declare. Others write sources and outputs
at any time, and an invocation may be killed at any step.

The source says two things about the order in which a watcher reports. The comment on
`DEFAULT_FENCE_TIMEOUT` (`server.rs:24-26`) argues that backends deliver in order, so that
the sentinel proves every earlier event to be journaled. The comment on the test helper
`barrier_until` (`server.rs:791-798`) says that on macOS it does not prove it for a write
to a different directory. The model has the second: `Report` keeps the order within a
directory only, and `overtaken` is the history of an invocation whose sentinel came before
an earlier write. Such an invocation may use a receipt or a digest that is out of date:
the code has no defence, so `SourcesHold` and `NoStaleDigest` leave it out, `UndisturbedHit`
counts it as a disturbance, and `OutputsHold` leaves out the outputs whose writes were
overtaken. A later invocation whose own sentinel overtakes nothing is covered by
`SourcesHold` whatever earlier ones missed.

**BuildScheduler.** `remaining_deps` and `remaining_readers` are the counts of
`BuildState::new`, over positions of the dependency lists, so a dependency named twice
counts twice. `spawn_ready` takes the deepest ready target and reads its dependencies, the
last reader taking the outcome away; `JoinBuild` records a completion only once nothing
more can be spawned, as the loop of `run` does; a failure drops what is running. Building
a target is one step of its task.

**DeferredOutputs.** One target's actions in order: batches of actions that touch nothing
in common (`take_batch`), hits whose outputs stay in the cache, the restorations before an
action that runs (`Restoration`), what a recorded outcome changes in the target's state
(`record`, `forget_replaced_materializations`, `prune_replaced_descendants`), and the
window in which restorations of what is left overlap (`AdmitRestorations`,
`CommitOutputs`). A path is the set of files under it; a blob is named by the action that
made it, so that the properties compare the disk with what the actions would have left,
had they run one after the other.

**OutputRecovery.** A restore that finds a blob missing asks for the repair of its
producer, which all restores share; a repair restores the producer's inputs first, with
the limits on depth and executions, the wait graph that refuses cycles, and the action
lock and permit it takes to execute.

## 3. Runs, bounds and what they show

A run may explore several components that do not touch each other. Each of its behaviours
then belongs to one `part`; the variables of the others keep their first value. The
properties of all parts are checked together.

Runs that pass:

| Run | Parts and bounds | What it shows |
|---|---|---|
| `pool_events_outputs` | *pool*: 3 callers with requests of their own (`Asks`), 2 wakers, 2 CPUs, 3 memory units, a slot nobody published, 2 clones | `NeverOversubscribed`, `Conservation` (usage is what holders asked for, outside a pass), `NeverDelayed` (a waiter is never blocked by those who overtook it), `NoLostWakeup`; the pool never deadlocks |
| | *events*: ring of 4, batches of 2, 4 events of four kinds with heartbeats among them, or 3 and a failure, or 2 and 2 failures (`EventScope`), 3 attempts | `Accounted` (every number is queued, acknowledged or declared lost, once), `OnlyRealLoss` (the service and the client agree, and what is declared lost was lost) |
| | *outputs*: every program of a menu of 3 or 4 actions over a tree with 2 files and 3 files beside it, 2 actions in parallel | `InputsAsProduced` (an action reads what the actions before it would have left), `FinishedAsInOrder` (so does the finished target) |
| | *targets*: graphs of 4 targets with up to 2 dependencies each, a plain fifth one, and cyclic graphs of 3; 2 builds at a time | `ReadersServed` (an outcome is kept exactly while somebody may read it, and a build is not left with nothing to do) |
| `progress` | *pool*: 3 callers, memory axis off; *probe*: 2 callers, failures counted up to 3; *loss*: numbers 0..4, 2 reasons, every sequence of calls | `EventuallyAdmitted`: a large request is not starved by small ones; `OneOutcome`, `CallersReturn`: a caller returns, and with the outcome of the probe it waited for unless a cooldown passed before it looked; `ImplementsLossSet` |
| `event_stop` | bus of 1 and ring of 2, 4 events, shutdown and cancellation at any point, 1 failure | `OkMeansDelivered`, `CompletionKept`, `StartedRunShutsDown` |
| `lifecycle_safety` | *sandboxes*: 2 processes, 2 credentials, 1 create with 2 faults of any kind or 2 creates that compete for room for 1 record; *groups*: 2 workers, 2 slots, 2 process ids, 2 signals | `Tracked`, `OneOwner`, `KeptWhileUsed`, `WithinCapacity`; `NoOrphans`, `NeverStray` |
| `repairs` | *lifecycle*: 2 creates one after the other, 1 process, 2 credentials, 1 crash, a pass budget of 1 record; *recovery*: 2 restores, 3 producers that need each other, a blob nobody can produce, 1 permit, 1 loss | `LeftBehindIsRepaired`; `RestoresEnd` |
| `cache_safety` | *cache*: 2 runs of an action with three results, 4 blobs, a cap that forces eviction, one pass of the collector, 1 fault, local or with a remote tier; *receipts*: 2 sources of which one is only rewritten as it is, 1 target, up to 3 invocations, 2 writes or mishaps, a journal of 1 record; *downloads*: 3 readers with blobs in common, batches of 2 units, 2 slots, 1 transfer, 2 upsets | `WholeOrUntouched`, `OwnersGoFirst`, `EvictionPolicy`, `PublishedIsComplete`; `SourcesHold`, `OutputsHold`, `UndisturbedHit`; `OneTransfer`, `NoReaderStuck` |
| `hosted_plan` | *plan*: 4 plans of 4 nodes, 4 mixes of executors, window 2, 2 faults; *groups*: 1 worker, 1 slot, 1 process id, a streamed run, up to 3 actions and signals together | `DependenciesFirst`, `NeverPanics`, `WritersCovered`, `MachinesWithinQuota`, `PlanReturns`, `PermitsComeBack`; `SignalHeeded` |

The five runs that are expected to end in a violation are under [Findings](#6-findings).

Why the bounds are enough to meet the interesting cases:

- *Pool.* Three tasks give a holder, a blocked waiter and one that may overtake it, and a
  withdrawal of any of them in the middle of another's pass. The code has no step that
  involves a fourth. Each caller has requests of its own, so that one of them can need
  every CPU and another most of the memory.
- *Events.* Four events, heartbeats and a log chunk of four fragments fill and overflow a
  ring of four across numbers in flight, and so do two events of which one is a log chunk;
  two failures allow a batch of the first stream to be handled after the second was opened. `MaxSeq` bounds heartbeats only; `event_stop` has
  none. With a bus of one, lag precedes every other event. `event_stop` leaves out
  cancelled runs whose stream breaks and whose last event was published.
- *Outputs.* A defect needs a producer, something that changes what it left, and a reader:
  three actions. Lists of four over trees and overlays add the case of two replacements
  before a read.
- *Targets.* A target may name another twice and a third once; five targets give two chains
  of different depth that share a dependency, and two builds at a time end in either order.
- *Lifecycle.* One operation is enough for ownership, which is per record; with two
  processes one may be restarted, so the owner meets two passes. Capacity and repair relate
  records, so they have two operations. With a pass budget of one, a record that cannot be
  resolved could hide the other, which is the hazard.
- *Groups.* Two workers and two slots: a handler on one thread walks while the other is in
  any step of starting or ending a group. One slot and one id make their reuse unavoidable.
- *Recovery.* Three producers in a cycle that is entered at two places, by two restores, are
  the smallest case in which each wait alone looks harmless.
- *Cache.* Two runs of an action that is not reproducible overwrite each other's result, and
  the second action's result shares a blob with it, so that evicting one result must not
  break the other. A fault and a pass of the collector are not both explored beside a second
  run where there is a remote tier (`CacheScope`).
- *Receipts.* Two invocations and two writes or mishaps, or three invocations and one
  (`ReceiptScope`): a receipt is written, overtaken and consulted. A journal of one record
  forgets with the second change; with two sources, what it forgot and what it kept name
  different files, so that a window taken for complete would hide one of them. At most
  three writes are unreported at a time, and a sentinel is written again next to at most one
  write or mishap.
- *Downloads.* Windows in opposite orders over two blobs, with two slots and one transfer:
  each reader can hold what another waits for. Two blobs fit a batch together, the third
  fits alone, so that a queue is split, and the fourth is streamed.
- *Plans.* They include a repeated dependency, a cycle behind a root and an index outside
  the plan. The mixes contend for one unit of the remote quota, of the Docker worker and
  of capture. A fault is a failed call, an unresolved or refused create, or a timeout.

Deadlock checking is off where the system may stop: a run that returned, a journal with
nothing to do, a build that is over. In `pool_events_outputs` it is on for the pool.

Each property is known to depend on the code: for each there is a plausible bug (a dropped
guard, a missing refund, a lost counter) under which TLC finds it violated; these
definitions are marked *Mutant* in the modules.

## 4. Fairness

- *ResourcePool.* `SF_vars(Proceed(t))`: a task that can run is polled by the executor, and
  passes are finite so the mutex is free again and again. Strong, because the mutex is
  taken and released by others in between. Holders finish their work. Nothing forces
  arrivals, withdrawals or clones.
- *RemoteProbe.* A caller is polled, and a probe ends (it has a deadline). Strong fairness
  of `Inspect` outside `probing`: a caller that keeps waiting for one probe after another is
  at some time polled before its cooldown is over. Nothing forces time to pass or keeps it
  from passing.
- *EventTransport.* Weak fairness of the task, of its observing a stop, and of the service
  answering a batch it received. No deadline is assumed to pass: `StartedRunShutsDown` says
  that the run winds up without the help of one.
- *RemoteLifecycle.* Tasks run, the provider decides about a create, time passes, and
  processes keep being started and running passes. Faults are bounded by `MaxFaults`.
- *OutputRecovery.* One weak fairness condition on all steps together: the runtime goes on
  while some task can, producers end, and other processes release their locks. No task is
  promised a turn of its own. Evictions and contention are bounded by `MaxLosses`.
- *ProcessGroups.* Weak fairness of `ThreadsRun`: threads run, and the report of a cancelled
  run has a deadline. Nothing forces an action to start or end, or a signal to come.
- *HostedPlan.* One weak fairness condition on `Progress`, all steps of the scheduler,
  callers, grants and background jobs together. Behaviours of an instance are finite, so
  this says that the system does not stop while one of these steps is possible. Timeouts
  and failures are never forced: permits come back without them.
- The other components have no fairness. That readers of the remote cache are not stuck
  (`NoReaderStuck`) and that a build is not left with nothing to do (`ReadersServed`) are
  stated as invariants.

A part that does not run stays in its first state, where none of its fairness conditions
asks for a step.

## 5. Proofs

TLAPS checks the proofs of eight modules, for every value of the constants that meets the
named assumptions. Most follow one plan: an invariant that is inductive, a lemma for each action that preserves it,
one theorem that it always holds, and the properties of the runs as corollaries.

**`ResourcePoolProofs`**, from `ConstantsAssumption` (naturals, `None` is no task and no
waker, there is a waker). `SpecInductive` establishes `Inductive`, which strengthens the
properties by three facts: a task has one ticket (`OneTicketEach`, without which removing
one ticket could remove another's), the mutex is held only by a task in a pass
(`HolderInPass`), and during a pass usage, grants of the pass and what it still sees as
free fit the limit together (`PassFits`). The last is what makes `NeverOversubscribed`
inductive: the pass decides from `free`, a copy, while usage is updated at its end. The
three corollaries are `PoolTyped`, `PoolTickets` and `PoolNeverOversubscribed`.

`PoolWakes` establishes `WakeInv` on top of it. `NoLostWakeup` speaks of granted callers;
what makes it inductive is what holds before the grant: a ticket that waits for a parked
caller has the waker of that caller's last poll (`WaitersHaveWakers`), so the waker that a
pass collects is the right one, and wakers are held only during a pass and while they are
called (`WakersAreFresh`), so none of them is left from an earlier ticket.

**`ComponentProofs`** has three components that stand alone.

*Plans*, from `NodesFinite`, `PlansTyped` and `WindowNat`. `PlanInv` says that the count of each node is the number of *positions* of its vector that name a
node that is not complete, that the nodes with count zero are the ready, running and
recorded ones, and that no nonempty set of nodes that wait for each other contains a
visited node. The last part makes `NeverPanics` provable without an induction over the
graph: if the scheduler stopped with nodes left, these would form such a set, all of
which validation visited. `PlanDependenciesFirst`, `PlanNeverPanics` and
`PlanNothingAfterFailure` follow.

*Probe*, from `CooldownAssumption` (a cooldown takes some time). `ProbeInv` adds to
`OneOutcome` that the slot is taken exactly while a probe runs (`SlotTaken`) and that a
woken caller finds what it is owed if it looks now, unless it is owed a failure whose
cooldown is over (`WaitersOwed`, `Missed`). The cooldown is needed where an outcome is
recorded: a caller that looks before time passes finds the failure, not an open slot.

*Loss intervals*, from `TopAssumption`. `LossInv` says that intervals do not
overlap and do not end before they start. With it each call is shown to do to the set of
covered numbers what the call of `LossSet` does, merging on both sides and the saturated
top included, and to give the same answer: `LossRefinement` is the whole refinement
`ImplementsLossSet`, initial states and steps.

**`ProcessWorkersProofs`, `ProcessGroupsProofs`**, from `TableAssumption` (there is a slot;
`FREE`, `RESERVED` and `Nobody` are no process ids). `ProcessInv`, in `ProcessInvariant`,
has three parts. Every slot and every group has one owner (`Owned`). The count of a slot
is at least the number of handlers between reading the slot and killing what they read
(`BusyCounts`, stated by numbering them, so that no theory of cardinalities is needed), so
a worker that finds the count at zero may reap. And a handler that is past a slot left
nothing there that runs or can still be spawned (`Swept`), because `TERMINATING` was set
before it started. `NeverStray` rests on the first two, `NoOrphans` on the last. The steps
of workers and of handlers are in one module each.

**`RemoteEntriesProofs`, `RemoteLifecycleProofs`**, from `LifecycleAssumption` (naturals;
operations, processes and `Free` are told apart). `LifecycleInv`, in `RemoteInvariant`, says
for each step of an owner's task (`TaskOK`) and of a pass (`PassOK`) what it may rely on:
the lock it holds, whether the record is there, what the sandbox can be. Its core is what
happens when a lock file is removed while others have it open. A pass may then hold a lock
on a file that has no name, while another process locks a new file of the same name;
`PassOK` says that such a pass is at an operation that is `Resolved`, whose record is gone
for good, so that reading the record sends the pass away before it has an entry.
`Tracked` needs more than the present record: no content that a machine crash may bring
back is without it (`versions`). A step of one operation leaves the others as they are
(`Same`), which is one lemma. The first module has the steps of those who have an entry,
the second the other steps of passes, crashes, and the theorems.

**`EvictionProofs`**, from `EvictionAssumption` (finitely many blobs and actions, told apart,
with sizes in the naturals). `PlanMeets` says that the plan of a pass is what
`EvictionPolicy` asks for, whatever was listed. The plan is made by recursion over two
listings, orphans and results, and adds up sizes. The library's induction theorems cannot
be instantiated, so the module proves induction for a *set* of naturals from the
well-foundedness of `<` (`LeastMember`, `Induction`), then what sums over finite sets do,
then that each tier of the plan keeps its tally right to the end of its listing.

**`ActionCacheProofs`**, from `CacheAssumption` as well (actions produce known results;
`None` is none of them). `CacheInv`, in `CacheInvariant`, has four parts: files are listed
once and an action file holds a result (`StoreOK`); what each step of a run may rely on,
such as a workspace that nothing was written to until the outputs are committed
(`RunsOK`); what is known, mapped or referenced remotely has been uploaded (`TierOK`); a
pass removes what it decided to, results before blobs, and a result it removed is gone
unless someone stored it again (`GcOK`). `WorkspaceWholeOrUntouched`,
`PublishedResultsComplete`, `PassesKeepPolicy` and `OwnersEvictedFirst` follow; the third
rests on `PlanMeets`.

`PoolTyped`, `PoolTickets`, `PlanNothingAfterFailure` and the inductive invariants are only
proved: no run repeats them.

Only model-checked:

- every liveness property, and `NoReaderStuck`, which uses `ENABLED`: out of the prover's
  reach;
- `Conservation`, `NeverDelayed`, `WritersCovered`, `MachinesWithinQuota` and
  `ReadersServed`: they are about sums and folds over sets and sequences, for which the
  inductions of `EvictionProofs` would have to be redone;
- `WithinCapacity`, which counts the records of a journal: its argument (the capacity lock
  is held from the count to the write) is a part of `LifecycleInv`, the cardinalities
  are not;
- the properties of `EventTransport`, `DeferredOutputs`, `BuildReceipt` and `BatchDownload`, whose invariants have not been strengthened to inductive ones yet.

## 6. Findings

Five runs show that the code does not do what a document, a comment or a test of the
repository says:

- `event_never_started`: `transport.rs:12` promises that the transport shuts down once the
  bus is closed. When the bus has overwritten `RunStarted`, `prime_stream` goes round
  forever, without a deadline, until a shutdown or a cancellation arrives. For runs whose
  start was received the promise holds (`StartedRunShutsDown`).
- `stale_digests`: `build` (`graph/mod.rs:278`) stamps the recorded digests with the
  tracker's last position. A source that is edited after it was digested and before that
  position is taken is behind the stamp, so the next invocation believes its old digest.
  The receipt, which compares the sources first, is not affected (`SourcesHold`).
- `overlaid_intermediate`: results that overlap "restore in order" (`analysis.rs:984`), and
  a test has a later action's file survive over an earlier action's tree. When the tree
  belongs to an intermediate action and the file does not, `PendingResults::all`
  (`actions.rs:534`) lists the file first, and an ordered action that restores both leaves
  the tree's bytes in it. The programs of `pool_events_outputs` have no such pair.
- `staging_cycle`: RFC 0014 (lines 58-59) says that separate capture and transfer pools
  prevent acquisition cycles. A Docker action that restores inputs after setup waits for
  transfer staging while it holds capture; other actions wait for capture while they hold
  the transfer staging of their input archive. The run needs budgets that two actions
  exhaust; the defaults are 8 GiB of each, with archives of up to 4 GiB and 1 GiB of capture
  for an action, so there it takes more actions. Without `timeout_ms` they wait forever.
  `hosted_plan` has no inputs to restore.
- `tuist_writer`: RFC 0014 (line 38) says that blocking file work owns its staging. The
  copy in `verified_copy` does not; after another upload of the action failed, it writes
  while its staging is granted to someone else. The tasks of `write_entry`
  (`tuist.rs:561-568`, `:644-677`) are alike. In `hosted_plan` a Tuist action is mixed
  with local ones only.

Four smaller differences have no run. `transport.rs:259`
speaks of consecutive failures where `drive` counts all failures of the run. The limit
on journal entries (`journal.rs:218`, `:237`) can be exceeded by the files a create adds
after the check. `once-cas/src/tuist/recovery.rs:11-13` says that every waiter receives the
probe's single outcome; a waiter that is polled after the cooldown of a failure starts or
awaits another probe (`:93-100`). And the two comments on the order of events quoted in
section 2 (`server.rs:24-26`, `:791-798`) disagree. The immediate flush mentioned at `transport.rs:9-12` is a matter of
timing, which the model leaves out.

## 7. What is not modelled

Left out of modelled parts:

- *Events:* credentials, capability negotiation, throttle advice, log offsets. Sizes are
  abstracted to the units that decide what fits. An event too large for the session is
  recorded as lost; that `RunStarted` or the terminal event is itself too large,
  where the error is retried and then returned, is left out. Stamps are compared, clocks that
  go back are not modelled.
- *Lifecycle:* quarantine of unreadable records, records of other scopes, temporary files,
  creates without a journal. Assumed: the settle time is longer than a create takes to be
  sent, to land and to become visible; `begin` does not spend ten minutes between
  creating the lock file and writing the record; a directory sync, best effort in the code,
  takes effect. A pass whose budget elapses during a blocking journal step is taken to
  finish that step first.
- *Groups:* time limits of `supervise` (a group may be killed at any time), the length of the
  window in which a second signal counts as a repetition, signals the parent ignores.
- *Hosted execution:* inputs have one size; one input of a Tuist action is missing
  remotely; planning the inputs, which only reads, is left out; the reconciliation before a
  create is part of the create; the writes
  of `http::download` that `tokio::fs` buffers are not followed; the host and worker pools are
  counts of equal units here (`ResourcePool` has their detail). Tuist actions are mixed with
  local ones only.
- *Plans:* which of several errors is reported.
- *Action cache:* `cache_failures`, uncached actions, observers, workspaces shared by runs,
  quarantine of corrupt files, dry runs, results without native metadata. The bytes of a
  blob that can be opened are right. Workspaces start empty. `Publish` makes its remote
  calls in one step: it may fail after any of them, but nothing of another run comes between
  them. A stream blob that is evicted after its check, before the caller reads it, is left
  out.
- *Downloads:* the staging and memory budgets and the transfer permit, taken in one order
  and dropped together, are one pool; `get_blob`, which downloads alone under the same
  flights, is left out.
- *Receipts and tracker:* the socket, how a daemon starts and idles out; environment, host
  paths and executable, compared by value; directories are files and a file's metadata is
  the number of its last write. A write to an output between its capture and the last
  position is excluded from `OutputsHold` (`meddled`): the code does not look again. Writes that a
  sentinel overtakes are excluded as section 2 says.
- *Outputs:* `PreparePath` operations, outputs of dependencies, outputs known only by a
  fingerprint, and Windows, where no two paths count as disjoint. The menu has no action
  that cleans a tree and writes only a part of it before the whole tree is read. In a
  file that a later output lies over, a reader may find that output's bytes or the tree's
  (`InputsAsProduced`), as the tests of `pending_outputs` allow.
- *Recovery:* an action has one output; fingerprints of uncached outputs, reports, and what a
  re-executed producer cleans are left out.

The parts of the system without a module are listed under `components` in `PROJECT.json`
with the reason. Most are sequential: the front end, hashing, archives, encodings,
formatting, adapters of a request to a command. They have no interleaving, failure or
long-lived state that a model checker would add to what their tests reach. Single-file
stores (evidence, memo tables) leave their guarantees to a database or to the same tracker position as the
recorded digests. The event service is external.

## 8. Plan

1. Runtime sessions (`runtime/supervisor.rs`): the starter, the supervisor and `stop` write
   one session record without a lock; the starter's late write may restore an older state.
2. Test schedules and triggers, which were not surveyed in depth.
3. A composition of `BuildScheduler`, `DeferredOutputs` and `OutputRecovery`: outputs of
   dependencies as inputs that a repair produces.
4. Proofs to follow: `HostedPlan` implements `PlanSpec`, so that the plan theorems hold of
   the composition; `Accounted` of the session; the wait graph of `OutputRecovery` stays
   acyclic; `OneTransfer` of `BatchDownload`.
