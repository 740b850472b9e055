---------------------------- MODULE ProcessGroups ----------------------------
(***************************************************************************)
(* The process groups of local actions, and the end of the process by a    *)
(* termination signal (once-core/src/local/process_group*,                 *)
(* once-core/src/local/supervise.rs, once-cli/src/termination.rs and the   *)
(* watcher of once-cli/src/live_run_reporter.rs).  Worker threads start    *)
(* actions as leaders of groups and record them in a table of atomics.  A  *)
(* signal handler runs on any thread that does not hold the signal, on top *)
(* of what the thread was doing, and walks that table.                     *)
(***************************************************************************)
EXTENDS Integers, Sequences, FiniteSets

CONSTANTS
  Workers, Watcher,  \* threads; the watcher streams the run
  SLOTS,             \* the table is 1..SLOTS
  Pids,              \* ids the system gives to groups, again after a reap
  MaxSpawns, MaxSignals, MaxRuns   \* bounds

VARIABLES
  SIGNALS, FIRST_CAUGHT, TERMINATING, GROUPS, BUSY,  \* the atomics
  group,             \* of an id: unused, a group with live processes, or one that was
                     \* killed and whose leader was not reaped
  worker,            \* where a worker is, with its slot and group
  watch,             \* where the watcher is
  frames,            \* the handlers on a thread, the running one last
  unreaped,          \* groups whose handle was dropped
  spawns, signals, runs,
  dead,              \* the process ended
  stray              \* history: a signal was sent to an id that was not the action's

groupVars == <<GROUPS, BUSY, group, worker, unreaped, spawns, stray>>
signalVars == <<SIGNALS, FIRST_CAUGHT, watch, signals, runs>>
processVars == <<groupVars, signalVars, TERMINATING, frames, dead>>

FREE == "free"
RESERVED == "reserved"
Nobody == "nobody"
Termination == {"INT", "TERM"}
Threads == Workers \cup {Watcher}
Idle == [pc |-> "idle", slot |-> 0, group |-> Nobody]

ASSUME TableAssumption ==
  /\ SLOTS \in Nat \ {0}
  /\ {FREE, RESERVED, Nobody} \cap Pids = {}
  /\ Watcher \notin Workers

ProcessInit ==
  /\ SIGNALS = "idle" /\ FIRST_CAUGHT = "zero" /\ TERMINATING = FALSE
  /\ GROUPS = [s \in 1..SLOTS |-> FREE] /\ BUSY = [s \in 1..SLOTS |-> 0]
  /\ group = [p \in Pids |-> "none"]
  /\ worker = [w \in Workers |-> Idle] /\ unreaped = {}
  /\ watch = "off"
  /\ frames = [t \in Threads |-> <<>>]
  /\ spawns = 0 /\ signals = 0 /\ runs = 0
  /\ dead = FALSE /\ stray = FALSE

\* A thread runs its program while no handler is on top of it.
Runs(t) == ~dead /\ frames[t] = <<>>

WorkerAt(w, pc) == Runs(w) /\ worker[w].pc = pc
WorkerGoto(w, pc) == worker' = [worker EXCEPT ![w].pc = pc]

\* TerminationSignalsHeld, from the reservation to the publication, or to the
\* end of a spawn that failed.
Held(t) == t \in Workers /\ worker[t].pc \in {"check", "spawn", "assign", "undo", "undone"}

\* kill_group with SIGKILL.
Kill(p) ==
  /\ stray' = (stray \/ group[p] = "none")
  /\ group' = [group EXCEPT ![p] = IF @ = "live" THEN "killed" ELSE @]

------------------------------------------------------------------------------
(* A worker: GroupChild::spawn, supervise, reap and drop. *)

\* Registration::reserve takes a free slot; with none it fails.
Reserve(w) ==
  /\ WorkerAt(w, "idle") /\ spawns < MaxSpawns
  /\ spawns' = spawns + 1
  /\ \/ \E s \in 1..SLOTS :
          /\ GROUPS[s] = FREE
          /\ GROUPS' = [GROUPS EXCEPT ![s] = RESERVED]
          /\ worker' = [worker EXCEPT ![w] = [pc |-> "check", slot |-> s, group |-> Nobody]]
     \/ (\A s \in 1..SLOTS : GROUPS[s] # FREE) /\ UNCHANGED <<GROUPS, worker>>
  /\ UNCHANGED <<signalVars, TERMINATING, frames, dead, BUSY, group, unreaped, stray>>

\* Mutant of CheckTerminating: the flag is not looked at.
NeverTerminating(w) ==
  /\ WorkerAt(w, "check")
  /\ WorkerGoto(w, "spawn")
  /\ UNCHANGED <<signalVars, TERMINATING, frames, dead, GROUPS, BUSY, group, unreaped,
                 spawns, stray>>

\* Once the process is ending, the reservation is given up.
CheckTerminating(w) ==
  /\ WorkerAt(w, "check")
  /\ WorkerGoto(w, IF TERMINATING THEN "undo" ELSE "spawn")
  /\ UNCHANGED <<signalVars, TERMINATING, frames, dead, GROUPS, BUSY, group, unreaped,
                 spawns, stray>>

\* The system starts the leader, which starts other processes, or fails.
SpawnLeader(w) ==
  /\ WorkerAt(w, "spawn")
  /\ \/ \E p \in Pids :
          /\ group[p] = "none"
          /\ group' = [group EXCEPT ![p] = "live"]
          /\ worker' = [worker EXCEPT ![w] = [pc |-> "assign", slot |-> @.slot, group |-> p]]
     \/ WorkerGoto(w, "undo") /\ UNCHANGED group
  /\ UNCHANGED <<signalVars, TERMINATING, frames, dead, GROUPS, BUSY, unreaped, spawns, stray>>

\* Registration::assign publishes the group; signals are no longer held.
Assign(w) ==
  /\ WorkerAt(w, "assign")
  /\ GROUPS' = [GROUPS EXCEPT ![worker[w].slot] = worker[w].group]
  /\ WorkerGoto(w, "running")
  /\ UNCHANGED <<signalVars, TERMINATING, frames, dead, BUSY, group, unreaped, spawns,
                 stray>>

\* supervise kills the group after a timeout, or when its output stays open
\* after the leader's exit, and goes on waiting.
KillGroup(w) ==
  /\ WorkerAt(w, "running")
  /\ Kill(worker[w].group)
  /\ UNCHANGED <<signalVars, TERMINATING, frames, dead, GROUPS, BUSY, worker, unreaped, spawns>>

\* reap, once the leader exited, or drop, at any time: what is left of the
\* group is killed.  A group whose leader exited is live until then.
EndGroup(w) ==
  /\ WorkerAt(w, "running")
  /\ Kill(worker[w].group)
  /\ WorkerGoto(w, "free")
  /\ UNCHANGED <<signalVars, TERMINATING, frames, dead, GROUPS, BUSY, unreaped, spawns>>

\* Registration::drop clears the slot.
FreeSlot(w) ==
  /\ WorkerAt(w, "free") \/ WorkerAt(w, "undo")
  /\ GROUPS' = [GROUPS EXCEPT ![worker[w].slot] = FREE]
  /\ WorkerGoto(w, IF worker[w].pc = "undo" THEN "undone" ELSE "freed")
  /\ UNCHANGED <<signalVars, TERMINATING, frames, dead, BUSY, group, unreaped, spawns,
                 stray>>

\* Mutant of AwaitQuiet: a handler that read the slot is not waited for.
LeaveAtOnce(w) ==
  /\ WorkerAt(w, "freed") \/ WorkerAt(w, "undone")
  /\ unreaped' = unreaped \cup ({worker[w].group} \ {Nobody})
  /\ worker' = [worker EXCEPT ![w] = Idle]
  /\ UNCHANGED <<signalVars, TERMINATING, frames, dead, GROUPS, BUSY, group, spawns,
                 stray>>

\* Registration::drop waits for handlers that may have read the slot; then the
\* leader may be reaped.
AwaitQuiet(w) ==
  /\ WorkerAt(w, "freed") \/ WorkerAt(w, "undone")
  /\ BUSY[worker[w].slot] = 0
  /\ unreaped' = unreaped \cup ({worker[w].group} \ {Nobody})
  /\ worker' = [worker EXCEPT ![w] = Idle]
  /\ UNCHANGED <<signalVars, TERMINATING, frames, dead, GROUPS, BUSY, group, spawns,
                 stray>>

\* The leader is waited for, here or by the runtime, and its id is free again.
ReapLeader(p) ==
  /\ ~dead /\ p \in unreaped
  /\ group' = [group EXCEPT ![p] = "none"]
  /\ unreaped' = unreaped \ {p}
  /\ UNCHANGED <<signalVars, TERMINATING, frames, dead, GROUPS, BUSY, worker, spawns,
                 stray>>

------------------------------------------------------------------------------
(* A handler, and terminate, which does the same after the decision. *)

Top(t) == frames[t][Len(frames[t])]
Below(t) == SubSeq(frames[t], 1, Len(frames[t]) - 1)
InFrame(t, pc) == ~dead /\ frames[t] # <<>> /\ Top(t).pc = pc
FrameGoto(t, pc) == frames' = [frames EXCEPT ![t][Len(frames[t])].pc = pc]
FrameReturn(t) == frames' = [frames EXCEPT ![t] = Below(t)]
Frame(signal, pc) == [signal |-> signal, pc |-> pc, slot |-> 1, group |-> FREE]

\* A signal is blocked on a thread while its own handler runs there.
Deliver(signal, t) ==
  /\ ~dead /\ signals < MaxSignals /\ ~Held(t)
  /\ \A i \in DOMAIN frames[t] : frames[t][i].signal # signal
  /\ signals' = signals + 1
  /\ frames' = [frames EXCEPT ![t] = Append(@, Frame(signal, "claim"))]
  /\ UNCHANGED <<groupVars, TERMINATING, SIGNALS, FIRST_CAUGHT, watch, runs, dead>>

\* handler: claims the first signal for the run that is watched, may ignore a
\* repeat of it, and otherwise ends the process.  A repeat comes before the
\* first was stamped, or within REPEAT_WINDOW_NS of that, which is not modelled.
Claim(t) ==
  /\ InFrame(t, "claim")
  /\ \/ SIGNALS = "watching" /\ SIGNALS' = Top(t).signal /\ FrameGoto(t, "stamp")
     \/ SIGNALS = Top(t).signal /\ FrameReturn(t) /\ UNCHANGED SIGNALS
     \/ /\ SIGNALS # "watching" /\ (SIGNALS = Top(t).signal => FIRST_CAUGHT # "zero")
        /\ FrameGoto(t, "flag") /\ UNCHANGED SIGNALS
  /\ UNCHANGED <<groupVars, TERMINATING, FIRST_CAUGHT, watch, signals, runs, dead>>

Stamp(t) ==
  /\ InFrame(t, "stamp")
  /\ FIRST_CAUGHT' = "stamped"
  /\ FrameReturn(t)
  /\ UNCHANGED <<groupVars, TERMINATING, SIGNALS, watch, signals, runs, dead>>

\* terminate_all: new spawns are refused before the table is walked.
SetTerminating(t) ==
  /\ InFrame(t, "flag")
  /\ TERMINATING' = TRUE
  /\ FrameGoto(t, "load")
  /\ UNCHANGED <<groupVars, signalVars, dead>>

\* The next slot, or the end of the process.
Advance(t) ==
  LET s == Top(t).slot IN
  frames' = [frames EXCEPT ![t][Len(frames[t])] =
               [signal |-> @.signal, pc |-> IF s = SLOTS THEN "die" ELSE "load",
                slot |-> s + 1, group |-> FREE]]

\* signal_all: a slot in use is marked busy before its group is read.
LoadSlot(t) ==
  /\ InFrame(t, "load")
  /\ IF GROUPS[Top(t).slot] = FREE THEN Advance(t) ELSE FrameGoto(t, "mark")
  /\ UNCHANGED <<groupVars, signalVars, TERMINATING, dead>>

MarkBusy(t) ==
  /\ InFrame(t, "mark")
  /\ BUSY' = [BUSY EXCEPT ![Top(t).slot] = @ + 1]
  /\ FrameGoto(t, "read")
  /\ UNCHANGED <<signalVars, TERMINATING, dead, GROUPS, group, worker, unreaped, spawns,
                 stray>>

\* A reserved slot is waited for.
ReadGroup(t) ==
  /\ InFrame(t, "read")
  /\ GROUPS[Top(t).slot] # RESERVED
  /\ frames' = [frames EXCEPT ![t][Len(frames[t])] =
                  [signal |-> @.signal, pc |-> "kill", slot |-> @.slot, group |-> GROUPS[@.slot]]]
  /\ UNCHANGED <<groupVars, signalVars, TERMINATING, dead>>

SignalGroup(t) ==
  /\ InFrame(t, "kill")
  /\ IF Top(t).group = FREE THEN UNCHANGED <<stray, group>> ELSE Kill(Top(t).group)
  /\ BUSY' = [BUSY EXCEPT ![Top(t).slot] = @ - 1]
  /\ Advance(t)
  /\ UNCHANGED <<signalVars, TERMINATING, dead, GROUPS, worker, unreaped, spawns>>

\* The signal's default action.
RaiseDefault(t) ==
  /\ InFrame(t, "die")
  /\ dead' = TRUE
  /\ UNCHANGED <<groupVars, signalVars, TERMINATING, frames>>

------------------------------------------------------------------------------
(* The watcher: install, recv, restore, and stream_until_signal. *)

terminate == frames' = [frames EXCEPT ![Watcher] = <<Frame("none", "flag")>>]

\* SignalWatcher::install, in its two stores.
InstallWatcher ==
  /\ Runs(Watcher)
  /\ \/ /\ watch = "off" /\ runs < MaxRuns
        /\ watch' = "arming" /\ runs' = runs + 1
        /\ FIRST_CAUGHT' = "zero" /\ UNCHANGED SIGNALS
     \/ /\ watch = "arming"
        /\ watch' = "streaming" /\ SIGNALS' = "watching"
        /\ UNCHANGED <<runs, FIRST_CAUGHT>>
  /\ UNCHANGED <<groupVars, TERMINATING, frames, dead, signals>>

\* recv: the run is cancelled, and has a bounded time to report it.
Recv ==
  /\ Runs(Watcher) /\ watch = "streaming" /\ SIGNALS \in Termination
  /\ watch' = "cancelled"
  /\ UNCHANGED <<groupVars, TERMINATING, frames, dead, SIGNALS, FIRST_CAUGHT, signals, runs>>

\* Mutant of RestoreSignals: what was caught is not looked at.
RestoreAndForget ==
  /\ Runs(Watcher) /\ watch = "streaming"
  /\ SIGNALS' = "idle" /\ watch' = "off"
  /\ UNCHANGED <<groupVars, TERMINATING, frames, dead, FIRST_CAUGHT, signals, runs>>

\* The transport ended first.  restore: a signal that was caught is acted on,
\* later ones take their default action.
RestoreSignals ==
  /\ Runs(Watcher) /\ watch = "streaming"
  /\ SIGNALS' = "idle"
  /\ watch' = IF SIGNALS \in Termination THEN "ending" ELSE "off"
  /\ IF SIGNALS \in Termination THEN terminate ELSE UNCHANGED frames
  /\ UNCHANGED <<groupVars, TERMINATING, dead, FIRST_CAUGHT, signals, runs>>

\* The report was delivered or took too long.
EndCancelled ==
  /\ Runs(Watcher) /\ watch = "cancelled"
  /\ watch' = "ending"
  /\ terminate
  /\ UNCHANGED <<groupVars, TERMINATING, dead, SIGNALS, FIRST_CAUGHT, signals, runs>>

------------------------------------------------------------------------------
WorkerRuns(w) ==
  \/ CheckTerminating(w) \/ SpawnLeader(w) \/ Assign(w) \/ FreeSlot(w) \/ AwaitQuiet(w)

Handle(t) ==
  \/ Claim(t) \/ Stamp(t) \/ SetTerminating(t) \/ LoadSlot(t) \/ MarkBusy(t) \/ ReadGroup(t)
  \/ SignalGroup(t) \/ RaiseDefault(t)

ProcessNext ==
  \/ \E w \in Workers : Reserve(w) \/ KillGroup(w) \/ EndGroup(w) \/ WorkerRuns(w)
  \/ \E t \in Threads : Handle(t) \/ \E s \in Termination : Deliver(s, t)
  \/ \E p \in Pids : ReapLeader(p)
  \/ InstallWatcher \/ Recv \/ RestoreSignals \/ EndCancelled

ProcessSpec == ProcessInit /\ [][ProcessNext]_processVars

\* Threads run, and a report of a cancelled run has a deadline.  Nothing forces
\* an action or a run to start or to end, or a signal to come.
ThreadsRun ==
  \/ \E w \in Workers : WorkerRuns(w)
  \/ \E t \in Threads : Handle(t)
  \/ Recv \/ EndCancelled

ProcessFairness == WF_processVars(ThreadsRun)

\* A process that a signal ended leaves nothing of its actions' groups behind,
\* whichever thread ran the handler and whatever was being started or stopped
\* then (terminate_all and Registration::reserve).
NoOrphans == dead => \A p \in Pids : group[p] # "live"

\* No signal reaches an id whose leader was reaped and that may be somebody
\* else's by then (signal_all against Registration::drop).
NeverStray == ~stray

\* A signal is never lost: once one was claimed or is being handled, the process
\* ends, although the run may finish and stop watching at that moment
\* (handler, recv and restore).
SignalHeeded == (SIGNALS \in Termination \/ \E t \in Threads : frames[t] # <<>>) ~> dead
=============================================================================
