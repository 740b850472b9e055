--------------------------- MODULE RemoteLifecycle ---------------------------
(***************************************************************************)
(* Durable ownership of hosted sandboxes (once-core remote/lifecycle): the *)
(* journal with its records, lock files and capacity, the create task, the *)
(* cleanup, and the reconciliation pass, run by several processes of one   *)
(* workspace that may be killed, on a machine that may lose unsynced       *)
(* directory updates.  The provider is external.                           *)
(*                                                                         *)
(* An operation is one create with its nonce.  A record is its phase; the  *)
(* sandbox ids it names are never acted on, only the marker is.  The lock  *)
(* file of an operation is the inode its path names now; a task that       *)
(* opened an inode whose path has been removed since holds a stale handle. *)
(***************************************************************************)
EXTENDS Naturals, Sequences, FiniteSets

CONSTANTS
  Ops,           \* create operations
  Procs,         \* processes
  Creds,         \* provider credentials
  MaxRecords,    \* MAX_RECORDS
  MaxEntries,    \* MAX_ENTRIES
  RecordBudget,  \* Budget.records
  FaultKinds,    \* the faults that may happen
  MaxFaults,     \* bound: how many of them
  Free           \* nobody, nothing

ASSUME LifecycleAssumption ==
  /\ MaxRecords \in Nat
  /\ MaxEntries \in Nat
  /\ RecordBudget \in Nat \ {0}
  /\ MaxFaults \in Nat
  /\ FaultKinds \subseteq {"call", "crash", "machine"}
  /\ Ops \cap Procs = {}
  /\ Free \notin Procs \cup Ops

VARIABLES
  own,      \* where the task of an operation is
  owner,    \* its process
  cred,     \* Record.credential
  record,   \* "none" or the phase of the record on disk
  versions, \* what a machine crash may leave of it
  written,  \* operations by the time their record was last written
  due,      \* Record.next_check_at <= now
  settled,  \* Record.settles_at <= now
  lockPath, \* the lock file exists
  lockHolder, \* who holds the lock of the inode at its path
  capLock,  \* holder of capacity.lock
  alive, pcred, \* processes and their credentials
  rec,      \* the reconciliation pass of a process
  sandbox,  \* the sandbox with the operation's marker (external)
  faults

opVars   == <<own, owner>>
diskVars == <<cred, record, versions, written>>
timeVars == <<due, settled>>
lockVars == <<lockPath, lockHolder>>
vars == <<own, owner, cred, record, versions, written, due, settled, lockPath,
          lockHolder, capLock, alive, pcred, rec, sandbox, faults>>

Off == [pc |-> "off", todo |-> <<>>, locks |-> {}, acted |-> 0, file |-> "linked"]

Init ==
  /\ own = [o \in Ops |-> "idle"] /\ owner = [o \in Ops |-> Free]
  /\ cred = [o \in Ops |-> Free]
  /\ record = [o \in Ops |-> "none"] /\ versions = [o \in Ops |-> {"none"}]
  /\ written = <<>>
  /\ due = [o \in Ops |-> TRUE] /\ settled = [o \in Ops |-> FALSE]
  /\ lockPath = [o \in Ops |-> FALSE] /\ lockHolder = [o \in Ops |-> Free]
  /\ capLock = Free
  /\ alive = [p \in Procs |-> TRUE] /\ pcred \in [Procs -> Creds]
  /\ rec = [p \in Procs |-> Off]
  /\ sandbox = [o \in Ops |-> "none"]
  /\ faults = 0

-----------------------------------------------------------------------------
(* The journal *)

Records == {o \in Ops : record[o] # "none"}

\* Directory entries: records, locks and capacity.lock.
Entries == Cardinality(Records) + Cardinality({o \in Ops : lockPath[o]}) + 1

\* Journal::ensure_capacity
Full == Cardinality(Records) >= MaxRecords \/ Entries > MaxEntries

\* Journal::write_atomic without the directory sync: the new version replaces
\* the old one, and a machine crash may leave either.
Write(o, phase) ==
  /\ record' = [record EXCEPT ![o] = phase]
  /\ versions' = [versions EXCEPT ![o] = @ \cup {phase}]
  /\ written' = Append(SelectSeq(written, LAMBDA x : x # o), o)

\* Entry::complete removes the record; the removal is not synced.
Erase(o) ==
  /\ record' = [record EXCEPT ![o] = "none"]
  /\ versions' = [versions EXCEPT ![o] = @ \cup {"none"}]
  /\ UNCHANGED written

\* The locks once task t has dropped its handle on the lock of o.
Release(o, t) ==
  /\ lockHolder' = [lockHolder EXCEPT ![o] = IF @ = t THEN Free ELSE @]
  /\ UNCHANGED lockPath

\* Removing the lock file leaves every open handle on it stale.
Unlink(o) ==
  /\ lockPath' = [lockPath EXCEPT ![o] = FALSE]
  /\ lockHolder' = [lockHolder EXCEPT ![o] = Free]

On(p, o) == rec[p].todo # <<>> /\ Head(rec[p].todo) = o

\* The passes once the lock of o is unlinked: those that opened it keep the old file.
Opened(p) == rec[p].pc \notin {"off", "scanned", "next"}
Stale(o) ==
  [p \in Procs |-> IF Opened(p) /\ On(p, o) THEN [rec[p] EXCEPT !.file = "unlinked"] ELSE rec[p]]

\* A call that fails or whose answer is lost, a process or a machine that
\* crashes.
Fault(kind) == kind \in FaultKinds /\ faults < MaxFaults /\ faults' = faults + 1

-----------------------------------------------------------------------------
(* create_owned and create_task *)

Live(o) == owner[o] \in Procs /\ alive[owner[o]]
At(o, s) == own[o] = s /\ Live(o)
Goto(o, s) == own' = [own EXCEPT ![o] = s]

\* Mutant of Begin: the capacity lock is not taken.
BeginUnlocked(p, o) ==
  /\ alive[p] /\ own[o] = "idle"
  /\ owner' = [owner EXCEPT ![o] = p]
  /\ IF Full THEN Goto(o, "over") /\ UNCHANGED lockPath
     ELSE Goto(o, "begun") /\ lockPath' = [lockPath EXCEPT ![o] = TRUE]
  /\ UNCHANGED <<diskVars, timeVars, lockHolder, capLock, alive, pcred, rec, sandbox, faults>>

\* Journal::begin: the capacity lock, the check, and a lock file.
Begin(p, o) ==
  /\ alive[p] /\ own[o] = "idle" /\ capLock = Free
  /\ owner' = [owner EXCEPT ![o] = p]
  /\ IF Full THEN Goto(o, "over") /\ UNCHANGED <<capLock, lockPath>>
     ELSE /\ Goto(o, "begun")
          /\ capLock' = o
          /\ lockPath' = [lockPath EXCEPT ![o] = TRUE]
  /\ UNCHANGED <<diskVars, timeVars, lockHolder, alive, pcred, rec, sandbox, faults>>

\* ... taking its lock, which a scan that looks for orphans may hold ...
TakeLock(o) ==
  /\ At(o, "begun")
  /\ IF lockHolder[o] = Free
       THEN /\ lockHolder' = [lockHolder EXCEPT ![o] = o]
            /\ Goto(o, "locked") /\ UNCHANGED capLock
       ELSE Goto(o, "over") /\ capLock' = Free /\ UNCHANGED lockHolder
  /\ UNCHANGED <<owner, diskVars, timeVars, lockPath, alive, pcred, rec, sandbox, faults>>

\* ... the record ...
WriteIntent(o) ==
  /\ At(o, "locked")
  /\ Write(o, "intent")
  /\ cred' = [cred EXCEPT ![o] = pcred[owner[o]]]
  /\ Goto(o, "written")
  /\ UNCHANGED <<owner, timeVars, lockVars, capLock, alive, pcred, rec, sandbox, faults>>

WriteIntentFails(o) ==
  /\ At(o, "locked")
  /\ Fault("call")
  /\ Unlink(o) /\ rec' = Stale(o)
  /\ Goto(o, "over") /\ capLock' = Free
  /\ UNCHANGED <<owner, diskVars, timeVars, alive, pcred, sandbox>>

\* ... and the directory, whose sync makes every earlier update durable.
SyncIntent(o) ==
  /\ At(o, "written")
  /\ versions' = [x \in Ops |-> {record[x]}]
  /\ Goto(o, "ready") /\ capLock' = Free
  /\ UNCHANGED <<owner, cred, record, written, timeVars, lockVars, alive, pcred, rec,
                 sandbox, faults>>

\* create_task: the create is refused before anything is sent ...
Rejected(o) ==
  /\ At(o, "ready")
  /\ Goto(o, "complete")
  /\ UNCHANGED <<owner, diskVars, timeVars, lockVars, capLock, alive, pcred, rec, sandbox, faults>>

\* ... or sent,
Send(o) ==
  /\ At(o, "ready")
  /\ sandbox' = [sandbox EXCEPT ![o] = "pending"]
  /\ Goto(o, "sent")
  /\ UNCHANGED <<owner, diskVars, timeVars, lockVars, capLock, alive, pcred, rec, faults>>

\* and answered with the sandbox,
Answered(o) ==
  /\ At(o, "sent")
  /\ sandbox[o] = "live"
  /\ Goto(o, "made")
  /\ UNCHANGED <<owner, diskVars, timeVars, lockVars, capLock, alive, pcred, rec, sandbox, faults>>

\* or with an error that proves nothing: the entry is dropped.
OutcomeUnknown(o) ==
  /\ At(o, "sent")
  /\ IF sandbox[o] = "gone" THEN UNCHANGED faults ELSE Fault("call")
  /\ Release(o, o)
  /\ Goto(o, "over")
  /\ UNCHANGED <<owner, diskVars, timeVars, capLock, alive, pcred, rec, sandbox>>

\* Entry::mark_created succeeds and the caller gets the sandbox ...
MarkCreated(o) ==
  /\ At(o, "made")
  /\ Write(o, "created")
  /\ Goto(o, "using")
  /\ UNCHANGED <<owner, cred, timeVars, lockVars, capLock, alive, pcred, rec, sandbox, faults>>

\* ... or fails, and the sandbox is deleted; a panic of the blocking task has
\* dropped the entry.
MarkCreatedFails(o) ==
  /\ At(o, "made")
  /\ Fault("call")
  /\ \/ Goto(o, "deleting") /\ UNCHANGED lockVars
     \/ Goto(o, "bare") /\ Release(o, o)
  /\ UNCHANGED <<owner, diskVars, timeVars, capLock, alive, pcred, rec, sandbox>>

\* Cleanup::run, or its drop, also for a caller that was cancelled ...
Clean(o) ==
  /\ At(o, "using")
  /\ Goto(o, "deleting")
  /\ UNCHANGED <<owner, diskVars, timeVars, lockVars, capLock, alive, pcred, rec, sandbox, faults>>

\* ... which does nothing outside a runtime.
DropWithoutRuntime(o) ==
  /\ At(o, "using")
  /\ Fault("call")
  /\ Release(o, o)
  /\ Goto(o, "over")
  /\ UNCHANGED <<owner, diskVars, timeVars, capLock, alive, pcred, rec, sandbox>>

\* delete_with_retries, then completion of the entry, if there is one.
Delete(o) ==
  /\ At(o, "deleting") \/ At(o, "bare")
  /\ \/ /\ sandbox' = [sandbox EXCEPT ![o] = "gone"]
        /\ Goto(o, IF own[o] = "bare" THEN "over" ELSE "complete")
        /\ UNCHANGED faults
     \/ /\ Fault("call")
        /\ sandbox' \in {sandbox, [sandbox EXCEPT ![o] = "gone"]}
        /\ Goto(o, IF own[o] = "bare" THEN "over" ELSE "defer")
  /\ UNCHANGED <<owner, diskVars, timeVars, lockVars, capLock, alive, pcred, rec>>

\* Entry::complete: the record, then the lock file.
Complete(o) ==
  /\ At(o, "complete")
  /\ \/ Erase(o) /\ Goto(o, "unlock") /\ UNCHANGED <<lockVars, faults>>
     \/ Fault("call") /\ Goto(o, "over") /\ Release(o, o) /\ UNCHANGED <<record, versions, written>>
  /\ UNCHANGED <<owner, cred, timeVars, capLock, alive, pcred, rec, sandbox>>

RemoveLock(o) ==
  /\ At(o, "unlock")
  /\ \/ Unlink(o) /\ rec' = Stale(o) /\ UNCHANGED faults
     \/ Fault("call") /\ Release(o, o) /\ UNCHANGED rec
  /\ Goto(o, "over")
  /\ UNCHANGED <<owner, diskVars, timeVars, capLock, alive, pcred, sandbox>>

\* Entry::defer with no delay, after a deletion that failed.
Defer(o) ==
  /\ At(o, "defer")
  /\ \/ Write(o, record[o]) /\ UNCHANGED faults
     \/ Fault("call") /\ UNCHANGED <<record, versions, written>>
  /\ Release(o, o)
  /\ Goto(o, "over")
  /\ UNCHANGED <<owner, cred, timeVars, capLock, alive, pcred, rec, sandbox>>

-----------------------------------------------------------------------------
(* reconcile *)

In(p, s) == alive[p] /\ rec[p].pc = s
This(p) == Head(rec[p].todo)
Step(p, s) == rec' = [rec EXCEPT ![p] = [@ EXCEPT !.pc = s]]

\* The pass goes on with the next record, or ends when its budget is used.
Continue(p, r) ==
  LET rest == Tail(rec[p].todo) IN
  [r EXCEPT ![p] = IF rest = <<>> \/ rec[p].acted >= RecordBudget THEN Off
                   ELSE [pc |-> "next", todo |-> rest, locks |-> rec[p].locks,
                         acted |-> rec[p].acted, file |-> "linked"]]

Skip(p) == Release(This(p), p) /\ rec' = Continue(p, rec)

WrittenBefore(x, y) ==
  \E i, j \in DOMAIN written : i < j /\ written[i] = x /\ written[j] = y

\* Journal::scan lists the records, least recently written first ...
Scan(p) ==
  /\ In(p, "off")
  /\ \E n \in 0..Len(written) : \E nonces \in [1..n -> Records] :
       /\ Records = {nonces[i] : i \in 1..n}
       /\ \A i, j \in 1..n : i < j => WrittenBefore(nonces[i], nonces[j])
       /\ rec' = [rec EXCEPT ![p] =
                   [pc |-> "scanned", todo |-> nonces,
                    locks |-> {o \in Ops \ Records : lockPath[o]}, acted |-> 0, file |-> "linked"]]
  /\ UNCHANGED <<opVars, diskVars, timeVars, lockVars, capLock, alive, pcred, sandbox, faults>>

\* ... and the lock files without a record: remove_orphan_lock takes the lock,
\* if the file is still there and nobody has it ...
TakeOrphan(p) ==
  /\ In(p, "scanned")
  /\ \E o \in rec[p].locks :
       IF lockPath[o] /\ lockHolder[o] = Free
         THEN /\ lockHolder' = [lockHolder EXCEPT ![o] = p]
              /\ rec' = [rec EXCEPT ![p] =
                          [pc |-> "orphan", todo |-> <<o>> \o rec[p].todo,
                           locks |-> rec[p].locks \ {o}, acted |-> 0, file |-> "linked"]]
         ELSE /\ rec' = [rec EXCEPT ![p] = [rec[p] EXCEPT !.locks = rec[p].locks \ {o}]]
              /\ UNCHANGED lockHolder
  /\ UNCHANGED <<opVars, diskVars, timeVars, lockPath, capLock, alive, pcred, sandbox, faults>>

\* ... and removes the file, unless it is younger than STALE_TEMPORARY: begin
\* may be about to use it.
RemoveOrphan(p) ==
  /\ In(p, "orphan")
  /\ LET o == This(p)
         back(r) == [r EXCEPT ![p] = [pc |-> "scanned", todo |-> Tail(rec[p].todo),
                                      locks |-> rec[p].locks, acted |-> 0, file |-> "linked"]]
     IN  IF record[o] = "none" /\ own[o] = "over"
           THEN Unlink(o) /\ rec' = back(Stale(o))
           ELSE Release(o, p) /\ rec' = back(rec)
  /\ UNCHANGED <<opVars, diskVars, timeVars, capLock, alive, pcred, sandbox, faults>>

StartPass(p) ==
  /\ In(p, "scanned") /\ rec[p].locks = {}
  /\ rec' = [rec EXCEPT ![p] = IF @.todo = <<>> THEN Off ELSE [@ EXCEPT !.pc = "next"]]
  /\ UNCHANGED <<opVars, diskVars, timeVars, lockVars, capLock, alive, pcred, sandbox, faults>>

\* Journal::claim: open the lock file, creating it if need be ...
ClaimOpen(p) ==
  /\ In(p, "next")
  /\ \/ /\ lockPath' = [lockPath EXCEPT ![This(p)] = TRUE]
        /\ Step(p, "opened")
        /\ UNCHANGED <<lockHolder, faults>>
     \/ Fault("call") /\ Skip(p)
  /\ UNCHANGED <<opVars, diskVars, timeVars, capLock, alive, pcred, sandbox>>

\* Mutant of ClaimLock: the lock is not asked for.
ClaimWithoutLock(p) ==
  /\ In(p, "opened")
  /\ Step(p, "claimed")
  /\ UNCHANGED <<opVars, diskVars, timeVars, lockVars, capLock, alive, pcred, sandbox, faults>>

\* ... take its lock unless a live owner has it ...
ClaimLock(p) ==
  /\ In(p, "opened")
  /\ LET o == This(p) IN
     \/ /\ rec[p].file = "unlinked"
        /\ Step(p, "claimed")
        /\ UNCHANGED lockVars
     \/ /\ rec[p].file = "linked" /\ lockHolder[o] = Free
        /\ lockHolder' = [lockHolder EXCEPT ![o] = p]
        /\ Step(p, "claimed")
        /\ UNCHANGED lockPath
     \/ /\ rec[p].file = "linked" => lockHolder[o] # Free
        /\ Skip(p)
  /\ UNCHANGED <<opVars, diskVars, timeVars, capLock, alive, pcred, sandbox, faults>>

\* ... and read the record: it may be gone, or not be due.
ClaimRead(p) ==
  /\ In(p, "claimed")
  /\ LET o == This(p) IN
     IF record[o] = "none" THEN Unlink(o) /\ rec' = Continue(p, Stale(o))
     ELSE IF ~due[o] THEN Skip(p)
     ELSE /\ rec' = [rec EXCEPT ![p] =
                      [pc |-> "find", todo |-> rec[p].todo, locks |-> rec[p].locks,
                       acted |-> rec[p].acted + 1, file |-> rec[p].file]]
          /\ UNCHANGED lockVars
  /\ UNCHANGED <<opVars, diskVars, timeVars, capLock, alive, pcred, sandbox, faults>>

\* The lookups Provider::find may answer (external): until a record settles a
\* sandbox may not be listed yet, and another credential may not see it at
\* all.  A lookup may always fail or be inconclusive.
Lookups(p, o) ==
  (IF sandbox[o] = "live" THEN {"found"} ELSE {}) \cup
  (IF sandbox[o] = "live" /\ settled[o] /\ pcred[p] = cred[o] THEN {} ELSE {"absent"}) \cup
  (IF "call" \in FaultKinds /\ faults < MaxFaults THEN {"failed"} ELSE {})

\* Mutant of Settled: any credential proves absence.
SettledForAnyone(p, o) == settled[o]

Settled(p, o) == settled[o] /\ cred[o] = pcred[p]

\* repair: look the marker up.
Find(p) ==
  /\ In(p, "find")
  /\ \E found \in Lookups(p, This(p)) :
       /\ Step(p, IF found = "found" THEN "found"
                  ELSE IF found = "absent" /\ Settled(p, This(p)) THEN "finish" ELSE "defer")
       /\ IF found = "failed" THEN Fault("call") ELSE UNCHANGED faults
  /\ UNCHANGED <<opVars, diskVars, timeVars, lockVars, capLock, alive, pcred, sandbox>>

\* ... journal what was found ...
Verify(p) ==
  /\ In(p, "found")
  /\ \/ Write(This(p), "created") /\ Step(p, "delete") /\ UNCHANGED <<lockVars, faults>>
     \/ Fault("call") /\ Skip(p) /\ UNCHANGED <<record, versions, written>>
  /\ UNCHANGED <<opVars, cred, timeVars, capLock, alive, pcred, sandbox>>

\* ... delete it ...
DeleteFound(p) ==
  /\ In(p, "delete")
  /\ \/ /\ sandbox' = [sandbox EXCEPT ![This(p)] = "gone"]
        /\ Step(p, "finish")
        /\ UNCHANGED faults
     \/ /\ Fault("call")
        /\ sandbox' \in {sandbox, [sandbox EXCEPT ![This(p)] = "gone"]}
        /\ Step(p, "defer")
  /\ UNCHANGED <<opVars, diskVars, timeVars, lockVars, capLock, alive, pcred>>

\* ... and remove the record, or keep it for later: finish, defer.
Finish(p) ==
  /\ In(p, "finish")
  /\ \/ Erase(This(p)) /\ Step(p, "unlock") /\ UNCHANGED <<lockVars, faults>>
     \/ Fault("call") /\ Skip(p) /\ UNCHANGED <<record, versions, written>>
  /\ UNCHANGED <<opVars, cred, timeVars, capLock, alive, pcred, sandbox>>

FinishLock(p) ==
  /\ In(p, "unlock")
  /\ \/ Unlink(This(p)) /\ rec' = Continue(p, Stale(This(p))) /\ UNCHANGED faults
     \/ Fault("call") /\ Skip(p)
  /\ UNCHANGED <<opVars, diskVars, timeVars, capLock, alive, pcred, sandbox>>

\* Mutant of Keep: the record is not written again, so it keeps its turn.
KeepInPlace(p) ==
  /\ In(p, "defer")
  /\ due' = [due EXCEPT ![This(p)] = FALSE]
  /\ Skip(p)
  /\ UNCHANGED <<opVars, diskVars, settled, capLock, alive, pcred, sandbox, faults>>

Keep(p) ==
  /\ In(p, "defer")
  /\ \/ /\ Write(This(p), record[This(p)])
        /\ due' = [due EXCEPT ![This(p)] = FALSE]
        /\ UNCHANGED faults
     \/ Fault("call") /\ UNCHANGED <<record, versions, written, due>>
  /\ Skip(p)
  /\ UNCHANGED <<opVars, cred, settled, capLock, alive, pcred, sandbox>>

\* reconcile: the time budget ends the pass; the entry is dropped.
BudgetElapsed(p) ==
  /\ In(p, "find") \/ In(p, "delete")
  /\ Fault("call")
  /\ sandbox' \in {sandbox} \cup
       (IF rec[p].pc = "delete" THEN {[sandbox EXCEPT ![This(p)] = "gone"]} ELSE {})
  /\ Release(This(p), p)
  /\ rec' = [rec EXCEPT ![p] = Off]
  /\ UNCHANGED <<opVars, diskVars, timeVars, capLock, alive, pcred>>

-----------------------------------------------------------------------------
(* The provider (external), time and crashes *)

\* A create that was sent lands, or never will.
Land(o) ==
  /\ sandbox[o] = "pending"
  /\ sandbox' \in {[sandbox EXCEPT ![o] = "live"], [sandbox EXCEPT ![o] = "gone"]}
  /\ UNCHANGED <<opVars, diskVars, timeVars, lockVars, capLock, alive, pcred, rec, faults>>

\* The settle time of a record passes.  It is chosen longer than a create can
\* take to be sent and to land.
Settle(o) ==
  /\ record[o] # "none" /\ ~settled[o] /\ sandbox[o] # "pending"
  /\ own[o] \notin {"idle", "begun", "locked", "written", "ready"}
  /\ settled' = [settled EXCEPT ![o] = TRUE]
  /\ UNCHANGED <<opVars, diskVars, due, lockVars, capLock, alive, pcred, rec, sandbox, faults>>

Elapse(o) ==
  /\ ~due[o]
  /\ due' = [due EXCEPT ![o] = TRUE]
  /\ UNCHANGED <<opVars, diskVars, settled, lockVars, capLock, alive, pcred, rec, sandbox, faults>>

\* What is left once every process of a set has died.
Die(dead) ==
  LET gone(t) == t \in dead \/ (t \in Ops /\ owner[t] \in dead) IN
  /\ own' = [o \in Ops |-> IF owner[o] \in dead THEN "over" ELSE own[o]]
  /\ lockHolder' = [o \in Ops |-> IF gone(lockHolder[o]) THEN Free ELSE lockHolder[o]]
  /\ capLock' = IF gone(capLock) THEN Free ELSE capLock
  /\ rec' = [p \in Procs |-> IF p \in dead THEN Off ELSE rec[p]]
  /\ alive' = [p \in Procs |-> alive[p] /\ p \notin dead]

Crash(p) ==
  /\ alive[p]
  /\ Fault("crash")
  /\ Die({p})
  /\ UNCHANGED <<owner, diskVars, timeVars, lockPath, pcred, sandbox>>

\* A record may be as it was at any point since the directory was synced.
MachineCrash ==
  /\ Fault("machine")
  /\ Die({p \in Procs : alive[p]})
  /\ record' \in [Ops -> {"none", "intent", "created"}]
  /\ \A o \in Ops : record'[o] \in versions[o]
  /\ versions' = [o \in Ops |-> {record'[o]}]
  /\ due' = [o \in Ops |-> TRUE]
  /\ UNCHANGED <<owner, cred, written, settled, lockPath, pcred, sandbox>>

Restart(p) ==
  /\ ~alive[p]
  /\ alive' = [alive EXCEPT ![p] = TRUE]
  /\ \E c \in Creds : pcred' = [pcred EXCEPT ![p] = c]
  /\ UNCHANGED <<opVars, diskVars, timeVars, lockVars, capLock, rec, sandbox, faults>>

-----------------------------------------------------------------------------
Owner(o) ==
  \/ TakeLock(o) \/ WriteIntent(o) \/ SyncIntent(o) \/ Rejected(o) \/ Send(o)
  \/ Answered(o) \/ OutcomeUnknown(o) \/ MarkCreated(o) \/ Clean(o)
  \/ Delete(o) \/ Complete(o) \/ RemoveLock(o) \/ Defer(o)
OwnerFails(o) == WriteIntentFails(o) \/ MarkCreatedFails(o) \/ DropWithoutRuntime(o)

Reconcile(p) ==
  \/ Scan(p) \/ TakeOrphan(p) \/ RemoveOrphan(p) \/ StartPass(p)
  \/ ClaimOpen(p) \/ ClaimLock(p) \/ ClaimRead(p)
  \/ Find(p) \/ Verify(p) \/ DeleteFound(p) \/ Finish(p) \/ FinishLock(p) \/ Keep(p)

Next ==
  \/ \E o \in Ops : Owner(o) \/ OwnerFails(o) \/ Land(o) \/ Settle(o) \/ Elapse(o)
  \/ \E p \in Procs : Reconcile(p) \/ BudgetElapsed(p) \/ Crash(p) \/ Restart(p)
  \/ \E p \in Procs, o \in Ops : Begin(p, o)
  \/ MachineCrash

Spec == Init /\ [][Next]_vars

(* What is fair: tasks run, the provider decides about a create, time passes, *)
(* and processes keep starting and running passes.  Nothing forces callers to *)
(* create, and faults are bounded.                                            *)
TasksRun == \E o \in Ops : Owner(o) \/ Land(o) \/ Settle(o)
ProcessRuns(p) == Reconcile(p) \/ Restart(p)
FairSpec ==
  /\ Spec
  /\ WF_vars(TasksRun)
  /\ \A o \in Ops : WF_vars(Elapse(o))
  /\ \A p \in Procs : WF_vars(ProcessRuns(p))

-----------------------------------------------------------------------------
(* Properties *)

\* A sandbox that runs, or may still come up, has a record that a machine
\* crash would not lose: no paid machine is ever forgotten.
Tracked ==
  \A o \in Ops : sandbox[o] \in {"pending", "live"} =>
                   record[o] # "none" /\ "none" \notin versions[o]

\* Who has an Entry: the owner's task, and passes that claimed a record.
OwnerHas(o) == own[o] \in {"locked", "written", "ready", "sent", "made", "using",
                           "deleting", "complete", "unlock", "defer"}
PassHas(p, o) == On(p, o) /\ rec[p].pc \in {"find", "found", "delete", "finish", "unlock", "defer"}

\* A record has at most one owner, although lock files are removed while
\* other processes have them open.
OneOwner ==
  \A o \in Ops : /\ \A p \in Procs : ~(OwnerHas(o) /\ PassHas(p, o))
                 /\ \A p, q \in Procs : PassHas(p, o) /\ PassHas(q, o) => p = q

\* The sandbox a caller is using is never deleted under it.
KeptWhileUsed == \A o \in Ops : own[o] = "using" => sandbox[o] = "live"

\* However many processes begin operations at the same time, none adds a record
\* to a journal that holds MAX_RECORDS.  (A machine crash may bring back more:
\* removals are not synced.)
WithinCapacity ==
  [][\A o \in Ops : own[o] = "locked" /\ own'[o] = "written"
                     => Cardinality(Records') <= MaxRecords]_vars

\* A record that its owner left behind is resolved while the credential it was
\* created with is in use: a record that cannot be resolved, because it has
\* another credential, never keeps the passes from getting to it.
Trusted(o) == \A p \in Procs : pcred[p] = cred[o]
LeftBehindIsRepaired ==
  \A o \in Ops : (own[o] = "over" /\ record[o] # "none" /\ Trusted(o))
                   ~> (record[o] = "none" \/ ~Trusted(o))
=============================================================================
