------------------------- MODULE RemoteEntriesProofs -------------------------
(***************************************************************************)
(* Proofs that the steps of those who have an Entry keep LifecycleInv: the *)
(* task of an operation from Journal::begin to its end, and a pass that    *)
(* repairs a record.                                                       *)
(***************************************************************************)
EXTENDS RemoteInvariant, TLAPS

-----------------------------------------------------------------------------
(* What a step leaves alone *)

\* The names of steps are different.
LEMMA StepNames ==
  /\ \A s \in Holding : s \notin {"idle", "begun", "over", "bare"}
  /\ \A s \in Has : s \notin {"off", "scanned", "next", "orphan", "opened", "claimed"}
  /\ Has = Repairing \cup {"unlock"} /\ "unlock" \notin Repairing
BY DEF Holding, Has, Repairing

\* The other operations stay as they should be.
LEMMA TasksKept ==
  ASSUME NEW x \in Ops, TaskOK(x), SandboxOK(x), Same(x), \A p \in Procs : alive[p] => alive'[p]
  PROVE  TaskOK(x)' /\ SandboxOK(x)'
<1>1. TaskOK(x)'
  <2>1. own'[x] \notin {"idle", "over"} => owner'[x] \in Procs /\ alive'[owner'[x]]
    BY DEF TaskOK, Same
  <2>2. own'[x] = "ready" => "none" \notin versions'[x]
    BY DEF TaskOK, Same, Holding
  <2> QED
    BY <2>1, <2>2 DEF TaskOK, Same
<1>2. SandboxOK(x)'
  BY DEF SandboxOK, Same
<1> QED
  BY <1>1, <1>2

\* A pass that waits depends on nothing but that the operations it goes through were begun.
LEMMA WaitingKept ==
  ASSUME NEW p \in Procs, PassOK(p), rec[p] \in PassT, rec'[p] = rec[p], alive[p] => alive'[p],
         rec[p].pc \in Waiting, rec[p].file = "linked",
         \A x \in Ops : own[x] \notin Early => own'[x] \notin Early
  PROVE  PassOK(p)'
<1>1. rec[p].pc \notin {"orphan", "claimed"} \cup Has /\ rec[p].pc \notin Repairing \cup {"unlock", "finish"}
  BY DEF Waiting, Has, Repairing
<1>2. \A i \in DOMAIN rec[p].todo : rec[p].todo[i] \in Ops
  BY DEF PassT
<1>3. \A i \in DOMAIN rec[p].todo : own'[rec[p].todo[i]] \notin Early
  BY <1>1, <1>2 DEF PassOK
<1> QED
  BY <1>1, <1>3 DEF PassOK

\* Any pass, when what it knows of its operation stays true.
LEMMA PassKept ==
  ASSUME NEW p \in Procs, PassOK(p), rec[p] \in PassT, rec'[p] = rec[p], alive[p] => alive'[p],
         \A x \in Ops : own[x] \notin Early => own'[x] \notin Early,
         NEW o \in Ops, On(p, o), lockHolder[o] = p => lockHolder'[o] = p,
         record'[o] = record[o], sandbox'[o] \in {"pending", "live"} => sandbox[o] \in {"pending", "live"},
         Resolved(o) => Resolved(o)'
  PROVE  PassOK(p)'
<1>1. Head(rec[p].todo) = o /\ rec[p].todo # <<>>
  BY DEF On
<1>2. \A i \in DOMAIN rec[p].todo : rec[p].todo[i] \in Ops
  BY DEF PassT
<1>3. \A i \in DOMAIN rec[p].todo : (rec[p].pc = "orphan" /\ i = 1) \/ own'[rec[p].todo[i]] \notin Early
  BY <1>2 DEF PassOK
<1>4. /\ rec[p].pc \in {"orphan", "claimed"} \cup Has /\ rec[p].file = "linked" => lockHolder'[o] = p
      /\ rec[p].pc \in {"orphan", "opened", "claimed"} /\ rec[p].file = "unlinked" => Resolved(o)'
  BY <1>1 DEF PassOK
<1>5. /\ rec[p].pc \in {"off", "scanned", "next"} \cup Has => rec[p].file = "linked"
      /\ rec[p].pc \in Repairing => record'[o] # "none"
      /\ rec[p].pc = "unlock" => record'[o] = "none"
      /\ rec[p].pc = "finish" => sandbox'[o] \notin {"pending", "live"}
      /\ rec[p].pc # "off" => alive'[p]
  BY <1>1 DEF PassOK
<1>6. Resolved(Head(rec[p].todo))' <=> Resolved(o)'
  BY <1>1 DEF Resolved
<1> QED
  BY <1>1, <1>3, <1>4, <1>5, <1>6 DEF PassOK

\* While somebody else has its operation, a pass waits.
LEMMA Waits ==
  ASSUME NEW p \in Procs, PassOK(p), rec[p] \in PassT, NEW o \in Ops, On(p, o),
         lockHolder[o] # p, ~Resolved(o)
  PROVE  rec[p].pc \in Waiting /\ rec[p].file = "linked"
<1>1. Head(rec[p].todo) = o
  BY DEF On
<1>2. rec[p].file \in {"linked", "unlinked"} /\ rec[p].pc \in PassSteps
  BY DEF PassT
<1>3. rec[p].pc \notin {"orphan", "claimed"} \cup Has
  BY <1>1, <1>2 DEF PassOK
<1>4. rec[p].pc \in Waiting
  BY <1>2, <1>3 DEF PassSteps, Waiting
<1> QED
  BY <1>1, <1>2, <1>4 DEF PassOK, Waiting

\* What is resolved stays so while nobody touches it.
LEMMA ResolvedKept ==
  ASSUME NEW x \in Ops, Resolved(x), record'[x] = record[x], own'[x] = own[x],
         \A q \in Procs : PassHas(q, x)' => PassHas(q, x)
  PROVE  Resolved(x)'
BY DEF Resolved

\* A pass that is not at the operation of a step, or waits for it.
LEMMA AsideKept ==
  ASSUME LifecycleInv, NEW o \in Ops, \A x \in Ops \ {o} : Same(x),
         own[o] \notin Early => own'[o] \notin Early,
         NEW q \in Procs, rec'[q] = rec[q], alive[q] => alive'[q],
         On(q, o) => rec[q].pc \in Waiting /\ rec[q].file = "linked",
         \A r \in Procs, x \in Ops \ {o} : PassHas(r, x)' => PassHas(r, x)
  PROVE  PassOK(q)'
<1>1. PassOK(q) /\ rec[q] \in PassT
  BY DEF LifecycleInv, LifecycleTypeOK
<1>2. \A x \in Ops : own[x] \notin Early => own'[x] \notin Early
  BY DEF Same
<1>3. CASE rec[q].todo = <<>>
  <2>1. rec[q].pc \in {"off", "scanned"}
    BY <1>1, <1>3 DEF PassOK
  <2>2. rec[q].pc \in Waiting /\ rec[q].file = "linked"
    BY <1>1, <2>1 DEF PassOK, Waiting
  <2> QED
    BY <1>1, <1>2, <2>2, WaitingKept
<1>4. CASE On(q, o)
  BY <1>1, <1>2, <1>4, WaitingKept
<1>5. ASSUME NEW x \in Ops \ {o}, On(q, x)
      PROVE  PassOK(q)'
  <2>1. record'[x] = record[x] /\ own'[x] = own[x] /\ sandbox'[x] = sandbox[x]
        /\ lockHolder'[x] = lockHolder[x]
    BY DEF Same
  <2>2. Resolved(x) => Resolved(x)'
    BY <2>1, ResolvedKept
  <2> QED
    BY <1>1, <1>2, <1>5, <2>1, <2>2, PassKept
<1>6. rec[q].todo # <<>> => \E x \in Ops : On(q, x)
  BY <1>1 DEF On, PassT
<1> QED
  BY <1>3, <1>4, <1>5, <1>6

\* A pass that has no part in a step on an operation somebody has.
LEMMA OthersKept ==
  ASSUME LifecycleInv, NEW o \in Ops, \A x \in Ops \ {o} : Same(x),
         own[o] \notin Early => own'[o] \notin Early,
         NEW q \in Procs, rec'[q] = rec[q], alive[q] => alive'[q],
         lockHolder[o] # q, ~Resolved(o),
         \A r \in Procs, x \in Ops \ {o} : PassHas(r, x)' => PassHas(r, x)
  PROVE  PassOK(q)'
<1>1. PassOK(q) /\ rec[q] \in PassT
  BY DEF LifecycleInv, LifecycleTypeOK
<1>2. On(q, o) => rec[q].pc \in Waiting /\ rec[q].file = "linked"
  BY <1>1, Waits
<1> QED
  BY <1>2, AsideKept

\* A pass that a step leaves where it is, with the locks it has and every record.
LEMMA OnePassKept ==
  ASSUME LifecycleInv, NEW q \in Procs, rec'[q] = rec[q], alive[q] => alive'[q], record' = record,
         \A x \in Ops : /\ own[x] \notin Early => own'[x] \notin Early
                        /\ own[x] \in {"over", "bare"} => own'[x] \in {"over", "bare"}
                        /\ lockHolder[x] = q => lockHolder'[x] = q
                        /\ sandbox'[x] \in {"pending", "live"} => sandbox[x] \in {"pending", "live"}
                        /\ \A r \in Procs : PassHas(r, x)' => PassHas(r, x)
  PROVE  PassOK(q)'
<1>1. PassOK(q) /\ rec[q] \in PassT
  BY DEF LifecycleInv, LifecycleTypeOK
<1>2. CASE rec[q].todo = <<>>
  <2>1. rec[q].pc \in {"off", "scanned"}
    BY <1>1, <1>2 DEF PassOK
  <2>2. rec[q].pc \in Waiting /\ rec[q].file = "linked"
    BY <1>1, <2>1 DEF PassOK, Waiting
  <2> QED
    BY <1>1, <2>2, WaitingKept
<1>3. ASSUME NEW x \in Ops, On(q, x)
      PROVE  PassOK(q)'
  <2>1. Resolved(x) => Resolved(x)'
    BY DEF Resolved
  <2> QED
    BY <1>1, <1>3, <2>1, PassKept
<1>4. rec[q].todo # <<>> => \E x \in Ops : On(q, x)
  BY <1>1 DEF On, PassT
<1> QED
  BY <1>2, <1>3, <1>4

\* The passes, when no record and no lock of a pass changes and no pass moves.
LEMMA PassesKept ==
  ASSUME LifecycleInv, rec' = rec, record' = record,
         \A p \in Procs : alive[p] => alive'[p],
         \A x \in Ops : /\ own[x] \notin Early => own'[x] \notin Early
                        /\ own[x] \in {"over", "bare"} => own'[x] \in {"over", "bare"}
                        /\ \A p \in Procs : lockHolder[x] = p => lockHolder'[x] = p
                        /\ sandbox'[x] \in {"pending", "live"} => sandbox[x] \in {"pending", "live"}
  PROVE  \A p \in Procs : PassOK(p)'
<1>1. \A r \in Procs, x \in Ops : PassHas(r, x)' => PassHas(r, x)
  BY DEF PassHas, On
<1> QED
  BY <1>1, OnePassKept

\* The removal of a lock file moves no pass.
LEMMA StaleFacts ==
  ASSUME NEW o \in Ops, rec \in [Procs -> PassT]
  PROVE  /\ Stale(o) \in [Procs -> PassT]
         /\ \A q \in Procs : Stale(o)[q].pc = rec[q].pc /\ Stale(o)[q].todo = rec[q].todo
<1>1. ASSUME NEW q \in Procs
      PROVE  /\ [rec[q] EXCEPT !.file = "unlinked"] \in PassT
             /\ [rec[q] EXCEPT !.file = "unlinked"].pc = rec[q].pc
             /\ [rec[q] EXCEPT !.file = "unlinked"].todo = rec[q].todo
  BY Zenon DEF PassT
<1> QED
  BY <1>1 DEF Stale

\* A pass that has no part in the removal of a lock file: it may have opened it.
LEMMA StaleKept ==
  ASSUME LifecycleInv, NEW o \in Ops, \A x \in Ops \ {o} : Same(x),
         own[o] \notin Early => own'[o] \notin Early,
         NEW q \in Procs, rec'[q] = Stale(o)[q], alive[q] => alive'[q],
         ~PassHas(q, o), Resolved(o)',
         \A r \in Procs, x \in Ops \ {o} : PassHas(r, x)' => PassHas(r, x)
  PROVE  PassOK(q)'
<1>1. PassOK(q) /\ rec[q] \in PassT
  BY DEF LifecycleInv, LifecycleTypeOK
<1>2. \A x \in Ops : own[x] \notin Early => own'[x] \notin Early
  BY DEF Same
<1>3. CASE Opened(q) /\ On(q, o)
  <2>1. /\ rec'[q] = [rec[q] EXCEPT !.file = "unlinked"] /\ Head(rec[q].todo) = o
        /\ rec[q].todo # <<>>
    BY <1>3 DEF Stale, On
  <2>2. rec[q].pc \in {"orphan", "opened", "claimed"}
    BY <1>1, <1>3 DEF PassT, PassSteps, Has, PassHas, Opened
  <2>3. /\ rec'[q].pc = rec[q].pc /\ rec'[q].todo = rec[q].todo /\ rec'[q].file = "unlinked"
    BY <1>1, <2>1 DEF PassT
  <2>4. \A i \in DOMAIN rec[q].todo : rec[q].todo[i] \in Ops
    BY <1>1 DEF PassT
  <2>5. \A i \in DOMAIN rec[q].todo : (rec[q].pc = "orphan" /\ i = 1) \/ own'[rec[q].todo[i]] \notin Early
    BY <1>1, <1>2, <2>4 DEF PassOK
  <2>6. Resolved(Head(rec[q].todo))'
    BY <2>1, <2>3 DEF Resolved
  <2>7. alive'[q] /\ rec[q].pc \notin Has \cup Repairing
    BY <1>1, <2>2 DEF PassOK, Has, Repairing
  <2> QED
    BY <2>1, <2>2, <2>3, <2>5, <2>6, <2>7 DEF PassOK
<1>4. CASE ~(Opened(q) /\ On(q, o))
  <2>1. rec'[q] = rec[q]
    BY <1>4 DEF Stale
  <2>2. On(q, o) => rec[q].pc \in Waiting /\ rec[q].file = "linked"
    BY <1>1, <1>4 DEF Opened, Waiting, PassOK
  <2> QED
    BY <2>1, <2>2, AsideKept
<1> QED
  BY <1>3, <1>4

\* A step of a task that has its Entry.
LEMMA OwnerStep ==
  ASSUME LifecycleInv, NEW o \in Ops, own[o] \in Holding, \A x \in Ops \ {o} : Same(x),
         own'[o] \notin Early, rec' = rec, alive' = alive,
         LifecycleTypeOK', TaskOK(o)', SandboxOK(o)'
  PROVE  LifecycleInv'
<1>1. lockHolder[o] = o /\ ~Resolved(o)
  BY StepNames DEF LifecycleInv, TaskOK, Resolved
<1>2. \A x \in Ops \ {o} : TaskOK(x)' /\ SandboxOK(x)'
  BY TasksKept DEF LifecycleInv
<1>3. ASSUME NEW q \in Procs
      PROVE  PassOK(q)'
  <2>1. lockHolder[o] # q
    BY <1>1, LifecycleAssumption
  <2>2. \A r \in Procs, x \in Ops \ {o} : PassHas(r, x)' => PassHas(r, x)
    BY DEF PassHas, On
  <2> QED
    BY <1>1, <2>1, <2>2, OthersKept
<1> QED
  BY <1>2, <1>3 DEF LifecycleInv

\* Who has the Entry of an operation when a pass does.
LEMMA PassHolds ==
  ASSUME LifecycleInv, NEW p \in Procs, rec[p].pc \in Has
  PROVE  /\ This(p) \in Ops /\ PassHas(p, This(p)) /\ own[This(p)] \in {"over", "bare"}
         /\ lockHolder[This(p)] = p /\ ~Resolved(This(p)) /\ rec[p].file = "linked"
         /\ rec[p] \in PassT /\ rec[p].todo # <<>> /\ Head(rec[p].todo) = This(p)
<1>1. PassOK(p) /\ rec[p] \in PassT /\ lockHolder \in [Ops -> Ops \cup Procs \cup {Free}]
  BY DEF LifecycleInv, LifecycleTypeOK
<1>2. rec[p].todo # <<>> /\ rec[p].file = "linked" /\ rec[p].pc # "orphan"
  BY <1>1, StepNames DEF PassOK
<1>3. This(p) \in Ops /\ This(p) = rec[p].todo[1] /\ 1 \in DOMAIN rec[p].todo
  BY <1>1, <1>2 DEF This, PassT
<1>4. lockHolder[This(p)] = p /\ own[This(p)] \notin Early
  BY <1>1, <1>2, <1>3 DEF PassOK, This
<1>5. PassHas(p, This(p))
  BY <1>2 DEF PassHas, On, This, Has
<1>6. own[This(p)] \in OwnSteps \ (Early \cup Holding)
  BY <1>3, <1>4, LifecycleAssumption DEF LifecycleInv, LifecycleTypeOK, TaskOK
<1> QED
  BY <1>1, <1>2, <1>3, <1>4, <1>5, <1>6 DEF Resolved, OwnSteps, This

\* A step of a pass that has the Entry of its operation.
LEMMA PassStep ==
  ASSUME LifecycleInv, NEW p \in Procs, rec[p].pc \in Has,
         \A x \in Ops \ {This(p)} : Same(x), own' = own, owner' = owner, alive' = alive,
         \A q \in Procs \ {p} : rec'[q] = rec[q],
         \A x \in Ops \ {This(p)} : ~PassHas(p, x)',
         LifecycleTypeOK', PassOK(p)',
         NEW o \in Ops, o = This(p), SandboxOK(o)'
  PROVE  LifecycleInv'
<1>1. own[o] \in {"over", "bare"} /\ lockHolder[o] = p /\ ~Resolved(o)
  BY PassHolds
<1>2. \A x \in Ops \ {o} : TaskOK(x)' /\ SandboxOK(x)'
  BY TasksKept DEF LifecycleInv
<1>3. TaskOK(o)'
  BY <1>1 DEF LifecycleInv, TaskOK, Holding, Early
<1>4. ASSUME NEW q \in Procs \ {p}
      PROVE  PassOK(q)'
  <2>1. \A r \in Procs, x \in Ops \ {o} : PassHas(r, x)' => PassHas(r, x)
    BY DEF PassHas, On
  <2> QED
    BY <1>1, <2>1, OthersKept
<1> QED
  BY <1>2, <1>3, <1>4 DEF LifecycleInv

-----------------------------------------------------------------------------
(* The task of an operation *)

\* A step of a task that changes nothing of other operations, and may drop its Entry.
LEMMA OwnerMoves ==
  ASSUME LifecycleInv, NEW o \in Ops, own[o] \in Holding,
         NEW s \in OwnSteps \ Early, own' = [own EXCEPT ![o] = s],
         UNCHANGED <<owner, settled, alive, rec, capLock>>,
         record' \in [Ops -> Phases], versions' \in [Ops -> SUBSET Phases],
         sandbox' \in [Ops -> {"none", "pending", "live", "gone"}],
         \A x \in Ops \ {o} : record'[x] = record[x] /\ versions'[x] = versions[x]
                              /\ sandbox'[x] = sandbox[x],
         lockHolder' = lockHolder \/ Release(o, o), TaskOK(o)', SandboxOK(o)'
  PROVE  LifecycleInv'
<1>1. /\ lockHolder' \in [Ops -> Ops \cup Procs \cup {Free}]
      /\ \A x \in Ops \ {o} : lockHolder'[x] = lockHolder[x]
  BY DEF LifecycleInv, LifecycleTypeOK, Release
<1>2. LifecycleTypeOK' /\ own'[o] \notin Early
  BY <1>1, Zenon DEF LifecycleInv, LifecycleTypeOK
<1>3. \A x \in Ops \ {o} : Same(x)
  BY <1>1 DEF LifecycleInv, LifecycleTypeOK, Same
<1> QED
  BY <1>2, <1>3, OwnerStep

\* The record of an operation is written under its lock and the capacity lock.
LEMMA WriteIntentInductive ==
  ASSUME LifecycleInv, NEW o \in Ops, WriteIntent(o)
  PROVE  LifecycleInv'
<1>1. /\ LifecycleTypeOK /\ TaskOK(o) /\ SandboxOK(o) /\ own[o] = "locked"
      /\ own[o] \in Holding /\ rec' = rec /\ alive' = alive
  BY DEF LifecycleInv, WriteIntent, At, Holding
<1>2. TaskOK(o)' /\ SandboxOK(o)'
  BY <1>1 DEF LifecycleTypeOK, TaskOK, SandboxOK, Early, Holding, WriteIntent, Goto, diskVars, timeVars, lockVars, Write, Phases
<1>3. "written" \in OwnSteps \ Early
  BY DEF OwnSteps, Early, Holding
<1> QED
  BY <1>1, <1>2, <1>3, OwnerMoves, Zenon
     DEF LifecycleTypeOK, WriteIntent, Goto, diskVars, timeVars, lockVars, Write, Phases

\* From then on a machine crash keeps the record.
LEMMA SyncIntentInductive ==
  ASSUME LifecycleInv, NEW o \in Ops, SyncIntent(o)
  PROVE  LifecycleInv'
<1>1. /\ LifecycleTypeOK /\ TaskOK(o) /\ SandboxOK(o) /\ own[o] = "written"
      /\ own[o] \in Holding /\ rec' = rec /\ alive' = alive
  BY DEF LifecycleInv, SyncIntent, At, Holding
<1>2. LifecycleTypeOK'
  BY <1>1 DEF LifecycleTypeOK, OwnSteps, Early, Holding, SyncIntent, Goto, timeVars, lockVars, Phases
<1>3. \A x \in Ops \ {o} : Same(x)
  BY <1>1 DEF LifecycleTypeOK, TaskOK, Same, SyncIntent, Goto, timeVars, lockVars, Phases
<1>4. TaskOK(o)' /\ SandboxOK(o)' /\ own'[o] \notin Early
  BY <1>1 DEF LifecycleTypeOK, TaskOK, SandboxOK, Early, Holding, SyncIntent, Goto, timeVars, lockVars, Phases
<1> QED
  BY <1>1, <1>2, <1>3, <1>4, OwnerStep, Zenon

\* Nothing was sent.
LEMMA RejectedInductive ==
  ASSUME LifecycleInv, NEW o \in Ops, Rejected(o)
  PROVE  LifecycleInv'
<1>1. /\ LifecycleTypeOK /\ TaskOK(o) /\ SandboxOK(o) /\ own[o] = "ready"
      /\ own[o] \in Holding /\ rec' = rec /\ alive' = alive
  BY DEF LifecycleInv, Rejected, At, Holding
<1>2. TaskOK(o)' /\ SandboxOK(o)'
  BY <1>1 DEF LifecycleTypeOK, TaskOK, SandboxOK, Early, Holding, Rejected, Goto, diskVars, timeVars, lockVars
<1>3. "complete" \in OwnSteps \ Early
  BY DEF OwnSteps, Early, Holding
<1> QED
  BY <1>1, <1>2, <1>3, OwnerMoves, Zenon
     DEF LifecycleTypeOK, Rejected, Goto, diskVars, timeVars, lockVars

\* The record is durable when the create is sent.
LEMMA SendInductive ==
  ASSUME LifecycleInv, NEW o \in Ops, Send(o)
  PROVE  LifecycleInv'
<1>1. /\ LifecycleTypeOK /\ TaskOK(o) /\ SandboxOK(o) /\ own[o] = "ready"
      /\ own[o] \in Holding /\ rec' = rec /\ alive' = alive
  BY DEF LifecycleInv, Send, At, Holding
<1>2. TaskOK(o)' /\ SandboxOK(o)'
  BY <1>1 DEF LifecycleTypeOK, TaskOK, SandboxOK, Early, Holding, Send, Goto, diskVars, timeVars, lockVars
<1>3. "sent" \in OwnSteps \ Early
  BY DEF OwnSteps, Early, Holding
<1> QED
  BY <1>1, <1>2, <1>3, OwnerMoves, Zenon
     DEF LifecycleTypeOK, Send, Goto, diskVars, timeVars, lockVars

\* The sandbox is there.
LEMMA AnsweredInductive ==
  ASSUME LifecycleInv, NEW o \in Ops, Answered(o)
  PROVE  LifecycleInv'
<1>1. /\ LifecycleTypeOK /\ TaskOK(o) /\ SandboxOK(o) /\ own[o] = "sent"
      /\ own[o] \in Holding /\ rec' = rec /\ alive' = alive
  BY Zenon DEF LifecycleInv, Answered, At, Holding
<1>2. TaskOK(o)' /\ SandboxOK(o)'
  BY <1>1 DEF LifecycleTypeOK, TaskOK, SandboxOK, Early, Holding, Answered, Goto, diskVars, timeVars, lockVars
<1>3. "made" \in OwnSteps \ Early
  BY DEF OwnSteps, Early, Holding
<1> QED
  BY <1>1, <1>2, <1>3, OwnerMoves, Zenon
     DEF LifecycleTypeOK, Answered, Goto, diskVars, timeVars, lockVars

\* The record stays and nobody has it.
LEMMA OutcomeUnknownInductive ==
  ASSUME LifecycleInv, NEW o \in Ops, OutcomeUnknown(o)
  PROVE  LifecycleInv'
<1>1. /\ LifecycleTypeOK /\ TaskOK(o) /\ SandboxOK(o) /\ own[o] = "sent"
      /\ own[o] \in Holding /\ rec' = rec /\ alive' = alive
  BY Zenon DEF LifecycleInv, OutcomeUnknown, At, Holding
<1>2. TaskOK(o)' /\ SandboxOK(o)'
  BY <1>1 DEF LifecycleTypeOK, TaskOK, SandboxOK, Early, Holding, OutcomeUnknown, Goto, diskVars, timeVars, Release
<1>3. "over" \in OwnSteps \ Early
  BY DEF OwnSteps, Early, Holding
<1> QED
  BY <1>1, <1>2, <1>3, OwnerMoves, Zenon
     DEF LifecycleTypeOK, OutcomeUnknown, Goto, diskVars, timeVars, Release

\* The caller gets a sandbox that is there.
LEMMA MarkCreatedInductive ==
  ASSUME LifecycleInv, NEW o \in Ops, MarkCreated(o)
  PROVE  LifecycleInv'
<1>1. /\ LifecycleTypeOK /\ TaskOK(o) /\ SandboxOK(o) /\ own[o] = "made"
      /\ own[o] \in Holding /\ rec' = rec /\ alive' = alive
  BY DEF LifecycleInv, MarkCreated, At, Holding
<1>2. TaskOK(o)' /\ SandboxOK(o)'
  BY <1>1 DEF LifecycleTypeOK, TaskOK, SandboxOK, Early, Holding, MarkCreated, Goto, timeVars, lockVars, Write, Phases
<1>3. "using" \in OwnSteps \ Early
  BY DEF OwnSteps, Early, Holding
<1> QED
  BY <1>1, <1>2, <1>3, OwnerMoves, Zenon
     DEF LifecycleTypeOK, MarkCreated, Goto, timeVars, lockVars, Write, Phases

\* The record stays, with its owner or without.
LEMMA MarkCreatedFailsInductive ==
  ASSUME LifecycleInv, NEW o \in Ops, MarkCreatedFails(o)
  PROVE  LifecycleInv'
<1>1. /\ LifecycleTypeOK /\ TaskOK(o) /\ SandboxOK(o) /\ own[o] = "made"
      /\ own[o] \in Holding /\ rec' = rec /\ alive' = alive
  BY DEF LifecycleInv, MarkCreatedFails, At, Holding
<1>2. LifecycleTypeOK'
  BY <1>1 DEF LifecycleTypeOK, OwnSteps, Early, Holding, MarkCreatedFails, Goto, diskVars, timeVars, lockVars, Release
<1>3. \A x \in Ops \ {o} : Same(x)
  BY <1>1 DEF LifecycleTypeOK, TaskOK, Same, MarkCreatedFails, Goto, diskVars, timeVars, lockVars, Release
<1>4. TaskOK(o)' /\ SandboxOK(o)' /\ own'[o] \notin Early
  BY <1>1 DEF LifecycleTypeOK, TaskOK, SandboxOK, Early, Holding, MarkCreatedFails, Goto, diskVars, timeVars, lockVars, Release
<1> QED
  BY <1>1, <1>2, <1>3, <1>4, OwnerStep, Zenon

\* The caller is done.
LEMMA CleanInductive ==
  ASSUME LifecycleInv, NEW o \in Ops, Clean(o)
  PROVE  LifecycleInv'
<1>1. /\ LifecycleTypeOK /\ TaskOK(o) /\ SandboxOK(o) /\ own[o] = "using"
      /\ own[o] \in Holding /\ rec' = rec /\ alive' = alive
  BY DEF LifecycleInv, Clean, At, Holding
<1>2. TaskOK(o)' /\ SandboxOK(o)'
  BY <1>1 DEF LifecycleTypeOK, TaskOK, SandboxOK, Early, Holding, Clean, Goto, diskVars, timeVars, lockVars
<1>3. "deleting" \in OwnSteps \ Early
  BY DEF OwnSteps, Early, Holding
<1> QED
  BY <1>1, <1>2, <1>3, OwnerMoves, Zenon
     DEF LifecycleTypeOK, Clean, Goto, diskVars, timeVars, lockVars

\* The record stays and nobody has it.
LEMMA DropWithoutRuntimeInductive ==
  ASSUME LifecycleInv, NEW o \in Ops, DropWithoutRuntime(o)
  PROVE  LifecycleInv'
<1>1. /\ LifecycleTypeOK /\ TaskOK(o) /\ SandboxOK(o) /\ own[o] = "using"
      /\ own[o] \in Holding /\ rec' = rec /\ alive' = alive
  BY DEF LifecycleInv, DropWithoutRuntime, At, Holding
<1>2. TaskOK(o)' /\ SandboxOK(o)'
  BY <1>1 DEF LifecycleTypeOK, TaskOK, SandboxOK, Early, Holding, DropWithoutRuntime, Goto, diskVars, timeVars, Release
<1>3. "over" \in OwnSteps \ Early
  BY DEF OwnSteps, Early, Holding
<1> QED
  BY <1>1, <1>2, <1>3, OwnerMoves, Zenon
     DEF LifecycleTypeOK, DropWithoutRuntime, Goto, diskVars, timeVars, Release

\* The record goes once the sandbox is gone.
LEMMA CompleteInductive ==
  ASSUME LifecycleInv, NEW o \in Ops, Complete(o)
  PROVE  LifecycleInv'
<1>1. /\ LifecycleTypeOK /\ TaskOK(o) /\ SandboxOK(o) /\ own[o] = "complete"
      /\ own[o] \in Holding /\ rec' = rec /\ alive' = alive
  BY DEF LifecycleInv, Complete, At, Holding
<1>2. LifecycleTypeOK'
  BY <1>1 DEF LifecycleTypeOK, OwnSteps, Early, Holding, Complete, Goto, timeVars, lockVars, Erase, Release, Phases
<1>3. \A x \in Ops \ {o} : Same(x)
  BY <1>1 DEF LifecycleTypeOK, TaskOK, Same, Complete, Goto, timeVars, lockVars, Erase, Release, Phases
<1>4. TaskOK(o)' /\ SandboxOK(o)' /\ own'[o] \notin Early
  BY <1>1 DEF LifecycleTypeOK, TaskOK, SandboxOK, Early, Holding, Complete, Goto, timeVars, lockVars, Erase, Release, Phases
<1> QED
  BY <1>1, <1>2, <1>3, <1>4, OwnerStep, Zenon

\* The record stays as it was.
LEMMA DeferInductive ==
  ASSUME LifecycleInv, NEW o \in Ops, Defer(o)
  PROVE  LifecycleInv'
<1>1. /\ LifecycleTypeOK /\ TaskOK(o) /\ SandboxOK(o) /\ own[o] = "defer"
      /\ own[o] \in Holding /\ rec' = rec /\ alive' = alive
  BY Zenon DEF LifecycleInv, Defer, At, Holding
<1>2. record' = record /\ record[o] # "none" /\ record[o] \in Phases
  BY <1>1, Zenon DEF LifecycleTypeOK, TaskOK, Defer, Write, Holding
<1>3. /\ versions' \in [Ops -> SUBSET Phases] /\ versions'[o] \subseteq versions[o] \cup {record[o]}
      /\ \A x \in Ops \ {o} : versions'[x] = versions[x]
  <2>1. CASE versions' = [versions EXCEPT ![o] = @ \cup {record[o]}]
    BY <1>1, <1>2, <2>1 DEF LifecycleTypeOK
  <2>2. CASE versions' = versions
    BY <1>1, <2>2 DEF LifecycleTypeOK
  <2> QED
    BY <2>1, <2>2, Zenon DEF Defer, Write
<1>4. /\ own' = [own EXCEPT ![o] = "over"] /\ Release(o, o)
      /\ UNCHANGED <<owner, settled, capLock, sandbox>>
  BY DEF Defer, Goto, timeVars
<1>5. LifecycleTypeOK'
  BY <1>1, <1>2, <1>3, <1>4 DEF LifecycleTypeOK, OwnSteps, Release
<1>6. \A x \in Ops \ {o} : Same(x)
  BY <1>1, <1>2, <1>3, <1>4 DEF LifecycleTypeOK, Same, Release
<1>7. TaskOK(o)' /\ SandboxOK(o)' /\ own'[o] \notin Early
  BY <1>1, <1>2, <1>3, <1>4, Zenon DEF LifecycleTypeOK, TaskOK, SandboxOK, Early, Holding
<1> QED
  BY <1>1, <1>5, <1>6, <1>7, OwnerStep, Zenon

\* The sandbox is deleted by a task that has its Entry, or lost it and is done with it.
LEMMA DeleteInductive ==
  ASSUME LifecycleInv, NEW o \in Ops, Delete(o)
  PROVE  LifecycleInv'
<1>1. /\ LifecycleTypeOK /\ TaskOK(o) /\ SandboxOK(o) /\ own[o] \in {"deleting", "bare"}
      /\ rec' = rec /\ alive' = alive
      /\ UNCHANGED <<owner, record, versions, settled, lockHolder, capLock>>
  BY DEF LifecycleInv, Delete, At, diskVars, timeVars, lockVars
<1>2. /\ sandbox' \in {sandbox, [sandbox EXCEPT ![o] = "gone"]}
      /\ \E s \in {"over", "complete", "defer"} :
           /\ own' = [own EXCEPT ![o] = s]
           /\ s = "over" <=> own[o] = "bare"
           /\ s = "complete" => sandbox' = [sandbox EXCEPT ![o] = "gone"]
  BY <1>1 DEF Delete, Goto
<1>3. LifecycleTypeOK'
  BY <1>1, <1>2 DEF LifecycleTypeOK, OwnSteps, Holding
<1>4. \A x \in Ops \ {o} : Same(x)
  BY <1>1, <1>2 DEF LifecycleTypeOK, Same
<1>5. TaskOK(o)' /\ SandboxOK(o)' /\ own'[o] \notin Early
  BY <1>1, <1>2 DEF LifecycleTypeOK, TaskOK, SandboxOK, Early, Holding
<1>6. CASE own[o] = "deleting"
  BY <1>1, <1>3, <1>4, <1>5, <1>6, OwnerStep DEF Holding
<1>7. CASE own[o] = "bare"
  <2>1. own'[o] = "over" /\ sandbox'[o] \in {sandbox[o], "gone"}
    BY <1>1, <1>2, <1>7 DEF LifecycleTypeOK
  <2>2. \A p \in Procs : PassOK(p)'
    BY <1>1, <1>4, <2>1, PassesKept DEF Same, Early
  <2>3. \A x \in Ops \ {o} : TaskOK(x)' /\ SandboxOK(x)'
    BY <1>1, <1>4, TasksKept DEF LifecycleInv
  <2> QED
    BY <1>3, <1>5, <2>2, <2>3 DEF LifecycleInv
<1> QED
  BY <1>1, <1>6, <1>7

\* The capacity lock and a lock file of its own.
LEMMA BeginInductive ==
  ASSUME LifecycleInv, NEW p \in Procs, NEW o \in Ops, Begin(p, o)
  PROVE  LifecycleInv'
<1>1. /\ LifecycleTypeOK /\ TaskOK(o) /\ SandboxOK(o) /\ own[o] = "idle" /\ alive[p]
      /\ rec' = rec /\ alive' = alive /\ owner' = [owner EXCEPT ![o] = p]
      /\ UNCHANGED <<record, versions, settled, lockHolder, sandbox>>
      /\ capLock = Free
  BY DEF LifecycleInv, Begin, diskVars, timeVars
<1>2. \/ own' = [own EXCEPT ![o] = "over"] /\ capLock' = capLock
      \/ own' = [own EXCEPT ![o] = "begun"] /\ capLock' = o
  BY DEF Begin, Goto
<1>3. LifecycleTypeOK'
  BY <1>1, <1>2 DEF LifecycleTypeOK, OwnSteps, Early
<1>4. \A x \in Ops \ {o} : Same(x)
  BY <1>1, <1>2, LifecycleAssumption DEF LifecycleTypeOK, Same
<1>5. TaskOK(o)' /\ SandboxOK(o)'
  BY <1>1, <1>2 DEF LifecycleTypeOK, TaskOK, SandboxOK, Early, Holding
<1>6. \A q \in Procs : PassOK(q)'
  BY <1>1, <1>4, PassesKept, Zenon DEF Same, Early
<1>7. \A x \in Ops \ {o} : TaskOK(x)' /\ SandboxOK(x)'
  BY <1>1, <1>4, TasksKept DEF LifecycleInv
<1> QED
  BY <1>3, <1>5, <1>6, <1>7 DEF LifecycleInv

\* The lock of an operation that was just begun is free, or a scan has it.
LEMMA TakeLockInductive ==
  ASSUME LifecycleInv, NEW o \in Ops, TakeLock(o)
  PROVE  LifecycleInv'
<1>1. /\ LifecycleTypeOK /\ TaskOK(o) /\ SandboxOK(o) /\ own[o] = "begun" /\ capLock = o
      /\ rec' = rec /\ alive' = alive
      /\ UNCHANGED <<owner, record, versions, settled, sandbox>>
  BY Zenon DEF LifecycleInv, TakeLock, At, TaskOK, diskVars, timeVars
<1>2. \/ /\ lockHolder[o] = Free /\ lockHolder' = [lockHolder EXCEPT ![o] = o]
         /\ own' = [own EXCEPT ![o] = "locked"] /\ capLock' = capLock
      \/ own' = [own EXCEPT ![o] = "over"] /\ lockHolder' = lockHolder
  BY DEF TakeLock, Goto
<1>3. LifecycleTypeOK'
  BY <1>1, <1>2 DEF LifecycleTypeOK, OwnSteps, Early
<1>4. \A x \in Ops \ {o} : Same(x)
  BY <1>1, <1>2 DEF LifecycleTypeOK, Same
<1>5. TaskOK(o)' /\ SandboxOK(o)'
  BY <1>1, <1>2 DEF LifecycleTypeOK, TaskOK, SandboxOK, Early, Holding
<1>6. \A q \in Procs : lockHolder[o] = q => lockHolder'[o] = q
  BY <1>1, <1>2, LifecycleAssumption
<1>7. \A q \in Procs : PassOK(q)'
  BY <1>1, <1>4, <1>6, PassesKept DEF Same, Early
<1>8. \A x \in Ops \ {o} : TaskOK(x)' /\ SandboxOK(x)'
  BY <1>1, <1>4, TasksKept DEF LifecycleInv
<1> QED
  BY <1>3, <1>5, <1>7, <1>8 DEF LifecycleInv

\* A task that removes its lock file ends.
LEMMA OwnerUnlinks ==
  ASSUME LifecycleInv, NEW o \in Ops, own[o] \in {"locked", "unlock"},
         own' = [own EXCEPT ![o] = "over"], Unlink(o), rec' = Stale(o), alive' = alive,
         UNCHANGED <<owner, record, versions, settled, sandbox>>,
         capLock' = capLock \/ capLock = o
  PROVE  LifecycleInv'
<1>1. /\ LifecycleTypeOK /\ TaskOK(o) /\ SandboxOK(o) /\ record[o] = "none" /\ lockHolder[o] = o
      /\ ~Resolved(o)
  BY StepNames, Zenon DEF LifecycleInv, TaskOK, Early, Holding, Resolved
<1>2. /\ rec' \in [Procs -> PassT]
      /\ \A q \in Procs : rec'[q].pc = rec[q].pc /\ rec'[q].todo = rec[q].todo
  BY <1>1, StaleFacts DEF LifecycleTypeOK
<1>3. \A r \in Procs, x \in Ops : PassHas(r, x)' => PassHas(r, x)
  BY <1>2, Zenon DEF PassHas, On
<1>4. ASSUME NEW q \in Procs
      PROVE  ~PassHas(q, o)
  <2>1. PassOK(q) /\ lockHolder[o] # q
    BY <1>1, LifecycleAssumption DEF LifecycleInv
  <2> QED
    BY <2>1, StepNames DEF PassOK, PassHas, On, Has
<1>5. LifecycleTypeOK'
  BY <1>1, <1>2 DEF LifecycleTypeOK, OwnSteps, Unlink
<1>6. \A x \in Ops \ {o} : Same(x)
  BY <1>1 DEF LifecycleTypeOK, Same, Unlink
<1>7. own'[o] = "over"
  BY <1>1 DEF LifecycleTypeOK
<1>8. TaskOK(o)' /\ SandboxOK(o)' /\ own'[o] \notin Early
  BY <1>1, <1>7 DEF TaskOK, SandboxOK, Early, Holding
<1>9. Resolved(o)'
  BY <1>1, <1>3, <1>4, <1>7 DEF Resolved
<1>10. \A q \in Procs : PassOK(q)'
  BY <1>3, <1>4, <1>6, <1>8, <1>9, StaleKept, Zenon
<1>11. \A x \in Ops \ {o} : TaskOK(x)' /\ SandboxOK(x)'
  BY <1>6, TasksKept DEF LifecycleInv
<1> QED
  BY <1>5, <1>8, <1>10, <1>11 DEF LifecycleInv

\* The intent could not be written: nothing was sent, and nothing is left.
LEMMA WriteIntentFailsInductive ==
  ASSUME LifecycleInv, NEW o \in Ops, WriteIntentFails(o)
  PROVE  LifecycleInv'
<1>1. TaskOK(o) /\ own[o] = "locked" /\ capLock = o
  BY Zenon DEF LifecycleInv, WriteIntentFails, At, TaskOK
<1> QED
  BY <1>1, OwnerUnlinks, Zenon DEF WriteIntentFails, Goto, diskVars, timeVars

\* The end of an operation whose record is gone.
LEMMA RemoveLockInductive ==
  ASSUME LifecycleInv, NEW o \in Ops, RemoveLock(o)
  PROVE  LifecycleInv'
<1>1. /\ LifecycleTypeOK /\ TaskOK(o) /\ SandboxOK(o) /\ own[o] = "unlock" /\ own[o] \in Holding
      /\ own' = [own EXCEPT ![o] = "over"] /\ alive' = alive
      /\ UNCHANGED <<owner, record, versions, settled, capLock, sandbox>>
  BY DEF LifecycleInv, RemoveLock, At, Goto, Holding, diskVars, timeVars
<1>2. CASE Unlink(o) /\ rec' = Stale(o)
  BY <1>1, <1>2, OwnerUnlinks, Zenon
<1>3. CASE Release(o, o) /\ rec' = rec
  <2>1. LifecycleTypeOK'
    BY <1>1, <1>3 DEF LifecycleTypeOK, OwnSteps, Release
  <2>2. \A x \in Ops \ {o} : Same(x)
    BY <1>1, <1>3 DEF LifecycleTypeOK, Same, Release
  <2>3. TaskOK(o)' /\ SandboxOK(o)' /\ own'[o] \notin Early
    BY <1>1, <1>3, Zenon DEF LifecycleTypeOK, TaskOK, SandboxOK, Early, Holding
  <2> QED
    BY <1>1, <1>3, <2>1, <2>2, <2>3, OwnerStep
<1> QED
  BY <1>2, <1>3 DEF RemoveLock

-----------------------------------------------------------------------------
(* The reconciliation pass *)

\* A pass that goes on with the next record, or ends.
LEMMA ContinuedOK ==
  ASSUME LifecycleInv, NEW p \in Procs, rec[p].pc # "off", rec[p].todo # <<>>,
         NEW r \in [Procs -> PassT], rec' = Continue(p, r) \/ rec' = [r EXCEPT ![p] = Off],
         own' = own, alive' = alive
  PROVE  /\ PassOK(p)' /\ rec' \in [Procs -> PassT] /\ rec'[p].pc \in {"off", "next"}
         /\ \A q \in Procs \ {p} : rec'[q] = r[q]
<1>1. PassOK(p) /\ rec[p] \in PassT /\ alive[p]
  BY Zenon DEF LifecycleInv, LifecycleTypeOK, PassOK
<1>2. Off \in PassT /\ Off.pc = "off" /\ Off.todo = <<>> /\ Off.file = "linked"
  BY DEF Off, PassT, PassSteps
<1> DEFINE rest == Tail(rec[p].todo)
           e == [pc |-> "next", todo |-> rest, locks |-> rec[p].locks,
                 acted |-> rec[p].acted, file |-> "linked"]
<1>3. rest \in Seq(Ops) /\ \A i \in DOMAIN rest : i + 1 \in DOMAIN rec[p].todo
                                                 /\ rest[i] = rec[p].todo[i + 1] /\ i + 1 # 1
  BY <1>1 DEF PassT
<1>4. e \in PassT /\ e.pc = "next" /\ e.todo = rest /\ e.file = "linked"
  BY <1>1, <1>3, Zenon DEF PassT, PassSteps
<1>5. \A i \in DOMAIN rest : own[rest[i]] \notin Early
  BY <1>1, <1>3, Zenon DEF PassOK
<1>6. rec' = [r EXCEPT ![p] = Off] \/ (rec' = [r EXCEPT ![p] = e] /\ rest # <<>>)
  BY Zenon DEF Continue
<1> HIDE DEF e, rest
<1>7. CASE rec' = [r EXCEPT ![p] = Off]
  <2>1. rec'[p] = Off
    BY <1>7
  <2>2. PassOK(p)'
    BY <1>2, <2>1 DEF PassOK, Has, Repairing
  <2> QED
    BY <1>2, <1>7, <2>1, <2>2
<1>8. CASE rec' = [r EXCEPT ![p] = e] /\ rest # <<>>
  <2>1. rec'[p] = e
    BY <1>8
  <2>2. PassOK(p)'
    BY <1>1, <1>4, <1>5, <1>8, <2>1, Zenon DEF PassOK, Has, Repairing
  <2> QED
    BY <1>4, <1>8, <2>1, <2>2
<1> QED
  BY <1>6, <1>7, <1>8

\* A pass that has an Entry gives it up.
LEMMA PassLeaves ==
  ASSUME LifecycleInv, NEW p \in Procs, rec[p].pc \in Has, Release(This(p), p),
         rec' = Continue(p, rec) \/ rec' = [rec EXCEPT ![p] = Off],
         \A x \in Ops \ {This(p)} : record'[x] = record[x] /\ sandbox'[x] = sandbox[x]
                                    /\ versions'[x] = versions[x],
         UNCHANGED <<own, owner, alive, capLock, settled>>,
         record' \in [Ops -> Phases], versions' \in [Ops -> SUBSET Phases],
         sandbox' \in [Ops -> {"none", "pending", "live", "gone"}],
         NEW o \in Ops, o = This(p), SandboxOK(o)'
  PROVE  LifecycleInv'
<1>1. LifecycleTypeOK /\ rec \in [Procs -> PassT] /\ rec[p].todo # <<>> /\ rec[p].pc # "off"
  BY PassHolds, StepNames, Zenon DEF LifecycleInv, LifecycleTypeOK
<1>2. /\ PassOK(p)' /\ rec' \in [Procs -> PassT] /\ rec'[p].pc \notin Has
      /\ \A q \in Procs \ {p} : rec'[q] = rec[q]
  BY <1>1, ContinuedOK, StepNames
<1>3. /\ lockHolder' \in [Ops -> Ops \cup Procs \cup {Free}]
      /\ \A x \in Ops \ {o} : lockHolder'[x] = lockHolder[x]
  BY <1>1 DEF LifecycleTypeOK, Release
<1>4. LifecycleTypeOK'
  BY <1>1, <1>2, <1>3, Zenon DEF LifecycleTypeOK
<1>5. \A x \in Ops \ {o} : Same(x)
  BY <1>3 DEF Same
<1>6. \A x \in Ops \ {o} : ~PassHas(p, x)'
  BY <1>2 DEF PassHas, Has
<1> QED
  BY <1>2, <1>4, <1>5, <1>6, PassStep

\* A pass that has an Entry keeps it.
LEMMA PassMoves ==
  ASSUME LifecycleInv, NEW p \in Procs, rec[p].pc \in Has, NEW s \in Has, Step(p, s),
         \A x \in Ops \ {This(p)} : record'[x] = record[x] /\ sandbox'[x] = sandbox[x]
                                    /\ versions'[x] = versions[x],
         UNCHANGED <<own, owner, alive, capLock, settled, lockHolder>>,
         record' \in [Ops -> Phases], versions' \in [Ops -> SUBSET Phases],
         sandbox' \in [Ops -> {"none", "pending", "live", "gone"}],
         NEW o \in Ops, o = This(p), SandboxOK(o)',
         s \in Repairing => record'[o] # "none", s = "unlock" => record'[o] = "none",
         s = "finish" => sandbox'[o] \notin {"pending", "live"}
  PROVE  LifecycleInv'
<1>1. /\ LifecycleTypeOK /\ PassOK(p) /\ rec \in [Procs -> PassT] /\ rec[p] \in PassT
      /\ rec[p].todo # <<>> /\ Head(rec[p].todo) = o /\ lockHolder[o] = p
      /\ rec[p].file = "linked" /\ alive[p]
  <2>1. LifecycleTypeOK /\ PassOK(p) /\ rec \in [Procs -> PassT]
    BY DEF LifecycleInv, LifecycleTypeOK
  <2>2. alive[p]
    BY <2>1, StepNames, Zenon DEF PassOK
  <2> QED
    BY <2>1, <2>2, PassHolds, Zenon
<1> DEFINE e == [rec[p] EXCEPT !.pc = s]
<1>2. e \in PassT /\ e.pc = s /\ e.todo = rec[p].todo /\ e.file = "linked"
  BY <1>1, Zenon DEF PassT, PassSteps
<1>3. rec' = [rec EXCEPT ![p] = e]
  BY <1>1 DEF Step
<1> HIDE DEF e
<1>4. rec'[p] = e /\ rec' \in [Procs -> PassT] /\ \A q \in Procs \ {p} : rec'[q] = rec[q]
  BY <1>1, <1>2, <1>3, Zenon
<1>5. \A i \in DOMAIN rec[p].todo : own[rec[p].todo[i]] \notin Early
  BY <1>1, StepNames, Zenon DEF PassOK
<1>6. PassOK(p)'
  <2>1. /\ s \notin {"off", "scanned", "orphan", "opened", "claimed"} /\ rec'[p].pc = s
        /\ rec'[p].todo = rec[p].todo /\ rec'[p].file = "linked" /\ lockHolder'[o] = p
        /\ alive'[p]
    BY <1>1, <1>2, <1>4, StepNames, Zenon
  <2>2. \A i \in DOMAIN rec'[p].todo : own'[rec'[p].todo[i]] \notin Early
    BY <1>5, <2>1, Zenon
  <2> QED
    BY <1>1, <2>1, <2>2 DEF PassOK
<1>7. LifecycleTypeOK'
  BY <1>1, <1>4, Zenon DEF LifecycleTypeOK
<1>8. \A x \in Ops \ {o} : Same(x) /\ ~PassHas(p, x)'
  BY <1>1, <1>2, <1>4, Zenon DEF Same, PassHas, On
<1> QED
  BY <1>4, <1>6, <1>7, <1>8, PassStep, Zenon

\* What a pass that has an Entry knows.
LEMMA PassFacts ==
  ASSUME LifecycleInv, NEW p \in Procs, rec[p].pc \in Has
  PROVE  /\ LifecycleTypeOK /\ This(p) \in Ops /\ SandboxOK(This(p)) /\ alive[p]
         /\ rec[p].pc \in Repairing => record[This(p)] # "none"
         /\ rec[p].pc = "unlock" => record[This(p)] = "none"
         /\ rec[p].pc = "finish" => sandbox[This(p)] \notin {"pending", "live"}
<1>1. This(p) \in Ops /\ PassOK(p) /\ Head(rec[p].todo) = This(p)
  BY PassHolds, Zenon DEF LifecycleInv
<1> QED
  BY <1>1, StepNames, Zenon DEF LifecycleInv, PassOK

\* A listing without the marker is believed when the sandbox cannot be there.
LEMMA FindInductive ==
  ASSUME LifecycleInv, NEW p \in Procs, Find(p)
  PROVE  LifecycleInv'
<1>1. /\ rec[p].pc = "find" /\ rec[p].pc \in Has /\ rec[p].pc \in Repairing
      /\ UNCHANGED <<own, owner, alive, capLock, settled, lockHolder, record, versions, sandbox>>
  BY Zenon DEF Find, In, Has, Repairing, opVars, diskVars, timeVars, lockVars
<1>2. PICK o \in Ops : o = This(p) /\ LifecycleTypeOK /\ SandboxOK(o) /\ record[o] # "none"
  BY <1>1, PassFacts
<1>3. PICK found \in Lookups(p, o) :
        Step(p, IF found = "found" THEN "found"
                ELSE IF found = "absent" /\ Settled(p, o) THEN "finish" ELSE "defer")
  BY <1>2 DEF Find
<1>4. found = "absent" /\ Settled(p, o) => sandbox[o] \notin {"pending", "live"}
  BY <1>2, <1>3 DEF Lookups, Settled, SandboxOK
<1>5. PICK s \in {"found", "finish", "defer"} :
        Step(p, s) /\ (s = "finish" => sandbox[o] \notin {"pending", "live"})
  BY <1>3, <1>4
<1>6. s \in Has /\ s # "unlock"
  BY DEF Has
<1>7. SandboxOK(o)'
  BY <1>1, <1>2, Zenon DEF SandboxOK
<1> QED
  BY <1>1, <1>2, <1>5, <1>6, <1>7, PassMoves DEF LifecycleTypeOK

\* What was found is journaled before it is deleted.
LEMMA VerifyInductive ==
  ASSUME LifecycleInv, NEW p \in Procs, Verify(p)
  PROVE  LifecycleInv'
<1>1. /\ rec[p].pc \in Has /\ rec[p].pc \in Repairing
      /\ UNCHANGED <<own, owner, alive, capLock, settled, sandbox>>
  BY DEF Verify, In, Has, Repairing, opVars, timeVars
<1>2. PICK o \in Ops : o = This(p) /\ LifecycleTypeOK /\ SandboxOK(o) /\ record[o] # "none"
  BY <1>1, PassFacts
<1>3. CASE Write(o, "created") /\ Step(p, "delete") /\ lockHolder' = lockHolder
  <2>1. /\ record' \in [Ops -> Phases] /\ versions' \in [Ops -> SUBSET Phases]
        /\ record'[o] = "created" /\ versions'[o] = versions[o] \cup {"created"}
        /\ \A x \in Ops \ {o} : record'[x] = record[x] /\ versions'[x] = versions[x]
    BY <1>2, <1>3 DEF LifecycleTypeOK, Write, Phases
  <2>2. SandboxOK(o)'
    BY <1>1, <1>2, <2>1, Zenon DEF SandboxOK
  <2>3. "delete" \in Has
    BY DEF Has
  <2> QED
    BY <1>1, <1>2, <1>3, <2>1, <2>2, <2>3, PassMoves DEF LifecycleTypeOK
<1>4. CASE Skip(p) /\ UNCHANGED <<record, versions>>
  <2>1. SandboxOK(o)'
    BY <1>1, <1>2, <1>4, Zenon DEF SandboxOK
  <2> QED
    BY <1>1, <1>2, <1>4, <2>1, PassLeaves DEF LifecycleTypeOK, Skip
<1> QED
  BY <1>2, <1>3, <1>4 DEF Verify, lockVars

\* The sandbox of an operation that no task has.
LEMMA DeleteFoundInductive ==
  ASSUME LifecycleInv, NEW p \in Procs, DeleteFound(p)
  PROVE  LifecycleInv'
<1>1. /\ rec[p].pc \in Has /\ rec[p].pc \in Repairing
      /\ UNCHANGED <<own, owner, alive, capLock, settled, lockHolder, record, versions>>
  BY Zenon DEF DeleteFound, In, Has, Repairing, opVars, diskVars, timeVars, lockVars
<1>2. PICK o \in Ops : o = This(p) /\ LifecycleTypeOK /\ SandboxOK(o) /\ record[o] # "none"
  BY <1>1, PassFacts, Zenon
<1>3. /\ sandbox' \in {sandbox, [sandbox EXCEPT ![o] = "gone"]}
      /\ \E s \in {"finish", "defer"} :
           Step(p, s) /\ (s = "finish" => sandbox' = [sandbox EXCEPT ![o] = "gone"])
  BY <1>2, Zenon DEF DeleteFound
<1>4. PICK s \in {"finish", "defer"} :
        Step(p, s) /\ (s = "finish" => sandbox' = [sandbox EXCEPT ![o] = "gone"])
  BY <1>3
<1>5. /\ sandbox' \in [Ops -> {"none", "pending", "live", "gone"}]
      /\ sandbox'[o] \in {sandbox[o], "gone"} /\ (s = "finish" => sandbox'[o] = "gone")
      /\ \A x \in Ops \ {o} : sandbox'[x] = sandbox[x]
  BY <1>2, <1>3, <1>4 DEF LifecycleTypeOK
<1>6. SandboxOK(o)' /\ s \in Has /\ s # "unlock"
  BY <1>1, <1>2, <1>5, Zenon DEF SandboxOK, Has
<1> QED
  BY <1>1, <1>2, <1>4, <1>5, <1>6, PassMoves DEF LifecycleTypeOK

\* The record goes once the sandbox is known to be gone.
LEMMA FinishInductive ==
  ASSUME LifecycleInv, NEW p \in Procs, Finish(p)
  PROVE  LifecycleInv'
<1>1. /\ rec[p].pc = "finish" /\ rec[p].pc \in Has
      /\ UNCHANGED <<own, owner, alive, capLock, settled, sandbox>>
  BY Zenon DEF Finish, In, Has, opVars, timeVars
<1>2. PICK o \in Ops : /\ o = This(p) /\ LifecycleTypeOK /\ SandboxOK(o)
                       /\ sandbox[o] \notin {"pending", "live"}
  BY <1>1, PassFacts, Zenon
<1>3. CASE Erase(o) /\ Step(p, "unlock") /\ lockHolder' = lockHolder
  <2>1. /\ record' \in [Ops -> Phases] /\ versions' \in [Ops -> SUBSET Phases]
        /\ record'[o] = "none"
        /\ \A x \in Ops \ {o} : record'[x] = record[x] /\ versions'[x] = versions[x]
    BY <1>2, <1>3 DEF LifecycleTypeOK, Erase, Phases
  <2>2. SandboxOK(o)'
    BY <1>1, <1>2, Zenon DEF SandboxOK
  <2>3. "unlock" \in Has /\ "unlock" \notin Repairing
    BY DEF Has, Repairing
  <2> QED
    BY <1>1, <1>2, <1>3, <2>1, <2>2, <2>3, PassMoves DEF LifecycleTypeOK
<1>4. CASE Skip(p) /\ UNCHANGED <<record, versions>>
  <2>1. SandboxOK(o)'
    BY <1>1, <1>2, <1>4, Zenon DEF SandboxOK
  <2> QED
    BY <1>1, <1>2, <1>4, <2>1, PassLeaves DEF LifecycleTypeOK, Skip
<1> QED
  BY <1>2, <1>3, <1>4 DEF Finish, lockVars

\* The record is kept for later.
LEMMA KeepInductive ==
  ASSUME LifecycleInv, NEW p \in Procs, Keep(p)
  PROVE  LifecycleInv'
<1>1. /\ rec[p].pc \in Has /\ rec[p].pc \in Repairing /\ Skip(p)
      /\ UNCHANGED <<own, owner, alive, capLock, settled, sandbox>>
  BY Zenon DEF Keep, In, Has, Repairing, opVars
<1>2. PICK o \in Ops : o = This(p) /\ LifecycleTypeOK /\ SandboxOK(o) /\ record[o] # "none"
  BY <1>1, PassFacts, Zenon
<1>3. record' = record /\ record[o] \in Phases
  BY <1>2, Zenon DEF LifecycleTypeOK, Keep, Write
<1>4. /\ versions' \in [Ops -> SUBSET Phases] /\ versions'[o] \subseteq versions[o] \cup {record[o]}
      /\ \A x \in Ops \ {o} : versions'[x] = versions[x]
  <2>1. CASE versions' = [versions EXCEPT ![o] = @ \cup {record[o]}]
    BY <1>2, <1>3, <2>1 DEF LifecycleTypeOK
  <2>2. CASE versions' = versions
    BY <1>2, <2>2 DEF LifecycleTypeOK
  <2> QED
    BY <1>2, <2>1, <2>2, Zenon DEF Keep, Write
<1>5. SandboxOK(o)'
  BY <1>1, <1>2, <1>3, <1>4, Zenon DEF SandboxOK
<1> QED
  BY <1>1, <1>2, <1>3, <1>4, <1>5, PassLeaves DEF LifecycleTypeOK, Skip

\* The time of the pass is over.
LEMMA BudgetElapsedInductive ==
  ASSUME LifecycleInv, NEW p \in Procs, BudgetElapsed(p)
  PROVE  LifecycleInv'
<1>1. /\ rec[p].pc \in Has /\ rec[p].pc \in Repairing /\ rec' = [rec EXCEPT ![p] = Off]
      /\ UNCHANGED <<own, owner, alive, capLock, settled, record, versions>>
      /\ Release(This(p), p)
  BY DEF BudgetElapsed, In, Has, Repairing, opVars, diskVars, timeVars
<1>2. PICK o \in Ops : o = This(p) /\ LifecycleTypeOK /\ SandboxOK(o) /\ record[o] # "none"
  BY <1>1, PassFacts, Zenon
<1>3. sandbox' \in {sandbox, [sandbox EXCEPT ![o] = "gone"]}
  BY <1>2 DEF BudgetElapsed
<1>4. /\ sandbox' \in [Ops -> {"none", "pending", "live", "gone"}]
      /\ sandbox'[o] \in {sandbox[o], "gone"}
      /\ \A x \in Ops \ {o} : sandbox'[x] = sandbox[x]
  BY <1>2, <1>3 DEF LifecycleTypeOK
<1>5. SandboxOK(o)'
  BY <1>1, <1>2, <1>4, Zenon DEF SandboxOK
<1> QED
  BY <1>1, <1>2, <1>4, <1>5, PassLeaves, Zenon DEF LifecycleTypeOK

\* A pass that removes the lock file of an operation whose record is gone.
LEMMA PassUnlinks ==
  ASSUME LifecycleInv, NEW p \in Procs, rec[p].pc \in {"orphan", "claimed", "unlock"},
         NEW o \in Ops, On(p, o), record[o] = "none", own[o] \in {"over", "bare"}, Unlink(o),
         UNCHANGED <<own, owner, record, versions, settled, capLock, alive, sandbox>>,
         \A q \in Procs \ {p} : rec'[q] = Stale(o)[q],
         rec' \in [Procs -> PassT], PassOK(p)', rec'[p].pc \notin Has
  PROVE  LifecycleInv'
<1>1. LifecycleTypeOK /\ TaskOK(o) /\ SandboxOK(o) /\ PassOK(p) /\ rec[p] \in PassT
      /\ rec \in [Procs -> PassT]
  BY Zenon DEF LifecycleInv, LifecycleTypeOK
<1>2. lockHolder[o] = p \/ Resolved(o)
  BY <1>1, Zenon DEF PassOK, PassT, On, Has
<1>3. ASSUME NEW q \in Procs \ {p}
      PROVE  ~PassHas(q, o)
  <2>1. PassHas(q, o) => lockHolder[o] = q
    BY StepNames, Zenon DEF LifecycleInv, PassOK, PassHas, On, Has
  <2> QED
    BY <1>2, <2>1, Zenon DEF Resolved
<1>4. \A q \in Procs \ {p} : rec'[q].pc = rec[q].pc /\ rec'[q].todo = rec[q].todo
  BY <1>1, StaleFacts, Zenon
<1>5. \A r \in Procs, x \in Ops : PassHas(r, x)' => PassHas(r, x) /\ r # p
  BY <1>4, Zenon DEF PassHas, On, Has
<1>6. LifecycleTypeOK'
  BY <1>1, Zenon DEF LifecycleTypeOK, Unlink
<1>7. \A x \in Ops \ {o} : Same(x)
  BY <1>1, Zenon DEF LifecycleTypeOK, Same, Unlink
<1>8. TaskOK(o)' /\ SandboxOK(o)'
  BY <1>1, Zenon DEF TaskOK, SandboxOK, Early, Holding
<1>9. Resolved(o)'
  BY <1>3, <1>5, Zenon DEF Resolved
<1>10. \A q \in Procs \ {p} : PassOK(q)'
  BY <1>3, <1>5, <1>7, <1>9, StaleKept, Zenon
<1>11. \A x \in Ops \ {o} : TaskOK(x)' /\ SandboxOK(x)'
  BY <1>7, TasksKept, Zenon DEF LifecycleInv
<1> QED
  BY <1>6, <1>8, <1>10, <1>11, Zenon DEF LifecycleInv

\* The end of a repair: the lock file goes, or stays without a record.
LEMMA FinishLockInductive ==
  ASSUME LifecycleInv, NEW p \in Procs, FinishLock(p)
  PROVE  LifecycleInv'
<1>1. /\ rec[p].pc = "unlock" /\ rec[p].pc \in Has
      /\ UNCHANGED <<own, owner, alive, capLock, settled, record, versions, sandbox>>
  BY Zenon DEF FinishLock, In, Has, opVars, diskVars, timeVars
<1>2. PICK o \in Ops : /\ o = This(p) /\ LifecycleTypeOK /\ SandboxOK(o) /\ record[o] = "none"
                       /\ own[o] \in {"over", "bare"} /\ On(p, o)
  BY <1>1, PassFacts, PassHolds, Zenon DEF PassHas
<1>3. CASE Unlink(o) /\ rec' = Continue(p, Stale(o))
  <2>1. Stale(o) \in [Procs -> PassT] /\ rec[p].todo # <<>> /\ rec[p].pc # "off"
    BY <1>1, <1>2, StaleFacts, Zenon DEF LifecycleTypeOK, On
  <2>2. /\ PassOK(p)' /\ rec' \in [Procs -> PassT] /\ rec'[p].pc \notin Has
        /\ \A q \in Procs \ {p} : rec'[q] = Stale(o)[q]
    BY <1>1, <1>3, <2>1, ContinuedOK, StepNames, Zenon
  <2> QED
    BY <1>1, <1>2, <1>3, <2>2, PassUnlinks, Zenon
<1>4. CASE Skip(p)
  <2>1. SandboxOK(o)'
    BY <1>1, <1>2, Zenon DEF SandboxOK
  <2> QED
    BY <1>1, <1>2, <1>4, <2>1, PassLeaves, Zenon DEF LifecycleTypeOK, Skip
<1> QED
  BY <1>2, <1>3, <1>4, Zenon DEF FinishLock
=============================================================================
