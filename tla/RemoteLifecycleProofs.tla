------------------------ MODULE RemoteLifecycleProofs ------------------------
(***************************************************************************)
(* Proofs about RemoteLifecycle, for any number of operations, processes,  *)
(* credentials, records and faults: a pass that looks for records and      *)
(* claims them, the provider, time and crashes keep LifecycleInv, and from *)
(* it no sandbox is forgotten, owned twice or deleted while it is used.    *)
(***************************************************************************)
EXTENDS RemoteEntriesProofs

-----------------------------------------------------------------------------
(* Passes that have no Entry *)

\* A step of a pass that changes nothing but itself and a lock that nobody else has.
LEMMA PassAlone ==
  ASSUME LifecycleInv, NEW p \in Procs,
         UNCHANGED <<own, owner, record, versions, settled, capLock, alive, sandbox>>,
         lockHolder' \in [Ops -> Ops \cup Procs \cup {Free}],
         \A x \in Ops : lockHolder'[x] = lockHolder[x] \/ lockHolder[x] \in {p, Free},
         \A q \in Procs \ {p} : rec'[q] = rec[q], rec' \in [Procs -> PassT], PassOK(p)',
         \A x \in Ops : PassHas(p, x)' => ~Resolved(x)
  PROVE  LifecycleInv'
<1>1. LifecycleTypeOK'
  BY DEF LifecycleInv, LifecycleTypeOK
<1>2. ASSUME NEW x \in Ops
      PROVE  TaskOK(x)' /\ SandboxOK(x)'
  <2>1. lockHolder[x] = x => lockHolder'[x] = x
    BY LifecycleAssumption
  <2>2. TaskOK(x)'
    <3>1. TaskOK(x)
      BY DEF LifecycleInv
    <3> QED
      BY <2>1, <3>1 DEF TaskOK
  <2> QED
    BY <2>2 DEF LifecycleInv, SandboxOK
<1>3. ASSUME NEW q \in Procs \ {p}
      PROVE  PassOK(q)'
  <2>1. PassOK(q) /\ rec[q] \in PassT /\ rec'[q] = rec[q]
    BY DEF LifecycleInv, LifecycleTypeOK
  <2>2. CASE rec[q].todo = <<>>
    <3>1. rec[q].pc \in {"off", "scanned"}
      BY <2>1, <2>2 DEF PassOK
    <3>2. rec[q].pc \in Waiting /\ rec[q].file = "linked"
      BY <2>1, <3>1 DEF PassOK, Waiting
    <3> QED
      BY <2>1, <3>2, WaitingKept
  <2>3. ASSUME NEW x \in Ops, On(q, x)
        PROVE  PassOK(q)'
    <3>1. \A r \in Procs \ {p} : PassHas(r, x)' => PassHas(r, x)
      BY DEF PassHas, On
    <3>2. Resolved(x) => Resolved(x)'
      BY <3>1 DEF Resolved
    <3>3. lockHolder[x] = q => lockHolder'[x] = q
      BY LifecycleAssumption
    <3> QED
      BY <2>1, <2>3, <3>2, <3>3, PassKept
  <2>4. rec[q].todo # <<>> => \E x \in Ops : On(q, x)
    BY <2>1 DEF On, PassT
  <2> QED
    BY <2>2, <2>3, <2>4
<1> QED
  BY <1>1, <1>2, <1>3 DEF LifecycleInv

\* The listing names operations that were begun.
LEMMA ScanInductive ==
  ASSUME LifecycleInv, NEW p \in Procs, Scan(p)
  PROVE  LifecycleInv'
<1>1. /\ alive[p] /\ LifecycleTypeOK
      /\ UNCHANGED <<own, owner, record, versions, settled, capLock, alive, sandbox, lockHolder>>
  BY DEF Scan, In, LifecycleInv, opVars, diskVars, timeVars, lockVars
<1>2. PICK n \in 0..Len(written) : \E nonces \in [1..n -> Records] :
        rec' = [rec EXCEPT ![p] =
                 [pc |-> "scanned", todo |-> nonces,
                  locks |-> {o \in Ops \ Records : lockPath[o]}, acted |-> 0, file |-> "linked"]]
  BY Zenon DEF Scan
<1>3. PICK nonces \in [1..n -> Records] :
        rec' = [rec EXCEPT ![p] =
                 [pc |-> "scanned", todo |-> nonces,
                  locks |-> {o \in Ops \ Records : lockPath[o]}, acted |-> 0, file |-> "linked"]]
  BY <1>2, Zenon
<1> DEFINE e == [pc |-> "scanned", todo |-> nonces,
                 locks |-> {o \in Ops \ Records : lockPath[o]}, acted |-> 0, file |-> "linked"]
<1>4. \A o \in Records : o \in Ops /\ own[o] \notin Early
  <2>1. \A o \in Ops : own[o] \in Early => record[o] = "none"
    BY Zenon DEF LifecycleInv, TaskOK
  <2> QED
    BY <2>1 DEF Records
<1>5. nonces \in Seq(Ops) /\ \A i \in DOMAIN nonces : nonces[i] \in Records
  BY <1>4
<1>6. e \in PassT /\ e.pc = "scanned" /\ e.todo = nonces /\ e.file = "linked"
  BY <1>5 DEF PassT, PassSteps
<1> HIDE DEF e
<1>7. rec'[p] = e /\ rec' \in [Procs -> PassT] /\ \A q \in Procs \ {p} : rec'[q] = rec[q]
  BY <1>1, <1>3, <1>6 DEF LifecycleTypeOK, e
<1>8. PassOK(p)' /\ \A x \in Ops : ~PassHas(p, x)'
  BY <1>1, <1>4, <1>5, <1>6, <1>7, Zenon DEF PassOK, PassHas, Has, Repairing
<1> QED
  BY <1>1, <1>7, <1>8, PassAlone DEF LifecycleTypeOK

\* A pass with the same operations still to go through, that holds no Entry afterwards.
LEMMA PassTurns ==
  ASSUME LifecycleInv, NEW p \in Procs, alive[p], NEW e \in PassT, rec' = [rec EXCEPT ![p] = e],
         UNCHANGED <<own, owner, record, versions, settled, capLock, alive, sandbox>>,
         lockHolder' \in [Ops -> Ops \cup Procs \cup {Free}],
         \A x \in Ops : lockHolder'[x] = lockHolder[x] \/ lockHolder[x] \in {p, Free},
         e.pc \in {"off", "scanned", "orphan", "next", "opened", "claimed"},
         e.pc \notin {"off", "scanned"} => e.todo # <<>>,
         \A i \in DOMAIN e.todo : (e.pc = "orphan" /\ i = 1) \/ own[e.todo[i]] \notin Early,
         e.pc \in {"orphan", "claimed"} /\ e.file = "linked" => lockHolder'[Head(e.todo)] = p,
         e.file = "unlinked" => e.pc \in {"opened", "claimed"} /\ Resolved(Head(e.todo))
  PROVE  LifecycleInv'
<1>1. rec'[p] = e /\ rec' \in [Procs -> PassT] /\ \A q \in Procs \ {p} : rec'[q] = rec[q]
  BY DEF LifecycleInv, LifecycleTypeOK
<1>2. e.pc \notin Has /\ e.pc \notin Repairing /\ e.file \in {"linked", "unlinked"}
  BY DEF Has, Repairing, PassT
<1>3. \A x \in Ops : ~PassHas(p, x)'
  BY <1>1, <1>2 DEF PassHas, Has
<1>4. \A x \in Ops, q \in Procs : PassHas(q, x)' => PassHas(q, x)
  BY <1>1, <1>3 DEF PassHas, On
<1>5. e.file = "unlinked" => Resolved(Head(rec[p].todo))'
  BY <1>1, <1>4 DEF Resolved, PassT
<1>6. PassOK(p)'
  BY <1>1, <1>2, <1>5 DEF PassOK
<1> QED
  BY <1>1, <1>3, <1>6, PassAlone

\* What a pass knows of the operations it goes through.
LEMMA TodoFacts ==
  ASSUME LifecycleInv, NEW p \in Procs
  PROVE  /\ LifecycleTypeOK /\ PassOK(p) /\ rec[p] \in PassT
         /\ rec[p].pc # "orphan" => \A i \in DOMAIN rec[p].todo : own[rec[p].todo[i]] \notin Early
         /\ rec[p].pc \notin {"off", "scanned"} =>
              /\ rec[p].todo # <<>> /\ This(p) \in Ops /\ On(p, This(p)) /\ Head(rec[p].todo) = This(p)
BY DEF LifecycleInv, LifecycleTypeOK, PassOK, PassT, This, On

\* The lock of an orphan is taken, or was taken or removed by somebody else.
LEMMA TakeOrphanInductive ==
  ASSUME LifecycleInv, NEW p \in Procs, TakeOrphan(p)
  PROVE  LifecycleInv'
<1>1. /\ alive[p] /\ rec[p].pc = "scanned" /\ LifecycleTypeOK /\ PassOK(p) /\ rec[p] \in PassT
      /\ \A i \in DOMAIN rec[p].todo : own[rec[p].todo[i]] \notin Early
      /\ rec[p].file = "linked"
      /\ UNCHANGED <<own, owner, record, versions, settled, capLock, alive, sandbox>>
  BY TodoFacts DEF TakeOrphan, In, opVars, diskVars, timeVars, PassOK
<1>2. PICK o \in rec[p].locks :
        \/ /\ lockHolder[o] = Free /\ lockHolder' = [lockHolder EXCEPT ![o] = p]
           /\ rec' = [rec EXCEPT ![p] =
                       [pc |-> "orphan", todo |-> <<o>> \o rec[p].todo,
                        locks |-> rec[p].locks \ {o}, acted |-> 0, file |-> "linked"]]
        \/ rec' = [rec EXCEPT ![p] = [rec[p] EXCEPT !.locks = rec[p].locks \ {o}]] /\ lockHolder' = lockHolder
  BY Zenon DEF TakeOrphan
<1>3. o \in Ops
  BY <1>1 DEF PassT
<1>4. CASE lockHolder[o] = Free /\ lockHolder' = [lockHolder EXCEPT ![o] = p]
           /\ rec' = [rec EXCEPT ![p] =
                       [pc |-> "orphan", todo |-> <<o>> \o rec[p].todo,
                        locks |-> rec[p].locks \ {o}, acted |-> 0, file |-> "linked"]]
  <2> DEFINE t == <<o>> \o rec[p].todo
             e == [pc |-> "orphan", todo |-> t, locks |-> rec[p].locks \ {o}, acted |-> 0,
                   file |-> "linked"]
  <2>1. /\ t \in Seq(Ops) /\ t # <<>> /\ Head(t) = o
        /\ \A i \in DOMAIN t : i = 1 \/ (i - 1 \in DOMAIN rec[p].todo /\ t[i] = rec[p].todo[i - 1])
    BY <1>1, <1>3 DEF PassT
  <2>2. e \in PassT /\ e.pc = "orphan" /\ e.todo = t /\ e.file = "linked"
    BY <1>1, <2>1 DEF PassT, PassSteps
  <2>3. rec' = [rec EXCEPT ![p] = e]
    BY <1>4
  <2> HIDE DEF e, t
  <2>4. /\ lockHolder' \in [Ops -> Ops \cup Procs \cup {Free}] /\ lockHolder'[o] = p
        /\ \A x \in Ops : lockHolder'[x] = lockHolder[x] \/ lockHolder[x] = Free
    BY <1>1, <1>3, <1>4 DEF LifecycleTypeOK
  <2> QED
    <3>1. \A i \in DOMAIN e.todo : (e.pc = "orphan" /\ i = 1) \/ own[e.todo[i]] \notin Early
      BY <1>1, <2>1, <2>2
    <3>2. /\ \A x \in Ops : lockHolder'[x] = lockHolder[x] \/ lockHolder[x] \in {p, Free}
          /\ lockHolder' \in [Ops -> Ops \cup Procs \cup {Free}]
      BY <2>4
    <3>3. /\ e.pc \in {"off", "scanned", "orphan", "next", "opened", "claimed"}
          /\ e.pc \notin {"off", "scanned"} => e.todo # <<>>
          /\ e.pc \in {"orphan", "claimed"} /\ e.file = "linked" => lockHolder'[Head(e.todo)] = p
          /\ e.file # "unlinked"
      BY <2>1, <2>2, <2>4
    <3> QED
      BY <1>1, <2>2, <2>3, <3>1, <3>2, <3>3, PassTurns, Zenon
<1>5. CASE rec' = [rec EXCEPT ![p] = [rec[p] EXCEPT !.locks = rec[p].locks \ {o}]] /\ lockHolder' = lockHolder
  <2> DEFINE e == [rec[p] EXCEPT !.locks = rec[p].locks \ {o}]
  <2>1. e \in PassT /\ e.pc = "scanned" /\ e.todo = rec[p].todo /\ e.file = "linked"
    BY <1>1, Zenon DEF PassT
  <2>2. rec' = [rec EXCEPT ![p] = e]
    BY <1>5, Zenon
  <2> HIDE DEF e
  <2> QED
    BY <1>1, <1>5, <2>1, <2>2, PassTurns, Zenon DEF LifecycleTypeOK
<1> QED
  BY <1>2, <1>4, <1>5


\* The lock file of an orphan is removed, or was too young and is let go.
LEMMA RemoveOrphanInductive ==
  ASSUME LifecycleInv, NEW p \in Procs, RemoveOrphan(p)
  PROVE  LifecycleInv'
<1>1. /\ alive[p] /\ rec[p].pc = "orphan" /\ rec[p].todo # <<>>
      /\ UNCHANGED <<own, owner, record, versions, settled, capLock, alive, sandbox>>
  BY TodoFacts DEF RemoveOrphan, In, opVars, diskVars, timeVars
<1>2. PICK o \in Ops : o = This(p) /\ On(p, o) /\ LifecycleTypeOK /\ PassOK(p) /\ rec[p] \in PassT
  BY <1>1, TodoFacts
<1> DEFINE rest == Tail(rec[p].todo)
           e == [pc |-> "scanned", todo |-> rest, locks |-> rec[p].locks, acted |-> 0,
                 file |-> "linked"]
<1>3. rest \in Seq(Ops) /\ \A i \in DOMAIN rest : i + 1 \in DOMAIN rec[p].todo
                                                 /\ rest[i] = rec[p].todo[i + 1] /\ i + 1 # 1
  BY <1>1, <1>2 DEF PassT
<1>4. e \in PassT /\ e.pc = "scanned" /\ e.todo = rest /\ e.file = "linked"
  BY <1>2, <1>3 DEF PassT, PassSteps
<1>5. \A i \in DOMAIN rest : own[rest[i]] \notin Early
  BY <1>2, <1>3 DEF PassOK
<1>6. \/ /\ record[o] = "none" /\ own[o] = "over"
         /\ Unlink(o) /\ rec' = [Stale(o) EXCEPT ![p] = e]
      \/ Release(o, p) /\ rec' = [rec EXCEPT ![p] = e]
  BY <1>2, Zenon DEF RemoveOrphan
<1> HIDE DEF e, rest
<1>7. CASE /\ record[o] = "none" /\ own[o] = "over"
           /\ Unlink(o) /\ rec' = [Stale(o) EXCEPT ![p] = e]
  <2>1. Stale(o) \in [Procs -> PassT]
    BY <1>2, StaleFacts DEF LifecycleTypeOK
  <2>2. /\ rec'[p] = e /\ rec' \in [Procs -> PassT]
        /\ \A q \in Procs \ {p} : rec'[q] = Stale(o)[q]
    BY <1>4, <1>7, <2>1
  <2>3. PassOK(p)' /\ rec'[p].pc \notin Has
    BY <1>1, <1>4, <1>5, <2>2 DEF PassOK, Has, Repairing
  <2> QED
    BY <1>1, <1>2, <1>7, <2>2, <2>3, PassUnlinks
<1>8. CASE Release(o, p) /\ rec' = [rec EXCEPT ![p] = e]
  <2>1. /\ lockHolder' \in [Ops -> Ops \cup Procs \cup {Free}]
        /\ \A x \in Ops : lockHolder'[x] = lockHolder[x] \/ lockHolder[x] \in {p, Free}
    BY <1>2, <1>8 DEF LifecycleTypeOK, Release
  <2>2. \A i \in DOMAIN e.todo : (e.pc = "orphan" /\ i = 1) \/ own[e.todo[i]] \notin Early
    BY <1>4, <1>5
  <2>3. /\ e.pc \in {"off", "scanned", "orphan", "next", "opened", "claimed"}
        /\ e.pc \notin {"off", "scanned"} => e.todo # <<>>
        /\ ~(e.pc \in {"orphan", "claimed"} /\ e.file = "linked")
        /\ e.file # "unlinked"
    BY <1>4
  <2> QED
    BY <1>1, <1>4, <1>8, <2>1, <2>2, <2>3, PassTurns, Zenon
<1> QED
  BY <1>6, <1>7, <1>8

\* A pass that has no Entry goes on with its next operation, or ends.
LEMMA PassSkips ==
  ASSUME LifecycleInv, NEW p \in Procs, rec[p].pc \in {"next", "opened", "claimed"}, Skip(p),
         UNCHANGED <<own, owner, record, versions, settled, capLock, alive, sandbox>>
  PROVE  LifecycleInv'
<1>1. LifecycleTypeOK /\ rec \in [Procs -> PassT] /\ rec[p].todo # <<>> /\ rec[p].pc # "off"
  BY TodoFacts DEF LifecycleTypeOK
<1>2. /\ PassOK(p)' /\ rec' \in [Procs -> PassT] /\ rec'[p].pc \notin Has
      /\ \A q \in Procs \ {p} : rec'[q] = rec[q]
  BY <1>1, ContinuedOK, StepNames DEF Skip
<1>3. /\ lockHolder' \in [Ops -> Ops \cup Procs \cup {Free}]
      /\ \A x \in Ops : lockHolder'[x] = lockHolder[x] \/ lockHolder[x] \in {p, Free}
  BY <1>1, TodoFacts DEF LifecycleTypeOK, Skip, Release
<1>4. \A x \in Ops : ~PassHas(p, x)'
  BY <1>2 DEF PassHas, Has
<1> QED
  BY <1>2, <1>3, <1>4, PassAlone

\* A pass that takes its next step with the same operations.
LEMMA PassAdvances ==
  ASSUME LifecycleInv, NEW p \in Procs, rec[p].pc \in {"scanned", "next", "opened"}, rec[p].todo # <<>>,
         NEW s \in {"next", "opened", "claimed"}, Step(p, s), alive[p],
         UNCHANGED <<own, owner, record, versions, settled, capLock, alive, sandbox>>,
         lockHolder' \in [Ops -> Ops \cup Procs \cup {Free}],
         \A x \in Ops : lockHolder'[x] = lockHolder[x] \/ lockHolder[x] \in {p, Free},
         s = "claimed" /\ rec[p].file = "linked" => lockHolder'[Head(rec[p].todo)] = p,
         s = "next" => rec[p].pc = "scanned"
  PROVE  LifecycleInv'
<1>1. /\ LifecycleTypeOK /\ PassOK(p) /\ rec[p] \in PassT
      /\ \A i \in DOMAIN rec[p].todo : own[rec[p].todo[i]] \notin Early
  BY TodoFacts
<1> DEFINE e == [rec[p] EXCEPT !.pc = s]
<1>2. e \in PassT /\ e.pc = s /\ e.todo = rec[p].todo /\ e.file = rec[p].file
  BY <1>1, Zenon DEF PassT, PassSteps
<1>3. rec' = [rec EXCEPT ![p] = e]
  BY <1>1 DEF Step
<1> HIDE DEF e
<1>4. rec[p].pc # "opened" => rec[p].file = "linked"
  BY <1>1, Zenon DEF PassOK
<1>5. rec[p].file = "unlinked" => s # "next" /\ Resolved(Head(rec[p].todo))
  BY <1>1, <1>4 DEF PassOK
<1>6. /\ e.pc \in {"off", "scanned", "orphan", "next", "opened", "claimed"}
      /\ e.pc \notin {"off", "scanned"} => e.todo # <<>>
      /\ e.pc \in {"orphan", "claimed"} /\ e.file = "linked" => lockHolder'[Head(e.todo)] = p
      /\ e.file = "unlinked" => e.pc \in {"opened", "claimed"} /\ Resolved(Head(e.todo))
  BY <1>2, <1>5
<1>7. \A i \in DOMAIN e.todo : (e.pc = "orphan" /\ i = 1) \/ own[e.todo[i]] \notin Early
  BY <1>1, <1>2
<1> QED
  BY <1>2, <1>3, <1>6, <1>7, PassTurns, Zenon


\* With the orphans dealt with, the pass gets to the records, if there are any.
LEMMA StartPassInductive ==
  ASSUME LifecycleInv, NEW p \in Procs, StartPass(p)
  PROVE  LifecycleInv'
<1>1. /\ alive[p] /\ rec[p].pc = "scanned" /\ LifecycleTypeOK
      /\ UNCHANGED <<own, owner, record, versions, settled, capLock, alive, sandbox, lockHolder>>
  BY TodoFacts DEF StartPass, In, opVars, diskVars, timeVars, lockVars
<1>2. rec' = [rec EXCEPT ![p] = Off] \/ (rec[p].todo # <<>> /\ Step(p, "next"))
  BY <1>1, Zenon DEF StartPass, Step, LifecycleTypeOK
<1>3. CASE rec' = [rec EXCEPT ![p] = Off]
  <2>1. Off \in PassT /\ Off.pc = "off" /\ Off.todo = <<>> /\ Off.file = "linked"
    BY DEF Off, PassT, PassSteps
  <2>2. \A i \in DOMAIN Off.todo : (Off.pc = "orphan" /\ i = 1) \/ own[Off.todo[i]] \notin Early
    BY <2>1
  <2>3. /\ Off.pc \in {"off", "scanned", "orphan", "next", "opened", "claimed"}
        /\ Off.pc \notin {"orphan", "claimed"} /\ Off.file # "unlinked"
    BY <2>1
  <2> QED
    BY <1>1, <1>3, <2>1, <2>2, <2>3, PassTurns, Zenon DEF LifecycleTypeOK
<1>4. CASE rec[p].todo # <<>> /\ Step(p, "next")
  BY <1>1, <1>4, PassAdvances, Zenon DEF LifecycleTypeOK
<1> QED
  BY <1>2, <1>3, <1>4

\* The lock file of a record is opened, or cannot be.
LEMMA ClaimOpenInductive ==
  ASSUME LifecycleInv, NEW p \in Procs, ClaimOpen(p)
  PROVE  LifecycleInv'
<1>1. /\ alive[p] /\ rec[p].pc = "next" /\ LifecycleTypeOK /\ rec[p].todo # <<>>
      /\ UNCHANGED <<own, owner, record, versions, settled, capLock, alive, sandbox>>
  BY TodoFacts DEF ClaimOpen, In, opVars, diskVars, timeVars
<1>2. CASE Step(p, "opened") /\ UNCHANGED lockHolder
  BY <1>1, <1>2, PassAdvances, Zenon DEF LifecycleTypeOK
<1>3. CASE Skip(p)
  BY <1>1, <1>3, PassSkips, Zenon
<1> QED
  BY <1>2, <1>3, Zenon DEF ClaimOpen

\* Its lock is taken, on the file the path names or on one that was unlinked.
LEMMA ClaimLockInductive ==
  ASSUME LifecycleInv, NEW p \in Procs, ClaimLock(p)
  PROVE  LifecycleInv'
<1>1. /\ alive[p] /\ rec[p].pc = "opened" /\ rec[p].todo # <<>> /\ LifecycleTypeOK
      /\ This(p) \in Ops /\ Head(rec[p].todo) = This(p)
      /\ UNCHANGED <<own, owner, record, versions, settled, capLock, alive, sandbox>>
  BY TodoFacts, Zenon DEF ClaimLock, In, opVars, diskVars, timeVars
<1>2. CASE rec[p].file = "unlinked" /\ Step(p, "claimed") /\ UNCHANGED lockVars
  <2>1. lockHolder' = lockHolder
    BY <1>2 DEF lockVars
  <2> QED
    BY <1>1, <1>2, <2>1, PassAdvances DEF LifecycleTypeOK
<1>3. CASE /\ lockHolder[This(p)] = Free /\ lockHolder' = [lockHolder EXCEPT ![This(p)] = p]
           /\ Step(p, "claimed")
  <2>1. /\ lockHolder' \in [Ops -> Ops \cup Procs \cup {Free}]
        /\ lockHolder'[Head(rec[p].todo)] = p
        /\ \A x \in Ops : lockHolder'[x] = lockHolder[x] \/ lockHolder[x] \in {p, Free}
    BY <1>1, <1>3 DEF LifecycleTypeOK
  <2> QED
    BY <1>1, <1>3, <2>1, PassAdvances
<1>4. CASE Skip(p)
  BY <1>1, <1>4, PassSkips, Zenon
<1> QED
  BY <1>2, <1>3, <1>4, Zenon DEF ClaimLock

\* The record is read: it may be gone, or be not due, or the pass gets an Entry.
LEMMA ClaimReadInductive ==
  ASSUME LifecycleInv, NEW p \in Procs, ClaimRead(p)
  PROVE  LifecycleInv'
<1>1. /\ alive[p] /\ rec[p].pc = "claimed" /\ rec[p].todo # <<>>
      /\ UNCHANGED <<own, owner, record, versions, settled, capLock, alive, sandbox>>
  BY TodoFacts DEF ClaimRead, In, opVars, diskVars, timeVars
<1>2. PICK o \in Ops : /\ o = This(p) /\ On(p, o) /\ Head(rec[p].todo) = o /\ LifecycleTypeOK
                       /\ PassOK(p) /\ rec[p] \in PassT
                       /\ \A i \in DOMAIN rec[p].todo : own[rec[p].todo[i]] \notin Early
  BY <1>1, TodoFacts
<1>3. rec[p].file = "linked" => lockHolder[o] = p
  BY <1>1, <1>2 DEF PassOK
<1>4. rec[p].file # "linked" => Resolved(o)
  BY <1>1, <1>2 DEF PassOK, PassT
<1>5. CASE record[o] = "none" /\ Unlink(o) /\ rec' = Continue(p, Stale(o))
  <2>1. own[o] \notin Early
    BY <1>1, <1>2 DEF PassT
  <2>2. own[o] \in {"over", "bare"}
    <3>1. own[o] \in Holding => lockHolder[o] = o
      BY DEF LifecycleInv, TaskOK
    <3>2. own[o] \in OwnSteps /\ o # p
      BY <1>2, LifecycleAssumption DEF LifecycleTypeOK
    <3> QED
      BY <1>3, <1>4, <2>1, <3>1, <3>2 DEF OwnSteps, Resolved
  <2>3. Stale(o) \in [Procs -> PassT] /\ rec[p].pc # "off"
    BY <1>1, <1>2, StaleFacts DEF LifecycleTypeOK
  <2>4. /\ PassOK(p)' /\ rec' \in [Procs -> PassT] /\ rec'[p].pc \notin Has
        /\ \A q \in Procs \ {p} : rec'[q] = Stale(o)[q]
    BY <1>1, <1>5, <2>3, ContinuedOK, StepNames
  <2> QED
    BY <1>1, <1>2, <1>5, <2>2, <2>4, PassUnlinks
<1>6. CASE Skip(p)
  BY <1>1, <1>6, PassSkips, Zenon
<1>7. CASE /\ record[o] # "none" /\ UNCHANGED lockVars
           /\ rec' = [rec EXCEPT ![p] =
                       [pc |-> "find", todo |-> rec[p].todo, locks |-> rec[p].locks,
                        acted |-> rec[p].acted + 1, file |-> rec[p].file]]
  <2> DEFINE e == [pc |-> "find", todo |-> rec[p].todo, locks |-> rec[p].locks,
                   acted |-> rec[p].acted + 1, file |-> rec[p].file]
  <2>1. rec[p].file = "linked" /\ ~Resolved(o) /\ lockHolder[o] = p
    BY <1>3, <1>4, <1>7 DEF Resolved
  <2>2. e \in PassT /\ e.pc = "find" /\ e.todo = rec[p].todo /\ e.file = "linked"
    BY <1>2, <2>1 DEF PassT, PassSteps, Has
  <2>3. rec' = [rec EXCEPT ![p] = e] /\ lockHolder' = lockHolder
    BY <1>7 DEF lockVars
  <2> HIDE DEF e
  <2>4. rec'[p] = e /\ rec' \in [Procs -> PassT] /\ \A q \in Procs \ {p} : rec'[q] = rec[q]
    BY <1>2, <2>2, <2>3 DEF LifecycleTypeOK
  <2>5. PassOK(p)'
    BY <1>1, <1>2, <1>7, <2>1, <2>2, <2>3, <2>4 DEF PassOK
  <2>6. \A x \in Ops : PassHas(p, x)' => ~Resolved(x)
    BY <1>2, <2>1, <2>2, <2>4 DEF PassHas, On
  <2> QED
    BY <1>1, <1>2, <2>3, <2>4, <2>5, <2>6, PassAlone DEF LifecycleTypeOK
<1> QED
  BY <1>2, <1>5, <1>6, <1>7, Zenon DEF ClaimRead


-----------------------------------------------------------------------------
(* The provider, time and crashes *)

\* A create that was sent lands, or never will.
LEMMA LandInductive ==
  ASSUME LifecycleInv, NEW o \in Ops, Land(o)
  PROVE  LifecycleInv'
<1>1. /\ LifecycleTypeOK /\ TaskOK(o) /\ SandboxOK(o) /\ sandbox[o] = "pending"
      /\ UNCHANGED <<own, owner, record, versions, settled, lockHolder, capLock, alive, rec>>
  BY DEF LifecycleInv, Land, opVars, diskVars, timeVars, lockVars
<1>2. /\ sandbox' \in [Ops -> {"none", "pending", "live", "gone"}] /\ sandbox'[o] \in {"live", "gone"}
      /\ \A x \in Ops \ {o} : sandbox'[x] = sandbox[x]
  BY <1>1 DEF Land, LifecycleTypeOK
<1>3. LifecycleTypeOK'
  BY <1>1, <1>2 DEF LifecycleTypeOK
<1>4. \A x \in Ops \ {o} : TaskOK(x)' /\ SandboxOK(x)'
  BY <1>1, <1>2, TasksKept DEF LifecycleInv, Same
<1>5. TaskOK(o)' /\ SandboxOK(o)'
  BY <1>1, <1>2 DEF TaskOK, SandboxOK
<1>6. \A p \in Procs : PassOK(p)'
  BY <1>1, <1>2, PassesKept, Zenon
<1> QED
  BY <1>3, <1>4, <1>5, <1>6 DEF LifecycleInv

\* The settle time of a record passes once its create has been decided.
LEMMA SettleInductive ==
  ASSUME LifecycleInv, NEW o \in Ops, Settle(o)
  PROVE  LifecycleInv'
<1>1. /\ LifecycleTypeOK /\ TaskOK(o) /\ SandboxOK(o) /\ sandbox[o] # "pending"
      /\ own[o] \notin Early \cup {"written", "ready"}
      /\ UNCHANGED <<own, owner, record, versions, sandbox, lockHolder, capLock, alive, rec>>
  BY Zenon DEF LifecycleInv, Settle, opVars, diskVars, lockVars, Early
<1>2. settled' \in [Ops -> BOOLEAN] /\ \A x \in Ops \ {o} : settled'[x] = settled[x]
  BY <1>1 DEF Settle, LifecycleTypeOK
<1>3. LifecycleTypeOK'
  BY <1>1, <1>2 DEF LifecycleTypeOK
<1>4. \A x \in Ops \ {o} : TaskOK(x)' /\ SandboxOK(x)'
  BY <1>1, <1>2, TasksKept DEF LifecycleInv, Same
<1>5. TaskOK(o)' /\ SandboxOK(o)'
  BY <1>1 DEF TaskOK, SandboxOK
<1>6. \A p \in Procs : PassOK(p)'
  BY <1>1, PassesKept
<1> QED
  BY <1>3, <1>4, <1>5, <1>6 DEF LifecycleInv

\* A record becomes due, a process starts, or nothing happens.
LEMMA QuietInductive ==
  ASSUME LifecycleInv,
         UNCHANGED <<own, owner, record, versions, settled, lockHolder, capLock, rec, sandbox>>,
         alive' \in [Procs -> BOOLEAN], \A p \in Procs : alive[p] => alive'[p]
  PROVE  LifecycleInv'
<1>1. LifecycleTypeOK'
  BY DEF LifecycleInv, LifecycleTypeOK
<1>2. \A x \in Ops : TaskOK(x)' /\ SandboxOK(x)'
  BY TasksKept DEF LifecycleInv, Same
<1>3. \A p \in Procs : PassOK(p)'
  BY PassesKept
<1> QED
  BY <1>1, <1>2, <1>3 DEF LifecycleInv

\* What dies with the processes of a set, and what does not.
LEMMA DieFacts ==
  ASSUME LifecycleTypeOK, NEW dead \in SUBSET Procs, Die(dead)
  PROVE  /\ own' \in [Ops -> OwnSteps] /\ alive' \in [Procs -> BOOLEAN] /\ rec' \in [Procs -> PassT]
         /\ lockHolder' \in [Ops -> Ops \cup Procs \cup {Free}]
         /\ \A x \in Ops : own'[x] = IF owner[x] \in dead THEN "over" ELSE own[x]
         /\ \A x, y \in Ops : lockHolder[x] = y /\ owner[y] \notin dead => lockHolder'[x] = y
         /\ \A x \in Ops, q \in Procs \ dead : lockHolder[x] = q => lockHolder'[x] = q
         /\ \A x \in Ops : capLock = x /\ owner[x] \notin dead => capLock' = x
         /\ \A q \in Procs : IF q \in dead THEN rec'[q] = Off /\ ~alive'[q]
                             ELSE rec'[q] = rec[q] /\ alive'[q] = alive[q]
<1>1. \A x \in Ops : x \notin Procs
  BY LifecycleAssumption
<1>2. Off \in PassT
  BY DEF Off, PassT, PassSteps
<1>3. own' \in [Ops -> OwnSteps] /\ \A x \in Ops : own'[x] = IF owner[x] \in dead THEN "over" ELSE own[x]
  BY DEF Die, LifecycleTypeOK, OwnSteps
<1>4. /\ lockHolder' \in [Ops -> Ops \cup Procs \cup {Free}]
      /\ \A x, y \in Ops : lockHolder[x] = y /\ owner[y] \notin dead => lockHolder'[x] = y
      /\ \A x \in Ops, q \in Procs \ dead : lockHolder[x] = q => lockHolder'[x] = q
  BY <1>1 DEF Die, LifecycleTypeOK
<1>5. \A x \in Ops : capLock = x /\ owner[x] \notin dead => capLock' = x
  BY <1>1 DEF Die
<1>6. alive' \in [Procs -> BOOLEAN] /\ rec' \in [Procs -> PassT]
  BY <1>2 DEF Die, LifecycleTypeOK
<1>7. \A q \in Procs : IF q \in dead THEN rec'[q] = Off /\ ~alive'[q]
                       ELSE rec'[q] = rec[q] /\ alive'[q] = alive[q]
  BY Zenon DEF Die, LifecycleTypeOK
<1> QED
  BY <1>3, <1>4, <1>5, <1>6, <1>7

\* A pass that ended with its process.
LEMMA OffOK ==
  ASSUME NEW p \in Procs, rec'[p] = Off
  PROVE  PassOK(p)' /\ \A x \in Ops : ~PassHas(p, x)'
<1>1. Off.pc = "off" /\ Off.todo = <<>> /\ Off.file = "linked"
  BY DEF Off
<1>2. \A x \in Ops : ~PassHas(p, x)'
  BY <1>1 DEF PassHas
<1> QED
  BY <1>1, <1>2 DEF PassOK, Has, Repairing

\* A process is killed: its tasks are over and its locks are free.
LEMMA CrashInductive ==
  ASSUME LifecycleInv, NEW p \in Procs, Crash(p)
  PROVE  LifecycleInv'
<1>1. /\ LifecycleTypeOK /\ Die({p})
      /\ UNCHANGED <<owner, record, versions, settled, sandbox>>
  BY DEF LifecycleInv, Crash, diskVars, timeVars
<1>2. /\ own' \in [Ops -> OwnSteps] /\ alive' \in [Procs -> BOOLEAN] /\ rec' \in [Procs -> PassT]
      /\ lockHolder' \in [Ops -> Ops \cup Procs \cup {Free}]
      /\ \A x \in Ops : own'[x] = IF owner[x] = p THEN "over" ELSE own[x]
      /\ \A x, y \in Ops : lockHolder[x] = y /\ owner[y] # p => lockHolder'[x] = y
      /\ \A x \in Ops, q \in Procs \ {p} : lockHolder[x] = q => lockHolder'[x] = q
      /\ \A x \in Ops : capLock = x /\ owner[x] # p => capLock' = x
      /\ rec'[p] = Off /\ \A q \in Procs \ {p} : rec'[q] = rec[q] /\ alive'[q] = alive[q]
  <2>1. {p} \in SUBSET Procs
    OBVIOUS
  <2> QED
    BY <1>1, <2>1, DieFacts
<1>3. LifecycleTypeOK'
  BY <1>1, <1>2 DEF LifecycleTypeOK
<1>4. ASSUME NEW x \in Ops
      PROVE  TaskOK(x)' /\ SandboxOK(x)'
  <2>1. TaskOK(x) /\ SandboxOK(x)
    BY DEF LifecycleInv
  <2>2. ASSUME owner[x] = p
        PROVE  TaskOK(x)'
    <3>1. own'[x] = "over"
      BY <1>2, <2>2
    <3> QED
      BY <3>1 DEF TaskOK, Early, Holding
  <2>3. ASSUME owner[x] # p
        PROVE  TaskOK(x)'
    <3>1. /\ own'[x] = own[x] /\ (lockHolder[x] = x => lockHolder'[x] = x)
          /\ capLock = x => capLock' = x
      BY <1>2, <2>3
    <3>2. own[x] \notin {"idle", "over"} => owner[x] \in Procs /\ alive'[owner[x]]
      BY <1>2, <2>1, <2>3 DEF TaskOK
    <3> QED
      BY <1>1, <2>1, <3>1, <3>2 DEF TaskOK
  <2>4. SandboxOK(x)'
    BY <1>1, <2>1, Zenon DEF SandboxOK
  <2> QED
    BY <2>2, <2>3, <2>4
<1>5. PassOK(p)' /\ \A x \in Ops : ~PassHas(p, x)'
  BY <1>2, OffOK, Zenon
<1>6. \A r \in Procs, x \in Ops : PassHas(r, x)' => PassHas(r, x)
  BY <1>2, <1>5, Zenon DEF PassHas, On
<1>7. \A x \in Ops : /\ own[x] \notin Early => own'[x] \notin Early
                     /\ own[x] \in {"over", "bare"} => own'[x] \in {"over", "bare"}
  BY <1>2, Zenon DEF Early
<1>8. \A q \in Procs \ {p} : PassOK(q)'
  BY <1>1, <1>2, <1>6, <1>7, OnePassKept, Zenon
<1> QED
  BY <1>3, <1>4, <1>5, <1>8 DEF LifecycleInv

\* A machine crash ends every task and every pass, and undoes updates of the journal.
LEMMA MachineCrashInductive ==
  ASSUME LifecycleInv, MachineCrash
  PROVE  LifecycleInv'
<1> DEFINE dead == {p \in Procs : alive[p]}
<1>1. /\ LifecycleTypeOK /\ Die(dead)
      /\ UNCHANGED <<owner, settled, sandbox>> /\ record' \in [Ops -> Phases]
      /\ \A o \in Ops : record'[o] \in versions[o] /\ versions'[o] = {record'[o]}
      /\ versions' = [o \in Ops |-> {record'[o]}]
  BY Zenon DEF LifecycleInv, MachineCrash, Phases
<1>2. /\ own' \in [Ops -> OwnSteps] /\ alive' \in [Procs -> BOOLEAN] /\ rec' \in [Procs -> PassT]
      /\ lockHolder' \in [Ops -> Ops \cup Procs \cup {Free}]
      /\ \A x \in Ops : own'[x] = IF owner[x] \in dead THEN "over" ELSE own[x]
      /\ \A q \in Procs : IF alive[q] THEN rec'[q] = Off ELSE rec'[q] = rec[q]
  BY <1>1, DieFacts
<1>3. versions' \in [Ops -> SUBSET Phases]
  BY <1>1
<1>4. LifecycleTypeOK'
  BY <1>1, <1>2, <1>3 DEF LifecycleTypeOK
<1>5. \A x \in Ops : own'[x] = "over" \/ (own'[x] = "idle" /\ own[x] = "idle")
  BY <1>2 DEF LifecycleInv, TaskOK
<1>6. ASSUME NEW x \in Ops
      PROVE  TaskOK(x)' /\ SandboxOK(x)'
  <2>1. SandboxOK(x)'
    BY <1>1 DEF LifecycleInv, SandboxOK
  <2>2. CASE own'[x] = "over"
    BY <2>1, <2>2 DEF TaskOK, Early, Holding
  <2>3. CASE own'[x] = "idle" /\ own[x] = "idle"
    <3>1. record'[x] = "none" /\ versions'[x] = {"none"} /\ sandbox'[x] = "none" /\ ~settled'[x]
      BY <1>1, <2>3, Zenon DEF LifecycleInv, TaskOK, Early
    <3> QED
      BY <2>1, <2>3, <3>1 DEF TaskOK, Holding
  <2> QED
    BY <1>5, <2>2, <2>3
<1>7. ASSUME NEW q \in Procs
      PROVE  PassOK(q)'
  <2>1. CASE alive[q]
    BY <1>2, <2>1, OffOK, Zenon
  <2>2. CASE ~alive[q]
    <3>1. PassOK(q) /\ rec[q] \in PassT /\ rec'[q] = rec[q]
      BY <1>2, <2>2 DEF LifecycleInv, LifecycleTypeOK
    <3>2. rec[q].pc = "off" /\ rec[q].file = "linked" /\ rec[q].pc \in Waiting
      BY <2>2, <3>1, Zenon DEF PassOK, Waiting
    <3>3. \A x \in Ops : own[x] \notin Early => own'[x] \notin Early
      BY <1>5 DEF Early
    <3> QED
      BY <2>2, <3>1, <3>2, <3>3, WaitingKept
  <2> QED
    BY <2>1, <2>2
<1> QED
  BY <1>4, <1>6, <1>7 DEF LifecycleInv


-----------------------------------------------------------------------------
(* Every behaviour *)

\* Nothing has been begun.
LEMMA InitInductive ==
  ASSUME Init
  PROVE  LifecycleInv
<1>1. Off \in PassT /\ Off.pc = "off" /\ Off.todo = <<>> /\ Off.file = "linked"
  BY DEF Off, PassT, PassSteps
<1>2. LifecycleTypeOK
  BY <1>1 DEF Init, LifecycleTypeOK, OwnSteps, Early, Phases
<1>3. \A o \in Ops : TaskOK(o) /\ SandboxOK(o)
  BY DEF Init, TaskOK, SandboxOK, Holding
<1>4. \A p \in Procs : rec[p] = Off
  BY DEF Init
<1>5. \A p \in Procs : PassOK(p)
  BY <1>1, <1>4 DEF PassOK, Has, Repairing
<1> QED
  BY <1>2, <1>3, <1>5 DEF LifecycleInv

\* The steps of the task of an operation.
LEMMA OwnerInductive ==
  ASSUME LifecycleInv, NEW o \in Ops, Owner(o) \/ OwnerFails(o)
  PROVE  LifecycleInv'
<1>1. CASE OwnerFails(o)
  BY <1>1, WriteIntentFailsInductive, MarkCreatedFailsInductive, DropWithoutRuntimeInductive
     DEF OwnerFails
<1>2. CASE TakeLock(o) \/ WriteIntent(o) \/ SyncIntent(o) \/ Rejected(o) \/ Send(o) \/ Answered(o)
  BY <1>2, TakeLockInductive, WriteIntentInductive, SyncIntentInductive, RejectedInductive,
     SendInductive, AnsweredInductive
<1>3. CASE OutcomeUnknown(o) \/ MarkCreated(o) \/ Clean(o) \/ Delete(o) \/ Complete(o)
           \/ RemoveLock(o) \/ Defer(o)
  BY <1>3, OutcomeUnknownInductive, MarkCreatedInductive, CleanInductive, DeleteInductive,
     CompleteInductive, RemoveLockInductive, DeferInductive
<1> QED
  BY <1>1, <1>2, <1>3 DEF Owner

\* The steps of a pass.
LEMMA ReconcileInductive ==
  ASSUME LifecycleInv, NEW p \in Procs, Reconcile(p) \/ BudgetElapsed(p)
  PROVE  LifecycleInv'
<1>1. CASE BudgetElapsed(p)
  BY <1>1, BudgetElapsedInductive
<1>2. CASE Scan(p) \/ TakeOrphan(p) \/ RemoveOrphan(p) \/ StartPass(p) \/ ClaimOpen(p)
           \/ ClaimLock(p) \/ ClaimRead(p)
  BY <1>2, ScanInductive, TakeOrphanInductive, RemoveOrphanInductive, StartPassInductive,
     ClaimOpenInductive, ClaimLockInductive, ClaimReadInductive
<1>3. CASE Find(p) \/ Verify(p) \/ DeleteFound(p) \/ Finish(p) \/ FinishLock(p) \/ Keep(p)
  BY <1>3, FindInductive, VerifyInductive, DeleteFoundInductive, FinishInductive,
     FinishLockInductive, KeepInductive
<1> QED
  BY <1>1, <1>2, <1>3 DEF Reconcile

\* Every step keeps the invariant.
LEMMA NextInductive ==
  ASSUME LifecycleInv, [Next]_vars
  PROVE  LifecycleInv'
<1>0. alive \in [Procs -> BOOLEAN]
  BY DEF LifecycleInv, LifecycleTypeOK
<1>1. ASSUME NEW o \in Ops, Owner(o) \/ OwnerFails(o) \/ Land(o) \/ Settle(o)
      PROVE  LifecycleInv'
  BY <1>1, OwnerInductive, LandInductive, SettleInductive
<1>2. ASSUME NEW o \in Ops, Elapse(o)
      PROVE  LifecycleInv'
  BY <1>0, <1>2, QuietInductive DEF Elapse, opVars, diskVars, lockVars
<1>3. ASSUME NEW p \in Procs, Reconcile(p) \/ BudgetElapsed(p) \/ Crash(p)
      PROVE  LifecycleInv'
  BY <1>3, ReconcileInductive, CrashInductive
<1>4. ASSUME NEW p \in Procs, Restart(p)
      PROVE  LifecycleInv'
  <2>1. alive' \in [Procs -> BOOLEAN] /\ \A q \in Procs : alive[q] => alive'[q]
    BY <1>0, <1>4 DEF Restart
  <2> QED
    BY <1>4, <2>1, QuietInductive DEF Restart, opVars, diskVars, timeVars, lockVars
<1>5. ASSUME NEW p \in Procs, NEW o \in Ops, Begin(p, o)
      PROVE  LifecycleInv'
  BY <1>5, BeginInductive
<1>6. CASE MachineCrash
  BY <1>6, MachineCrashInductive
<1>7. CASE UNCHANGED vars
  BY <1>0, <1>7, QuietInductive DEF vars
<1> QED
  BY <1>1, <1>2, <1>3, <1>4, <1>5, <1>6, <1>7 DEF Next

\* LifecycleInv holds in every reachable state: what each step of a task and of
\* a pass may rely on about locks, records and sandboxes, through crashes and
\* the removal of lock files that others have open.
THEOREM LifecycleInductive == Spec => []LifecycleInv
<1>1. Init => LifecycleInv
  BY InitInductive
<1>2. LifecycleInv /\ [Next]_vars => LifecycleInv'
  BY NextInductive
<1> QED
  BY <1>1, <1>2, PTL DEF Spec

\* No sandbox that runs, or may still come up, is without a durable record,
\* whichever process or machine crashes between two steps of create and delete.
THEOREM LifecycleTracked == Spec => []Tracked
<1>1. LifecycleInv => Tracked
  BY DEF LifecycleInv, SandboxOK, Tracked
<1> QED
  BY <1>1, LifecycleInductive, PTL

\* A record never has two owners, although claims of one lock file may succeed
\* twice after Entry::complete removed it.
THEOREM LifecycleOneOwner == Spec => []OneOwner
<1>1. ASSUME LifecycleInv
      PROVE  OneOwner
  <2>1. \A o \in Ops : OwnerHas(o) => lockHolder[o] = o
    BY <1>1, Zenon DEF LifecycleInv, TaskOK, OwnerHas, Holding
  <2>2. \A o \in Ops, p \in Procs : PassHas(p, o) => lockHolder[o] = p
    BY <1>1, StepNames DEF LifecycleInv, PassOK, PassHas, On, Has
  <2> QED
    BY <2>1, <2>2, LifecycleAssumption DEF OneOwner
<1> QED
  BY <1>1, LifecycleInductive, PTL

\* The sandbox a caller of create_owned is using stays live until Cleanup.
THEOREM LifecycleKeptWhileUsed == Spec => []KeptWhileUsed
<1>1. LifecycleInv => KeptWhileUsed
  BY Zenon DEF LifecycleInv, TaskOK, KeptWhileUsed
<1> QED
  BY <1>1, LifecycleInductive, PTL

=============================================================================
