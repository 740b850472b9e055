------------------------- MODULE ProcessWorkersProofs -------------------------
(***************************************************************************)
(* Proofs that the steps of a worker keep the invariant of ProcessGroups,  *)
(* for any number of workers, slots, ids and signals.                      *)
(***************************************************************************)
EXTENDS ProcessInvariant, TLAPS

-----------------------------------------------------------------------------
(* What a step leaves alone *)

Readers == {"running", "free", "freed"}

\* A handler knows what it knew, if no worker starts anything that was not
\* being started and the worker whose group it read stays.
LEMMA FrameKept ==
  ASSUME NEW f, FrameOK(f), TERMINATING => TERMINATING',
         \A v \in Workers : TERMINATING /\ worker'[v].pc \in {"spawn", "assign"} =>
           worker[v].pc \in {"spawn", "assign"} /\ worker'[v].slot = worker[v].slot,
         \A v \in Workers : worker'[v].pc = "running" /\ group'[worker'[v].group] = "live" =>
           /\ worker'[v].slot = worker[v].slot
           /\ \/ worker[v].pc \in {"spawn", "assign"}
              \/ /\ worker[v].pc = "running" /\ worker'[v].group = worker[v].group
                 /\ group[worker[v].group] = "live",
         f.pc = "kill" => \A v \in Workers :
           worker[v].pc \in Readers /\ worker[v].slot = f.slot =>
             /\ worker'[v].pc \in Readers /\ worker'[v].slot = worker[v].slot
             /\ worker'[v].group = worker[v].group
  PROVE  FrameOK(f)'
<1>1. f.pc \in Walking \cup {"die"} => TERMINATING' /\ Swept(f.slot)'
  BY DEF FrameOK, Swept
<1>2. f.pc = "kill" => f.pc \in Walking
  BY DEF Walking
<1>3. f.pc = "kill" /\ f.group # FREE =>
        \E w \in Workers : /\ worker'[w].pc \in Readers
                           /\ worker'[w].slot = f.slot /\ worker'[w].group = f.group
  BY DEF FrameOK, Readers
<1>4. f.pc = "kill" =>
        \A w \in Workers : worker'[w].slot = f.slot =>
            /\ worker'[w].pc \notin {"spawn", "assign"}
            /\ worker'[w].pc = "running" /\ group'[worker'[w].group] = "live" =>
                 worker'[w].group = f.group
  BY <1>2 DEF FrameOK
<1> QED
  BY <1>1, <1>3, <1>4 DEF FrameOK, Readers

\* A worker that does not move, whose slot keeps its value when it owns one, stays as it
\* should be.
LEMMA OtherWorker ==
  ASSUME NEW v \in Workers, WorkerOK(v), worker'[v] = worker[v], group' = group,
         worker[v].pc \in Owning => GROUPS'[worker[v].slot] = GROUPS[worker[v].slot]
  PROVE  WorkerOK(v)'
  BY DEF WorkerOK, Owning, Reserving, Published

\* Who owns what, when the workers keep their slots and groups, none becomes an owner and
\* none leaves a live group.
LEMMA SameOwners ==
  ASSUME Owned, group' = group, unreaped' = unreaped,
         \A v \in Workers : /\ worker'[v].slot = worker[v].slot
                            /\ worker'[v].group = worker[v].group
                            /\ worker'[v].pc \in Owning => worker[v].pc \in Owning
                            /\ worker[v].pc \in {"assign", "running"} =>
                                 worker'[v].pc \in {"assign", "running"}
  PROVE  Apart' /\ LiveOwned' /\ UnreapedLeft'
<1>1. Apart'
  BY DEF Owned, Apart
<1>2. LiveOwned'
  BY DEF Owned, LiveOwned
<1>3. UnreapedLeft'
  BY DEF Owned, UnreapedLeft
<1> QED
  BY <1>1, <1>2, <1>3

\* Workers that do not move keep their slots and groups, whatever is killed.
LEMMA WorkersKept ==
  ASSUME \A w \in Workers : WorkerOK(w), Owned, UNCHANGED <<worker, GROUPS, unreaped>>,
         ProcessTypeOK,
         \A p \in Pids : /\ group'[p] = "none" <=> group[p] = "none"
                         /\ group'[p] = "live" => group[p] = "live"
  PROVE  (\A w \in Workers : WorkerOK(w)') /\ Owned'
<1>1. \A w \in Workers : WorkerOK(w)'
  BY DEF WorkerOK
<1>2. Owned'
  BY DEF Owned, Apart, SlotsOwned, LiveOwned, UnreapedLeft, ProcessTypeOK
<1> QED
  BY <1>1, <1>2

\* Handlers that do not move are where they were.
LEMMA HandlersKept ==
  ASSUME UNCHANGED frames
  PROVE  /\ Positions' = Positions
         /\ \A x : At(x)' = At(x)
         /\ \A s : Busy(s)' = Busy(s)
<1>1. Positions' = Positions
  BY DEF Positions
<1>2. \A x : At(x)' = At(x)
  BY DEF At
<1>3. \A s : Busy(s)' = Busy(s)
  BY <1>1, <1>2 DEF Busy
<1> QED
  BY <1>1, <1>2, <1>3

\* A step that moves no worker and no handler.
LEMMA NothingMoves ==
  ASSUME ProcessInv, SIGNALS' \in Termination \cup {"idle", "watching"},
         UNCHANGED <<GROUPS, BUSY, group, worker, unreaped, stray, TERMINATING, frames, dead>>
  PROVE  ProcessInv'
<1>1. ProcessTypeOK'
  BY DEF ProcessInv, ProcessTypeOK
<1>2. (\A w \in Workers : WorkerOK(w)') /\ Owned'
  BY WorkersKept DEF ProcessInv
<1>3. Positions' = Positions /\ (\A x : At(x)' = At(x)) /\ \A s : Busy(s)' = Busy(s)
  BY HandlersKept
<1>4. BusyCounts'
  BY <1>3 DEF ProcessInv, BusyCounts
<1>5. \A x \in Positions' : FrameOK(At(x))'
  BY <1>3 DEF ProcessInv, FrameOK, Swept
<1>6. NeverStray' /\ NoOrphans'
  BY DEF ProcessInv, NeverStray, NoOrphans
<1> QED
  BY <1>1, <1>2, <1>4, <1>5, <1>6 DEF ProcessInv

-----------------------------------------------------------------------------
(* The steps of a worker *)

\* A step of worker w that keeps its part of the invariant keeps that of the
\* handlers, if it starts nothing while the process is ending and does not
\* leave a slot that is read.
LEMMA WorkerStep ==
  ASSUME ProcessInv, NEW w \in Workers, NEW k, worker' = [worker EXCEPT ![w] = k], ~dead,
         UNCHANGED <<frames, BUSY, TERMINATING, dead>>,
         ProcessTypeOK', \A v \in Workers : WorkerOK(v)', Owned', NeverStray',
         \A p \in Pids : group'[p] = "live" => group[p] = "live" \/ p = k.group,
         TERMINATING /\ k.pc \in {"spawn", "assign"} =>
           worker[w].pc \in {"spawn", "assign"} /\ k.slot = worker[w].slot,
         k.pc = "running" /\ group'[k.group] = "live" =>
           /\ k.slot = worker[w].slot
           /\ \/ worker[w].pc \in {"spawn", "assign"}
              \/ /\ worker[w].pc = "running" /\ k.group = worker[w].group
                 /\ group[k.group] = "live",
         worker[w].pc \in Readers =>
           \/ k.pc \in Readers /\ k.slot = worker[w].slot /\ k.group = worker[w].group
           \/ Busy(worker[w].slot) = {}
  PROVE  ProcessInv'
<1>1. /\ worker \in [Workers -> WorkerT] /\ worker'[w] = k
      /\ \A v \in Workers \ {w} : worker'[v] = worker[v]
  BY DEF ProcessInv, ProcessTypeOK
<1>2. Positions' = Positions /\ (\A x : At(x)' = At(x)) /\ \A s : Busy(s)' = Busy(s)
  BY HandlersKept
<1>3. BusyCounts'
  BY <1>2 DEF ProcessInv, BusyCounts
<1>4. \A v \in Workers : TERMINATING /\ worker'[v].pc \in {"spawn", "assign"} =>
        worker[v].pc \in {"spawn", "assign"} /\ worker'[v].slot = worker[v].slot
  BY <1>1
<1>5. ASSUME NEW v \in Workers, worker'[v].pc = "running", group'[worker'[v].group] = "live"
      PROVE  /\ worker'[v].slot = worker[v].slot
             /\ \/ worker[v].pc \in {"spawn", "assign"}
                \/ /\ worker[v].pc = "running" /\ worker'[v].group = worker[v].group
                   /\ group[worker[v].group] = "live"
  <2>1. CASE v = w
    BY <1>1, <1>5, <2>1
  <2>2. CASE v # w
    <3>1. worker'[v] = worker[v] /\ worker[v].group \in Pids /\ WorkerOK(v)'
      BY <1>1, <1>5, <2>2 DEF WorkerOK
    <3>2. worker'[v].group # Nobody
      BY <3>1, TableAssumption
    <3>3. worker'[v].group # k.group
      BY <1>1, <2>2, <3>2 DEF Owned, Apart
    <3> QED
      BY <1>5, <3>1, <3>3
  <2> QED
    BY <2>1, <2>2
<1>6. ASSUME NEW x \in Positions
      PROVE  FrameOK(At(x))'
  <2>1. At(x).pc = "kill" => \A v \in Workers :
           worker[v].pc \in Readers /\ worker[v].slot = At(x).slot =>
             /\ worker'[v].pc \in Readers /\ worker'[v].slot = worker[v].slot
             /\ worker'[v].group = worker[v].group
    <3> SUFFICES ASSUME At(x).pc = "kill", NEW v \in Workers, worker[v].pc \in Readers,
                        worker[v].slot = At(x).slot
                 PROVE  /\ worker'[v].pc \in Readers /\ worker'[v].slot = worker[v].slot
                        /\ worker'[v].group = worker[v].group
      OBVIOUS
    <3>2. Busy(worker[v].slot) # {}
      BY DEF Busy
    <3> QED
      BY <1>1, <3>2
  <2>2. PICK f : f = At(x)
    OBVIOUS
  <2>3. FrameOK(f)
    BY <2>2 DEF ProcessInv
  <2>4. FrameOK(f)'
    BY <1>4, <1>5, <2>1, <2>2, <2>3, FrameKept
  <2>5. At(x)' = f
    BY <1>2, <2>2
  <2> QED
    BY <2>4, <2>5 DEF FrameOK, Swept
<1>7. \A x \in Positions' : FrameOK(At(x))'
  BY <1>2, <1>6
<1> QED
  BY <1>3, <1>7 DEF ProcessInv, NoOrphans

\* What the steps of a worker use of the invariant.
LEMMA WorkerFacts ==
  ASSUME ProcessInv
  PROVE  /\ ProcessTypeOK /\ Owned /\ ~stray
         /\ \A w \in Workers : WorkerOK(w) /\ worker[w] \in WorkerT
BY DEF ProcessInv, ProcessTypeOK, NeverStray

\* A group that is killed stays what it is, or stops being live.
LEMMA Killed ==
  ASSUME ProcessTypeOK, NEW p \in Pids, group[p] # "none", ~stray, Kill(p)
  PROVE  /\ group' \in [Pids -> {"none", "live", "killed"}] /\ ~stray'
         /\ group'[p] # "live"
         /\ \A q \in Pids : /\ group'[q] = "none" <=> group[q] = "none"
                            /\ group'[q] = "live" => group[q] = "live"
BY DEF ProcessTypeOK, Kill

\* A worker that takes a free slot is its only owner.
LEMMA ReserveInductive ==
  ASSUME ProcessInv, NEW w \in Workers, Reserve(w)
  PROVE  ProcessInv'
<1>1. /\ ProcessTypeOK /\ Owned /\ ~stray
      /\ \A v \in Workers : WorkerOK(v) /\ worker[v] \in WorkerT
  BY WorkerFacts
<1>2. /\ ~dead /\ worker[w].pc = "idle"
      /\ UNCHANGED <<signalVars, TERMINATING, frames, dead, BUSY, group, unreaped, stray>>
  BY DEF Reserve, WorkerAt, Runs
<1>3. ASSUME NEW s \in 1..SLOTS, GROUPS[s] = FREE, GROUPS' = [GROUPS EXCEPT ![s] = RESERVED],
             worker' = [worker EXCEPT ![w] = [pc |-> "check", slot |-> s, group |-> Nobody]]
      PROVE  ProcessInv'
  <2> DEFINE k == [pc |-> "check", slot |-> s, group |-> Nobody]
  <2>1. k \in WorkerT /\ k.pc = "check" /\ k.slot = s /\ k.group = Nobody
    BY TableAssumption DEF WorkerT, Steps
  <2>2. worker' = [worker EXCEPT ![w] = k]
    BY <1>3
  <2> HIDE DEF k
  <2>3. /\ worker'[w] = k /\ \A v \in Workers \ {w} : worker'[v] = worker[v]
        /\ worker' \in [Workers -> WorkerT]
    BY <1>1, <2>1, <2>2 DEF ProcessTypeOK
  <2>4. /\ GROUPS' \in [1..SLOTS -> Pids \cup {FREE, RESERVED}]
        /\ GROUPS'[s] = RESERVED /\ \A r \in (1..SLOTS) \ {s} : GROUPS'[r] = GROUPS[r]
    BY <1>1, <1>3 DEF ProcessTypeOK
  <2>5. ProcessTypeOK'
    BY <1>1, <1>2, <2>3, <2>4 DEF ProcessTypeOK, signalVars
  <2>6. \A v \in Workers : worker[v].pc \in Owning => worker[v].slot # s
    <3>1. FREE # RESERVED
      BY DEF FREE, RESERVED
    <3> QED
      BY <1>1, <1>3, <3>1, TableAssumption DEF WorkerOK, Owning, Reserving, Published
  <2>7. \A v \in Workers : WorkerOK(v)'
    <3> TAKE v \in Workers
    <3>1. CASE v = w
      BY <1>3, <2>1, <2>3, <2>4, <3>1 DEF WorkerOK, Published
    <3>2. CASE v # w
      BY <1>1, <1>2, <2>3, <2>4, <2>6, <3>2 DEF WorkerOK, Owning, Reserving, Published
    <3> QED
      BY <3>1, <3>2
  <2>8. Owned'
    <3>1. \A v, u \in Workers : v # u =>
            /\ worker'[v].pc \in Owning /\ worker'[u].pc \in Owning =>
                 worker'[v].slot # worker'[u].slot
            /\ worker'[v].group # Nobody => worker'[v].group # worker'[u].group
      BY <1>1, <2>1, <2>3, <2>6 DEF Owned, Apart
    <3>2. \A r \in 1..SLOTS : GROUPS'[r] # FREE =>
            \E v \in Workers : worker'[v].pc \in Owning /\ worker'[v].slot = r
      <4> SUFFICES ASSUME NEW r \in 1..SLOTS, GROUPS'[r] # FREE
                   PROVE  \E v \in Workers : worker'[v].pc \in Owning /\ worker'[v].slot = r
        OBVIOUS
      <4>1. CASE r = s
        BY <2>1, <2>3, <4>1 DEF Owning, Reserving
      <4>2. CASE r # s
        <5>1. PICK v \in Workers : worker[v].pc \in Owning /\ worker[v].slot = r
          BY <1>1, <2>4, <4>2 DEF Owned, SlotsOwned
        <5>2. v # w
          BY <1>2, <5>1 DEF Owning, Reserving, Published
        <5> QED
          BY <2>3, <5>1, <5>2
      <4> QED
        BY <4>1, <4>2
    <3>3. \A p \in Pids : group'[p] = "live" =>
            \E v \in Workers : worker'[v].pc \in {"assign", "running"} /\ worker'[v].group = p
      BY <1>1, <1>2, <2>3 DEF Owned, LiveOwned
    <3>4. \A p \in unreaped' : group'[p] # "none" /\ \A v \in Workers : worker'[v].group # p
      <4>1. worker'[w].group = Nobody /\ unreaped \subseteq Pids /\ Nobody \notin Pids
        BY <1>1, <2>1, <2>3, TableAssumption DEF ProcessTypeOK
      <4> QED
        BY <1>1, <1>2, <2>3, <4>1 DEF Owned, UnreapedLeft
    <3> QED
      BY <3>1, <3>2, <3>3, <3>4 DEF Owned, Apart, SlotsOwned, LiveOwned, UnreapedLeft
  <2>9. NeverStray'
    BY <1>1, <1>2 DEF NeverStray
  <2> QED
    BY <1>2, <2>1, <2>2, <2>5, <2>7, <2>8, <2>9, WorkerStep, Zenon DEF Readers
<1>4. ASSUME UNCHANGED <<GROUPS, worker>>
      PROVE  ProcessInv'
  BY <1>1, <1>2, <1>4, NothingMoves DEF signalVars, ProcessTypeOK
<1> QED
  BY <1>3, <1>4 DEF Reserve

\* A step to a later point of the program of a worker, with the slot and the
\* group it had, that changes neither the table nor the groups.
LEMMA WorkerMoves ==
  ASSUME ProcessInv, NEW w \in Workers, NEW pc \in Steps, WorkerGoto(w, pc), ~dead,
         worker[w].pc # "idle", pc # "idle",
         UNCHANGED <<signalVars, TERMINATING, frames, dead, GROUPS, BUSY, group, unreaped, stray>>,
         worker[w].pc \in Reserving /\ pc \in Reserving,
         worker[w].pc = "assign" <=> pc = "assign",
         TERMINATING /\ pc = "spawn" => worker[w].pc = "spawn"
  PROVE  ProcessInv'
<1> DEFINE k == [worker[w] EXCEPT !.pc = pc]
<1>1. /\ ProcessTypeOK /\ Owned /\ ~stray
      /\ \A v \in Workers : WorkerOK(v) /\ worker[v] \in WorkerT
  BY WorkerFacts
<1>2. /\ k \in WorkerT /\ k.pc = pc /\ k.slot = worker[w].slot /\ k.group = worker[w].group
      /\ worker' = [worker EXCEPT ![w] = k]
  BY <1>1 DEF WorkerT, WorkerGoto
<1> HIDE DEF k
<1>3. /\ worker'[w] = k /\ \A v \in Workers \ {w} : worker'[v] = worker[v]
      /\ worker' \in [Workers -> WorkerT]
  BY <1>1, <1>2 DEF ProcessTypeOK
<1>4. ProcessTypeOK'
  BY <1>1, <1>3 DEF ProcessTypeOK, signalVars
<1>5. \A v \in Workers : WorkerOK(v)'
  <2> TAKE v \in Workers
  <2>1. CASE v = w
    BY <1>1, <1>2, <1>3, <2>1, Zenon DEF WorkerOK, Reserving, Published
  <2>2. CASE v # w
    BY <1>1, <1>3, <2>2 DEF WorkerOK
  <2> QED
    BY <2>1, <2>2
<1>6. \A v \in Workers : /\ worker'[v].slot = worker[v].slot /\ worker'[v].group = worker[v].group
                         /\ worker'[v].pc \in Owning <=> worker[v].pc \in Owning
                         /\ worker'[v].pc \in {"assign", "running"} <=>
                              worker[v].pc \in {"assign", "running"}
  BY <1>2, <1>3 DEF Owning, Reserving
<1>7. Owned'
  <2>1. Apart' /\ LiveOwned' /\ UnreapedLeft'
    BY <1>1, <1>6, SameOwners, Zenon
  <2>2. SlotsOwned'
    <3>1. GROUPS' = GROUPS /\ SlotsOwned
      BY <1>1 DEF Owned
    <3> QED
      BY <1>6, <3>1, SMTT(20) DEF SlotsOwned
  <2> QED
    BY <2>1, <2>2 DEF Owned
<1>8. NeverStray'
  BY <1>1 DEF NeverStray
<1> QED
  BY <1>1, <1>2, <1>4, <1>5, <1>7, <1>8, WorkerStep, Zenon DEF Readers, Reserving

\* Once the process is ending, no worker goes on to spawn.
LEMMA CheckInductive ==
  ASSUME ProcessInv, NEW w \in Workers, CheckTerminating(w)
  PROVE  ProcessInv'
<1> DEFINE pc == IF TERMINATING THEN "undo" ELSE "spawn"
<1>1. /\ WorkerGoto(w, pc) /\ ~dead /\ worker[w].pc = "check"
      /\ UNCHANGED <<signalVars, TERMINATING, frames, dead, GROUPS, BUSY, group, unreaped, stray>>
  BY DEF CheckTerminating, WorkerAt, Runs
<1>2. pc \in {"undo", "spawn"} /\ ~(TERMINATING /\ pc = "spawn")
  OBVIOUS
<1> HIDE DEF pc
<1> QED
  BY <1>1, <1>2, WorkerMoves, Zenon DEF Steps, Reserving

\* A leader that starts has an id that was unused.
LEMMA SpawnInductive ==
  ASSUME ProcessInv, NEW w \in Workers, SpawnLeader(w)
  PROVE  ProcessInv'
<1>1. /\ ProcessTypeOK /\ Owned /\ ~stray
      /\ \A v \in Workers : WorkerOK(v) /\ worker[v] \in WorkerT
  BY WorkerFacts
<1>2. /\ ~dead /\ worker[w].pc = "spawn"
      /\ UNCHANGED <<signalVars, TERMINATING, frames, dead, GROUPS, BUSY, unreaped, stray>>
  BY DEF SpawnLeader, WorkerAt, Runs
<1>3. ASSUME WorkerGoto(w, "undo"), UNCHANGED group
      PROVE  ProcessInv'
  BY <1>2, <1>3, WorkerMoves DEF Steps, Reserving
<1>4. ASSUME NEW p \in Pids, group[p] = "none", group' = [group EXCEPT ![p] = "live"],
             worker' = [worker EXCEPT ![w] = [pc |-> "assign", slot |-> @.slot, group |-> p]]
      PROVE  ProcessInv'
  <2> DEFINE k == [pc |-> "assign", slot |-> worker[w].slot, group |-> p]
  <2>1. k \in WorkerT /\ k.pc = "assign" /\ k.slot = worker[w].slot /\ k.group = p
    BY <1>1 DEF WorkerT, Steps
  <2>2. worker' = [worker EXCEPT ![w] = k]
    BY <1>4
  <2> HIDE DEF k
  <2>3. /\ worker'[w] = k /\ \A v \in Workers \ {w} : worker'[v] = worker[v]
        /\ worker' \in [Workers -> WorkerT]
    BY <1>1, <2>1, <2>2 DEF ProcessTypeOK
  <2>4. /\ group' \in [Pids -> {"none", "live", "killed"}]
        /\ group'[p] = "live" /\ \A q \in Pids \ {p} : group'[q] = group[q]
    BY <1>1, <1>4 DEF ProcessTypeOK
  <2>5. ProcessTypeOK'
    BY <1>1, <1>2, <2>3, <2>4 DEF ProcessTypeOK, signalVars
  <2>6. \A v \in Workers : worker[v].group # p
    <3> TAKE v \in Workers
    <3>1. p # Nobody
      BY TableAssumption
    <3>2. worker[v].pc \in Steps
      BY <1>1 DEF WorkerT
    <3> QED
      BY <1>1, <1>4, <3>1, <3>2 DEF WorkerOK, Steps
  <2>7. \A v \in Workers : WorkerOK(v)'
    <3> TAKE v \in Workers
    <3>1. CASE v = w
      BY <1>1, <1>2, <2>1, <2>3, <2>4, <3>1 DEF WorkerOK, Reserving, Published
    <3>2. CASE v # w
      BY <1>1, <1>2, <2>3, <2>4, <2>6, <3>2 DEF WorkerOK
    <3> QED
      BY <3>1, <3>2
  <2>8. Owned'
    <3>1. \A v, u \in Workers : v # u =>
            /\ worker'[v].pc \in Owning /\ worker'[u].pc \in Owning =>
                 worker'[v].slot # worker'[u].slot
            /\ worker'[v].group # Nobody => worker'[v].group # worker'[u].group
      <4>1. worker[w].pc \in Owning
        BY <1>2, Zenon DEF Owning, Reserving
      <4> QED
        BY <1>1, <2>1, <2>3, <2>6, <4>1 DEF Owned, Apart
    <3>2. \A r \in 1..SLOTS : GROUPS'[r] # FREE =>
            \E v \in Workers : worker'[v].pc \in Owning /\ worker'[v].slot = r
      <4>1. k.pc \in Owning
        BY <2>1 DEF Owning, Reserving
      <4> SUFFICES ASSUME NEW r \in 1..SLOTS, GROUPS[r] # FREE
                   PROVE  \E v \in Workers : worker'[v].pc \in Owning /\ worker'[v].slot = r
        BY <1>2
      <4>2. PICK u \in Workers : worker[u].pc \in Owning /\ worker[u].slot = r
        BY <1>1 DEF Owned, SlotsOwned
      <4> QED
        BY <2>1, <2>3, <4>1, <4>2
    <3>3. ASSUME NEW q \in Pids, group'[q] = "live"
          PROVE  \E v \in Workers : worker'[v].pc \in {"assign", "running"} /\ worker'[v].group = q
      <4>1. CASE q = p
        BY <2>1, <2>3, <4>1
      <4>2. CASE q # p
        <5>1. PICK u \in Workers : worker[u].pc \in {"assign", "running"} /\ worker[u].group = q
          BY <1>1, <2>4, <3>3, <4>2 DEF Owned, LiveOwned
        <5>2. worker'[u] = worker[u]
          BY <1>2, <2>3, <5>1
        <5> QED
          BY <5>1, <5>2
      <4> QED
        BY <4>1, <4>2
    <3>4. \A q \in unreaped' : group'[q] # "none" /\ \A v \in Workers : worker'[v].group # q
      BY <1>1, <1>2, <1>4, <2>1, <2>3, <2>4 DEF Owned, UnreapedLeft, ProcessTypeOK
    <3> QED
      BY <3>1, <3>2, <3>3, <3>4 DEF Owned, Apart, SlotsOwned, LiveOwned, UnreapedLeft
  <2>9. NeverStray'
    BY <1>1, <1>2 DEF NeverStray
  <2>10. \A q \in Pids : group'[q] = "live" => group[q] = "live" \/ q = k.group
    BY <2>1, <2>4
  <2> QED
    BY <1>2, <2>1, <2>2, <2>5, <2>7, <2>8, <2>9, <2>10, WorkerStep, Zenon DEF Readers
<1> QED
  BY <1>3, <1>4 DEF SpawnLeader

\* The group is published in the slot that was reserved for it.
LEMMA AssignInductive ==
  ASSUME ProcessInv, NEW w \in Workers, Assign(w)
  PROVE  ProcessInv'
<1> DEFINE k == [worker[w] EXCEPT !.pc = "running"]
           s == worker[w].slot
<1>1. /\ ProcessTypeOK /\ Owned /\ ~stray
      /\ \A v \in Workers : WorkerOK(v) /\ worker[v] \in WorkerT
  BY WorkerFacts
<1>2. /\ ~dead /\ worker[w].pc = "assign"
      /\ GROUPS' = [GROUPS EXCEPT ![s] = worker[w].group]
      /\ UNCHANGED <<signalVars, TERMINATING, frames, dead, BUSY, group, unreaped, stray>>
  BY DEF Assign, WorkerAt, Runs
<1>3. /\ k \in WorkerT /\ k.pc = "running" /\ k.slot = s /\ k.group = worker[w].group
      /\ worker' = [worker EXCEPT ![w] = k]
  BY <1>1 DEF WorkerT, Steps, Assign, WorkerGoto
<1>4. s \in 1..SLOTS /\ worker[w].group \in Pids /\ group[worker[w].group] # "none"
  BY <1>1, <1>2 DEF WorkerOK
<1> HIDE DEF k, s
<1>5. /\ worker'[w] = k /\ \A v \in Workers \ {w} : worker'[v] = worker[v]
      /\ worker' \in [Workers -> WorkerT]
  BY <1>1, <1>3 DEF ProcessTypeOK
<1>6. /\ GROUPS' \in [1..SLOTS -> Pids \cup {FREE, RESERVED}]
      /\ GROUPS'[s] = worker[w].group /\ \A r \in (1..SLOTS) \ {s} : GROUPS'[r] = GROUPS[r]
  BY <1>1, <1>2, <1>4 DEF ProcessTypeOK
<1>7. ProcessTypeOK'
  BY <1>1, <1>2, <1>5, <1>6 DEF ProcessTypeOK, signalVars
<1>8. worker[w].pc \in Owning /\ k.pc \in Owning
  BY <1>2, <1>3 DEF Owning, Reserving, Published
<1>9. \A v \in Workers \ {w} : worker[v].pc \in Owning => worker[v].slot # s
  BY <1>1, <1>8 DEF Owned, Apart, s
<1>10. \A v \in Workers : WorkerOK(v)'
  <2> TAKE v \in Workers
  <2>1. CASE v = w
    BY <1>2, <1>3, <1>4, <1>5, <1>6, <2>1, Zenon DEF WorkerOK, Reserving
  <2>2. CASE v # w
    <3>1. worker[v].pc \in Owning => GROUPS'[worker[v].slot] = GROUPS[worker[v].slot]
      BY <1>1, <1>6, <1>9, <2>2 DEF WorkerOK, Owning, Reserving, Published
    <3> QED
      BY <1>1, <1>2, <1>5, <2>2, <3>1, OtherWorker
  <2> QED
    BY <2>1, <2>2
<1>11. Owned'
  <2>1. \A v \in Workers : /\ worker'[v].slot = worker[v].slot /\ worker'[v].group = worker[v].group
                           /\ worker'[v].pc \in Owning <=> worker[v].pc \in Owning
                           /\ worker'[v].pc \in {"assign", "running"} <=>
                                worker[v].pc \in {"assign", "running"}
    BY <1>2, <1>3, <1>5, <1>8 DEF s
  <2>2. \A r \in 1..SLOTS : GROUPS'[r] # FREE =>
          \E v \in Workers : worker'[v].pc \in Owning /\ worker'[v].slot = r
    <3> SUFFICES ASSUME NEW r \in 1..SLOTS, GROUPS'[r] # FREE
                 PROVE  \E v \in Workers : worker[v].pc \in Owning /\ worker[v].slot = r
      BY <2>1
    <3>1. CASE r = s
      BY <1>8, <3>1 DEF s
    <3>2. CASE r # s
      <4>1. GROUPS[r] # FREE
        BY <1>6, <3>2
      <4> QED
        BY <1>1, <4>1 DEF Owned, SlotsOwned
    <3> QED
      BY <3>1, <3>2
  <2> QED
    <3>1. Apart' /\ LiveOwned' /\ UnreapedLeft'
      BY <1>1, <1>2, <2>1, SameOwners, Zenon
    <3>2. SlotsOwned'
      BY <2>2 DEF SlotsOwned
    <3> QED
      BY <3>1, <3>2 DEF Owned
<1>12. NeverStray'
  BY <1>1, <1>2 DEF NeverStray
<1> QED
  BY <1>1, <1>2, <1>3, <1>7, <1>10, <1>11, <1>12, WorkerStep, Zenon DEF Readers, s

\* supervise, reap and drop kill the group of their own action.
LEMMA KillInductive ==
  ASSUME ProcessInv, NEW w \in Workers, KillGroup(w) \/ EndGroup(w)
  PROVE  ProcessInv'
<1> DEFINE k == worker'[w]
           p == worker[w].group
<1>1. /\ ProcessTypeOK /\ Owned /\ ~stray
      /\ \A v \in Workers : WorkerOK(v) /\ worker[v] \in WorkerT
  BY WorkerFacts
<1>2. /\ ~dead /\ worker[w].pc = "running" /\ Kill(p)
      /\ worker' = worker \/ worker' = [worker EXCEPT ![w] = [worker[w] EXCEPT !.pc = "free"]]
      /\ UNCHANGED <<signalVars, TERMINATING, frames, dead, GROUPS, BUSY, unreaped>>
  BY DEF KillGroup, EndGroup, WorkerAt, Runs, WorkerGoto
<1>3. p \in Pids /\ group[p] # "none" /\ worker[w].slot \in 1..SLOTS /\ GROUPS[worker[w].slot] = p
  BY <1>1, <1>2 DEF WorkerOK, Published
<1>4. /\ group' \in [Pids -> {"none", "live", "killed"}] /\ ~stray' /\ group'[p] # "live"
      /\ \A q \in Pids : /\ group'[q] = "none" <=> group[q] = "none"
                         /\ group'[q] = "live" => group[q] = "live"
  BY <1>1, <1>2, <1>3, Killed
<1>5. /\ k \in WorkerT /\ k.pc \in {"running", "free"}
      /\ k.slot = worker[w].slot /\ k.group = p
      /\ worker' = [worker EXCEPT ![w] = k]
  BY <1>1, <1>2 DEF WorkerT, Steps, ProcessTypeOK
<1> HIDE DEF k, p
<1>6. /\ worker'[w] = k /\ \A v \in Workers \ {w} : worker'[v] = worker[v]
      /\ worker' \in [Workers -> WorkerT]
  BY <1>1, <1>5 DEF ProcessTypeOK
<1>7. stray' \in BOOLEAN
  <2>1. stray' = (stray \/ group[p] = "none")
    BY <1>2 DEF Kill
  <2> QED
    BY <2>1
<1>8. ProcessTypeOK'
  BY <1>1, <1>2, <1>4, <1>6, <1>7 DEF ProcessTypeOK, signalVars
<1>9. \A v \in Workers : WorkerOK(v)'
  <2> TAKE v \in Workers
  <2>1. CASE v = w
    BY <1>2, <1>3, <1>4, <1>5, <1>6, <2>1, Zenon DEF WorkerOK, Reserving
  <2>2. CASE v # w
    BY <1>1, <1>2, <1>4, <1>6, <2>2 DEF WorkerOK
  <2> QED
    BY <2>1, <2>2
<1>10. Owned'
  <2>1. \A v \in Workers : /\ worker'[v].slot = worker[v].slot /\ worker'[v].group = worker[v].group
                           /\ worker'[v].pc \in Owning <=> worker[v].pc \in Owning
    BY <1>2, <1>5, <1>6 DEF Owning, Reserving, Published, p
  <2>2. \A q \in Pids : group'[q] = "live" =>
          \E v \in Workers : worker'[v].pc \in {"assign", "running"} /\ worker'[v].group = q
    <3> SUFFICES ASSUME NEW q \in Pids, group'[q] = "live"
                 PROVE  \E v \in Workers : /\ worker'[v].pc \in {"assign", "running"}
                                           /\ worker'[v].group = q
      OBVIOUS
    <3>1. PICK v \in Workers : worker[v].pc \in {"assign", "running"} /\ worker[v].group = q
      BY <1>1, <1>4 DEF Owned, LiveOwned
    <3>2. v # w
      BY <1>4, <3>1 DEF p
    <3> QED
      BY <1>6, <3>1, <3>2
  <2>3. \A q \in unreaped' : group'[q] # "none" /\ \A v \in Workers : worker'[v].group # q
    BY <1>1, <1>2, <1>4, <2>1 DEF Owned, UnreapedLeft, ProcessTypeOK
  <2> QED
    BY <1>1, <1>2, <2>1, <2>2, <2>3 DEF Owned, Apart, SlotsOwned, LiveOwned, UnreapedLeft
<1>11. NeverStray'
  BY <1>4 DEF NeverStray
<1> QED
  BY <1>2, <1>4, <1>5, <1>8, <1>9, <1>10, <1>11, WorkerStep, Zenon DEF Readers, p

\* The slot is cleared by its owner, and has none afterwards.
LEMMA FreeInductive ==
  ASSUME ProcessInv, NEW w \in Workers, FreeSlot(w)
  PROVE  ProcessInv'
<1> DEFINE k == [worker[w] EXCEPT !.pc = IF worker[w].pc = "undo" THEN "undone" ELSE "freed"]
           s == worker[w].slot
<1>1. /\ ProcessTypeOK /\ Owned /\ ~stray
      /\ \A v \in Workers : WorkerOK(v) /\ worker[v] \in WorkerT
  BY WorkerFacts
<1>2. /\ ~dead /\ worker[w].pc \in {"free", "undo"}
      /\ GROUPS' = [GROUPS EXCEPT ![s] = FREE]
      /\ worker' = [worker EXCEPT ![w] = k]
      /\ UNCHANGED <<signalVars, TERMINATING, frames, dead, BUSY, group, unreaped, stray>>
  BY DEF FreeSlot, WorkerAt, Runs, WorkerGoto
<1>3. /\ k \in WorkerT /\ k.slot = s /\ k.group = worker[w].group
      /\ worker[w].pc = "undo" => k.pc = "undone"
      /\ worker[w].pc = "free" => k.pc = "freed"
  BY <1>1, <1>2 DEF WorkerT, Steps
<1>4. s \in 1..SLOTS
  BY <1>1, <1>2 DEF WorkerOK
<1> HIDE DEF k, s
<1>5. /\ worker'[w] = k /\ \A v \in Workers \ {w} : worker'[v] = worker[v]
      /\ worker' \in [Workers -> WorkerT]
  BY <1>1, <1>2, <1>3 DEF ProcessTypeOK
<1>6. /\ GROUPS' \in [1..SLOTS -> Pids \cup {FREE, RESERVED}]
      /\ GROUPS'[s] = FREE /\ \A r \in (1..SLOTS) \ {s} : GROUPS'[r] = GROUPS[r]
  BY <1>1, <1>2, <1>4 DEF ProcessTypeOK
<1>7. ProcessTypeOK'
  BY <1>1, <1>2, <1>5, <1>6 DEF ProcessTypeOK, signalVars
<1>8. worker[w].pc \in Owning /\ k.pc \notin Owning /\ k.pc \notin {"spawn", "assign", "running"}
  BY <1>2, <1>3 DEF Owning, Reserving, Published
<1>9. \A v \in Workers \ {w} : worker[v].pc \in Owning => worker[v].slot # s
  BY <1>1, <1>8 DEF Owned, Apart, s
<1>10. \A v \in Workers : WorkerOK(v)'
  <2> TAKE v \in Workers
  <2>1. CASE v = w
    BY <1>1, <1>2, <1>3, <1>4, <1>5, <2>1, Zenon DEF WorkerOK, Reserving, Published
  <2>2. CASE v # w
    <3>1. worker[v].pc \in Owning => GROUPS'[worker[v].slot] = GROUPS[worker[v].slot]
      BY <1>1, <1>6, <1>9, <2>2 DEF WorkerOK, Owning, Reserving, Published
    <3> QED
      BY <1>1, <1>2, <1>5, <2>2, <3>1, OtherWorker
  <2> QED
    BY <2>1, <2>2
<1>11. Owned'
  <2>1. \A v \in Workers : worker'[v].slot = worker[v].slot /\ worker'[v].group = worker[v].group
    BY <1>3, <1>5 DEF s
  <2>2. \A r \in 1..SLOTS : GROUPS'[r] # FREE =>
          \E v \in Workers : worker'[v].pc \in Owning /\ worker'[v].slot = r
    <3> SUFFICES ASSUME NEW r \in 1..SLOTS, GROUPS'[r] # FREE
                 PROVE  \E v \in Workers : worker'[v].pc \in Owning /\ worker'[v].slot = r
      OBVIOUS
    <3>1. r # s /\ GROUPS[r] # FREE
      BY <1>6
    <3>2. PICK v \in Workers : worker[v].pc \in Owning /\ worker[v].slot = r
      BY <1>1, <3>1 DEF Owned, SlotsOwned
    <3>3. v # w
      BY <3>1, <3>2 DEF s
    <3> QED
      BY <1>5, <3>2, <3>3
  <2>3. \A v \in Workers : worker'[v].pc \in Owning => worker[v].pc \in Owning
    BY <1>5, <1>8
  <2>4. \A v \in Workers : worker[v].pc \in {"assign", "running"} => worker'[v].pc = worker[v].pc
    BY <1>2, <1>5
  <2> QED
    <3>1. Apart' /\ LiveOwned' /\ UnreapedLeft'
      BY <1>1, <1>2, <2>1, <2>3, <2>4, SameOwners, Zenon
    <3>2. SlotsOwned'
      BY <2>2 DEF SlotsOwned
    <3> QED
      BY <3>1, <3>2 DEF Owned
<1>12. NeverStray'
  BY <1>1, <1>2 DEF NeverStray
<1> QED
  BY <1>2, <1>3, <1>7, <1>8, <1>10, <1>11, <1>12, WorkerStep, Zenon DEF Readers, s

\* A worker leaves its slot when nobody reads it any more.
LEMMA AwaitInductive ==
  ASSUME ProcessInv, Unread, NEW w \in Workers, AwaitQuiet(w)
  PROVE  ProcessInv'
<1> DEFINE p == worker[w].group
<1>1. /\ ProcessTypeOK /\ Owned /\ ~stray
      /\ \A v \in Workers : WorkerOK(v) /\ worker[v] \in WorkerT
  BY WorkerFacts
<1>2. /\ ~dead /\ worker[w].pc \in {"freed", "undone"} /\ BUSY[worker[w].slot] = 0
      /\ unreaped' = unreaped \cup ({p} \ {Nobody})
      /\ worker' = [worker EXCEPT ![w] = Idle]
      /\ UNCHANGED <<signalVars, TERMINATING, frames, dead, GROUPS, BUSY, group, stray>>
  BY DEF AwaitQuiet, WorkerAt, Runs
<1>3. Idle \in WorkerT /\ Idle.pc = "idle" /\ Idle.group = Nobody
  BY DEF Idle, WorkerT, Steps
<1>4. p # Nobody => p \in Pids /\ group[p] # "none"
  BY <1>1, <1>2 DEF WorkerOK
<1> HIDE DEF p
<1>5. /\ worker'[w] = Idle /\ \A v \in Workers \ {w} : worker'[v] = worker[v]
      /\ worker' \in [Workers -> WorkerT]
  BY <1>1, <1>2, <1>3 DEF ProcessTypeOK
<1>6. unreaped' \subseteq Pids
  BY <1>1, <1>2, <1>4 DEF ProcessTypeOK
<1>7. ProcessTypeOK'
  BY <1>1, <1>2, <1>5, <1>6 DEF ProcessTypeOK, signalVars
<1>8. \A v \in Workers : WorkerOK(v)'
  <2> TAKE v \in Workers
  <2>1. CASE v = w
    BY <1>3, <1>5, <2>1, Zenon DEF WorkerOK, Reserving, Published
  <2>2. CASE v # w
    BY <1>1, <1>2, <1>5, <2>2, Zenon DEF WorkerOK
  <2> QED
    BY <2>1, <2>2
<1>9. worker[w].pc \notin Owning /\ Idle.pc \notin Owning
  BY <1>2, <1>3, Zenon DEF Owning, Reserving, Published
<1>10. Owned'
  <2>1. \A v, u \in Workers : v # u =>
          /\ worker'[v].pc \in Owning /\ worker'[u].pc \in Owning =>
               worker'[v].slot # worker'[u].slot
          /\ worker'[v].group # Nobody => worker'[v].group # worker'[u].group
    <3>1. Apart
      BY <1>1 DEF Owned
    <3>2. worker'[w].pc \notin Owning /\ worker'[w].group = Nobody
      BY <1>3, <1>5, <1>9
    <3> QED
      BY <1>5, <3>1, <3>2, SMTT(20) DEF Apart
  <2>2. \A r \in 1..SLOTS : GROUPS'[r] # FREE =>
          \E v \in Workers : worker'[v].pc \in Owning /\ worker'[v].slot = r
    BY <1>1, <1>2, <1>5, <1>9, Zenon DEF Owned, SlotsOwned
  <2>3. \A q \in Pids : group'[q] = "live" =>
          \E v \in Workers : worker'[v].pc \in {"assign", "running"} /\ worker'[v].group = q
    BY <1>1, <1>2, <1>5, Zenon DEF Owned, LiveOwned
  <2>4. ASSUME NEW q \in unreaped'
        PROVE  group'[q] # "none" /\ \A v \in Workers : worker'[v].group # q
    <3>1. q # Nobody
      BY <1>6, TableAssumption
    <3>2. worker'[w].group # q
      BY <1>3, <1>5, <3>1
    <3>3. CASE q \in unreaped
      <4>1. group[q] # "none" /\ \A v \in Workers : worker[v].group # q
        BY <1>1, <3>3 DEF Owned, UnreapedLeft
      <4> QED
        BY <1>2, <1>5, <3>2, <4>1
    <3>4. CASE q = p
      <4>1. group[q] # "none"
        BY <1>4, <3>1, <3>4
      <4>2. ASSUME NEW v \in Workers, v # w
            PROVE  worker[v].group # q
        BY <1>1, <3>1, <3>4, <4>2 DEF Owned, Apart, p
      <4> QED
        BY <1>2, <1>5, <3>2, <4>1, <4>2
    <3> QED
      BY <1>2, <3>3, <3>4
  <2> QED
    BY <2>1, <2>2, <2>3, <2>4, Zenon DEF Owned, Apart, SlotsOwned, LiveOwned, UnreapedLeft
<1>11. NeverStray'
  BY <1>1, <1>2 DEF NeverStray
<1>12. Busy(worker[w].slot) = {}
  BY <1>1, <1>2, Zenon DEF Unread, WorkerOK
<1> QED
  BY <1>2, <1>3, <1>7, <1>8, <1>10, <1>11, <1>12, WorkerStep, Zenon

\* The id of a leader that is reaped belongs to no worker.
LEMMA ReapInductive ==
  ASSUME ProcessInv, NEW p \in Pids, ReapLeader(p)
  PROVE  ProcessInv'
<1>1. /\ ProcessTypeOK /\ Owned /\ ~stray
      /\ \A v \in Workers : WorkerOK(v) /\ worker[v] \in WorkerT
  BY WorkerFacts
<1>2. /\ ~dead /\ p \in unreaped /\ group' = [group EXCEPT ![p] = "none"]
      /\ unreaped' = unreaped \ {p}
      /\ UNCHANGED <<signalVars, TERMINATING, frames, dead, GROUPS, BUSY, worker, stray>>
  BY DEF ReapLeader
<1>3. /\ group' \in [Pids -> {"none", "live", "killed"}]
      /\ group'[p] = "none" /\ \A q \in Pids \ {p} : group'[q] = group[q]
  BY <1>1, <1>2 DEF ProcessTypeOK
<1>4. \A v \in Workers : worker[v].group # p
  BY <1>1, <1>2 DEF Owned, UnreapedLeft
<1>5. ProcessTypeOK'
  BY <1>1, <1>2, <1>3 DEF ProcessTypeOK, signalVars
<1>6. \A v \in Workers : WorkerOK(v)'
  BY <1>1, <1>2, <1>3, <1>4, Zenon DEF WorkerOK
<1>7. Owned'
  <2>1. worker' = worker /\ GROUPS' = GROUPS
    BY <1>2
  <2>2. ASSUME NEW q \in Pids, group'[q] = "live"
        PROVE  \E v \in Workers : worker[v].pc \in {"assign", "running"} /\ worker[v].group = q
    <3>1. group[q] = "live"
      BY <1>3, <2>2
    <3> QED
      BY <1>1, <3>1, Zenon DEF Owned, LiveOwned
  <2>3. ASSUME NEW q \in unreaped'
        PROVE  group'[q] # "none" /\ \A v \in Workers : worker[v].group # q
    <3>1. q \in unreaped /\ q \in Pids \ {p}
      BY <1>1, <1>2 DEF ProcessTypeOK
    <3> QED
      BY <1>1, <1>3, <3>1 DEF Owned, UnreapedLeft
  <2> QED
    <3>1. Apart' /\ SlotsOwned'
      BY <1>1, <2>1, Zenon DEF Owned, Apart, SlotsOwned
    <3>2. LiveOwned'
      BY <2>1, <2>2, Zenon DEF LiveOwned
    <3>3. UnreapedLeft'
      BY <2>1, <2>3, Zenon DEF UnreapedLeft
    <3> QED
      BY <3>1, <3>2, <3>3 DEF Owned
<1>8. Positions' = Positions /\ (\A x : At(x)' = At(x)) /\ \A s : Busy(s)' = Busy(s)
  BY <1>2, HandlersKept
<1>9. BusyCounts'
  BY <1>2, <1>8 DEF ProcessInv, BusyCounts
<1>10. \A v \in Workers : worker'[v].pc = "running" /\ group'[worker'[v].group] = "live" =>
         group[worker[v].group] = "live"
  BY <1>1, <1>2, <1>3, <1>4 DEF WorkerOK
<1>11. ASSUME NEW x \in Positions'
       PROVE  FrameOK(At(x))'
  <2>1. PICK f : f = At(x)
    OBVIOUS
  <2>2. FrameOK(f)
    BY <1>8, <2>1 DEF ProcessInv
  <2>3. FrameOK(f)'
    BY <1>2, <1>10, <2>2, FrameKept, Zenon
  <2>4. At(x)' = f
    BY <1>8, <2>1
  <2> QED
    BY <2>3, <2>4, Zenon DEF FrameOK, Swept
<1> QED
  BY <1>1, <1>2, <1>5, <1>6, <1>7, <1>9, <1>11 DEF ProcessInv, NeverStray, NoOrphans
=============================================================================
