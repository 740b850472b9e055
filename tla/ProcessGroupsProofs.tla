------------------------- MODULE ProcessGroupsProofs -------------------------
(***************************************************************************)
(* Proofs that no signal reaches an id that is not an action's, and that a *)
(* process that ends leaves no group behind, for any number of workers,    *)
(* slots, ids and signals: the steps of the handlers and of the watcher,   *)
(* after those of the workers in ProcessWorkersProofs.                     *)
(***************************************************************************)
EXTENDS ProcessWorkersProofs

-----------------------------------------------------------------------------
(* Sequences *)

\* The domain and the elements of a sequence.
LEMMA SequenceFacts ==
  ASSUME NEW S, NEW q \in Seq(S)
  PROVE  /\ Len(q) \in Nat /\ DOMAIN q = 1..Len(q)
         /\ q # <<>> => Len(q) # 0
         /\ \A i \in 1..Len(q) : q[i] \in S
OBVIOUS

\* A sequence with one element replaced.
LEMMA ReplacedFacts ==
  ASSUME NEW S, NEW q \in Seq(S), NEW i \in 1..Len(q), NEW e \in S
  PROVE  /\ [q EXCEPT ![i] = e] \in Seq(S)
         /\ Len([q EXCEPT ![i] = e]) = Len(q)
OBVIOUS

-----------------------------------------------------------------------------
(* The steps of a handler *)

TopOf(t) == <<t, Len(frames[t])>>

\* The handler on top of a thread changes, and no other.
LEMMA TopMoved ==
  ASSUME ProcessTypeOK, NEW t \in Threads, frames[t] # <<>>, NEW g \in FrameT,
         frames' = [frames EXCEPT ![t][Len(frames[t])] = g]
  PROVE  /\ frames' \in [Threads -> Seq(FrameT)]
         /\ TopOf(t) \in Positions /\ At(TopOf(t)) = Top(t) /\ Top(t) \in FrameT
         /\ Positions' = Positions
         /\ \A x \in Positions : At(x)' = IF x = TopOf(t) THEN g ELSE At(x)
<1> DEFINE n == Len(frames[t])
<1>1. frames \in [Threads -> Seq(FrameT)] /\ frames[t] \in Seq(FrameT)
  BY DEF ProcessTypeOK
<1>2. n \in Nat /\ n # 0 /\ DOMAIN frames[t] = 1..n
  BY <1>1, SequenceFacts
<1>3. n \in DOMAIN frames[t] /\ n \in 1..Len(frames[t])
  BY <1>2
<1>4. /\ frames'[t] = [frames[t] EXCEPT ![n] = g]
      /\ \A u \in Threads : u # t => frames'[u] = frames[u]
  BY <1>1
<1>5. frames'[t] \in Seq(FrameT) /\ DOMAIN frames'[t] = DOMAIN frames[t]
  BY <1>1, <1>3, <1>4, SequenceFacts, ReplacedFacts
<1>6. frames' \in [Threads -> Seq(FrameT)]
  BY <1>1, <1>5
<1>7. frames'[t][n] = g /\ \A i \in DOMAIN frames[t] : i # n => frames'[t][i] = frames[t][i]
  BY <1>3, <1>4
<1>8. Top(t) \in FrameT
  BY <1>1, <1>3, SequenceFacts DEF Top
<1>9. TopOf(t) \in Positions /\ At(TopOf(t)) = Top(t)
  BY <1>2, <1>3 DEF TopOf, Positions, At, Top
<1>10. \A u \in Threads : DOMAIN frames'[u] = DOMAIN frames[u]
  BY <1>4, <1>5
<1>11. Positions' = Positions
  BY <1>10 DEF Positions
<1>12. \A x \in Positions : At(x)' = IF x = TopOf(t) THEN g ELSE At(x)
  <2> SUFFICES ASSUME NEW x \in Positions
               PROVE  frames'[x[1]][x[2]] = IF x = TopOf(t) THEN g ELSE frames[x[1]][x[2]]
    BY DEF At
  <2>1. x = <<x[1], x[2]>> /\ x[1] \in Threads /\ x[2] \in DOMAIN frames[x[1]]
    BY DEF Positions
  <2>2. x = TopOf(t) <=> x[1] = t /\ x[2] = n
    BY <2>1 DEF TopOf
  <2> QED
    BY <1>4, <1>7, <2>1, <2>2
<1> QED
  BY <1>6, <1>8, <1>9, <1>11, <1>12

\* The handler on top of a thread returns.
LEMMA TopReturns ==
  ASSUME ProcessTypeOK, NEW t \in Threads, frames[t] # <<>>, FrameReturn(t)
  PROVE  /\ frames' \in [Threads -> Seq(FrameT)]
         /\ TopOf(t) \in Positions /\ At(TopOf(t)) = Top(t)
         /\ Positions' = Positions \ {TopOf(t)}
         /\ \A x \in Positions' : At(x)' = At(x)
<1> DEFINE n == Len(frames[t])
<1>1. frames \in [Threads -> Seq(FrameT)] /\ frames[t] \in Seq(FrameT)
  BY DEF ProcessTypeOK
<1>2. n \in Nat /\ n # 0 /\ DOMAIN frames[t] = 1..n
  BY <1>1, SequenceFacts
<1>3. /\ frames'[t] = SubSeq(frames[t], 1, n - 1)
      /\ \A u \in Threads : u # t => frames'[u] = frames[u]
  BY <1>1 DEF FrameReturn, Below
<1>4. /\ frames'[t] \in Seq(FrameT) /\ Len(frames'[t]) = n - 1
      /\ \A i \in 1..(n - 1) : frames'[t][i] = frames[t][i]
  BY <1>1, <1>2, <1>3
<1>5. DOMAIN frames'[t] = 1..(n - 1)
  BY <1>4, SequenceFacts
<1>6. frames' \in [Threads -> Seq(FrameT)]
  BY <1>1, <1>4 DEF FrameReturn
<1>7. TopOf(t) \in Positions /\ At(TopOf(t)) = Top(t)
  BY <1>2 DEF TopOf, Positions, At, Top
<1>8. \A i \in Nat : i \in 1..(n - 1) <=> i \in 1..n /\ i # n
  BY <1>2
<1>9. \A x \in Threads \X Nat : x \in Positions' <=> x \in Positions /\ x # TopOf(t)
  <2> TAKE x \in Threads \X Nat
  <2>1. x = <<x[1], x[2]>> /\ x[1] \in Threads /\ x[2] \in Nat
    OBVIOUS
  <2>2. x \in Positions' <=> x[2] \in DOMAIN frames'[x[1]]
    BY DEF Positions
  <2>3. x \in Positions <=> x[2] \in DOMAIN frames[x[1]]
    BY DEF Positions
  <2>4. x = TopOf(t) <=> x[1] = t /\ x[2] = n
    BY <2>1 DEF TopOf
  <2>5. CASE x[1] = t
    BY <1>2, <1>5, <1>8, <2>1, <2>2, <2>3, <2>4, <2>5, Zenon
  <2>6. CASE x[1] # t
    BY <1>3, <2>1, <2>2, <2>3, <2>4, <2>6
  <2> QED
    BY <2>5, <2>6
<1>10. Positions' = Positions \ {TopOf(t)}
  <2>1. Positions \subseteq Threads \X Nat /\ Positions' \subseteq Threads \X Nat
    BY DEF Positions
  <2> QED
    BY <1>9, <2>1
<1>11. \A x \in Positions' : At(x)' = At(x)
  BY <1>3, <1>4, <1>5 DEF Positions, At
<1> QED
  BY <1>6, <1>7, <1>10, <1>11

\* A handler starts on top of a thread.
LEMMA TopStarts ==
  ASSUME ProcessTypeOK, NEW t \in Threads, NEW g \in FrameT,
         frames' = [frames EXCEPT ![t] = Append(frames[t], g)]
  PROVE  /\ frames' \in [Threads -> Seq(FrameT)]
         /\ \A x \in Positions : x \in Positions' /\ At(x)' = At(x)
         /\ \A x \in Positions' : x \notin Positions => At(x)' = g
<1> DEFINE n == Len(frames[t])
<1>1. frames \in [Threads -> Seq(FrameT)] /\ frames[t] \in Seq(FrameT)
  BY DEF ProcessTypeOK
<1>2. n \in Nat /\ DOMAIN frames[t] = 1..n
  BY <1>1, SequenceFacts
<1>3. /\ frames'[t] = Append(frames[t], g)
      /\ \A u \in Threads : u # t => frames'[u] = frames[u]
  BY <1>1
<1>4. /\ frames'[t] \in Seq(FrameT) /\ Len(frames'[t]) = n + 1
      /\ \A i \in 1..n : frames'[t][i] = frames[t][i]
      /\ frames'[t][n + 1] = g
  BY <1>1, <1>2, <1>3
<1>5. DOMAIN frames'[t] = 1..(n + 1)
  BY <1>4, SequenceFacts
<1>6. frames' \in [Threads -> Seq(FrameT)]
  BY <1>1, <1>4
<1> HIDE DEF n
<1>7. \A i \in Nat : i \in 1..(n + 1) <=> i \in 1..n \/ i = n + 1
  BY <1>2
<1>8. ASSUME NEW x \in Positions
      PROVE  x \in Positions' /\ At(x)' = At(x)
  <2>1. x \in Threads \X Nat /\ x[1] \in Threads /\ x[2] \in Nat /\ x[2] \in DOMAIN frames[x[1]]
    BY DEF Positions
  <2>2. x[2] \in DOMAIN frames'[x[1]] /\ frames'[x[1]][x[2]] = frames[x[1]][x[2]]
    BY <1>2, <1>3, <1>4, <1>5, <1>7, <2>1
  <2> QED
    BY <2>1, <2>2 DEF Positions, At
<1>9. ASSUME NEW x \in Positions', x \notin Positions
      PROVE  At(x)' = g
  <2>1. x \in Threads \X Nat /\ x[1] \in Threads /\ x[2] \in Nat /\ x[2] \in DOMAIN frames'[x[1]]
    BY DEF Positions
  <2>2. x[2] \notin DOMAIN frames[x[1]]
    BY <1>9, <2>1 DEF Positions
  <2>3. x[1] = t /\ x[2] = n + 1
    BY <1>2, <1>3, <1>5, <1>7, <2>1, <2>2
  <2> QED
    BY <1>4, <2>3 DEF At
<1> QED
  BY <1>6, <1>8, <1>9

\* A step that moves no worker: every handler that changes knows what it must.
LEMMA HandlerStep ==
  ASSUME ProcessInv, UNCHANGED <<worker, GROUPS, unreaped>>, TERMINATING => TERMINATING',
         ProcessTypeOK', BusyCounts', NeverStray', ~dead, UNCHANGED dead,
         \A p \in Pids : /\ group'[p] = "none" <=> group[p] = "none"
                         /\ group'[p] = "live" => group[p] = "live",
         \A x \in Positions' : (x \in Positions /\ At(x)' = At(x)) \/ FrameOK(At(x))'
  PROVE  ProcessInv'
<1>1. (\A w \in Workers : WorkerOK(w)') /\ Owned'
  BY WorkersKept DEF ProcessInv
<1>2. \A v \in Workers : worker'[v].pc = "running" /\ group'[worker'[v].group] = "live" =>
        group[worker[v].group] = "live"
  BY <1>1 DEF WorkerOK
<1>3. ASSUME NEW x \in Positions, At(x)' = At(x)
      PROVE  FrameOK(At(x))'
  <2>1. PICK f : f = At(x)
    OBVIOUS
  <2>2. FrameOK(f)
    BY <2>1 DEF ProcessInv
  <2>3. FrameOK(f)'
    BY <1>2, <2>2, FrameKept
  <2>4. At(x)' = f
    BY <1>3, <2>1
  <2> QED
    BY <2>3, <2>4 DEF FrameOK, Swept
<1>4. \A x \in Positions' : FrameOK(At(x))'
  BY <1>3
<1> QED
  BY <1>1, <1>4 DEF ProcessInv, NoOrphans

\* Whether a handler is counted for a slot.
Counted(f, s) == f.pc \in {"read", "kill"} /\ f.slot = s

\* Counts stay right when no handler that is counted starts, ends or moves on.
LEMMA CountsKept ==
  ASSUME BusyCounts, UNCHANGED BUSY,
         \A s \in 1..SLOTS : \A x : (x \in Positions' /\ Counted(At(x), s)')
                                    <=> (x \in Positions /\ Counted(At(x), s))
  PROVE  BusyCounts'
<1>1. \A s \in 1..SLOTS : Busy(s)' = Busy(s)
  BY DEF Busy, Counted
<1> QED
  BY <1>1 DEF BusyCounts

\* The handler on top of a thread goes on, and what is counted stays.
LEMMA TopStep ==
  ASSUME ProcessInv, NEW t \in Threads, frames[t] # <<>>, ~dead, NEW g \in FrameT,
         frames' = [frames EXCEPT ![t][Len(frames[t])] = g],
         UNCHANGED <<worker, GROUPS, unreaped, dead, group, stray, BUSY>>,
         TERMINATING' \in BOOLEAN, TERMINATING => TERMINATING',
         SIGNALS' \in Termination \cup {"idle", "watching"},
         \A s \in 1..SLOTS : Counted(g, s) <=> Counted(Top(t), s),
         FrameOK(g)'
  PROVE  ProcessInv'
<1>1. ProcessTypeOK /\ BusyCounts
  BY DEF ProcessInv
<1>2. /\ frames' \in [Threads -> Seq(FrameT)] /\ Positions' = Positions
      /\ At(TopOf(t)) = Top(t)
      /\ \A x \in Positions : At(x)' = IF x = TopOf(t) THEN g ELSE At(x)
  BY <1>1, TopMoved, Zenon
<1>3. ProcessTypeOK'
  BY <1>1, <1>2 DEF ProcessTypeOK
<1>4. BusyCounts'
  <2>1. ASSUME NEW s \in 1..SLOTS, NEW x
        PROVE  (x \in Positions' /\ Counted(At(x), s)') <=> (x \in Positions /\ Counted(At(x), s))
    BY <1>2, <2>1 DEF Counted
  <2> QED
    BY <1>1, <2>1, CountsKept
<1>5. ASSUME NEW x \in Positions'
      PROVE  (x \in Positions /\ At(x)' = At(x)) \/ FrameOK(At(x))'
  BY <1>2 DEF FrameOK, Swept
<1>6. NeverStray'
  BY DEF ProcessInv, NeverStray
<1> QED
  BY <1>3, <1>4, <1>5, <1>6, HandlerStep

\* A handler returns from a point where it is not counted.
LEMMA ReturnStep ==
  ASSUME ProcessInv, NEW t \in Threads, frames[t] # <<>>, ~dead, FrameReturn(t),
         Top(t).pc \notin {"read", "kill"},
         UNCHANGED <<worker, GROUPS, unreaped, dead, group, stray, BUSY, TERMINATING, SIGNALS>>
  PROVE  ProcessInv'
<1>1. ProcessTypeOK /\ BusyCounts
  BY DEF ProcessInv
<1>2. /\ frames' \in [Threads -> Seq(FrameT)] /\ Positions' = Positions \ {TopOf(t)}
      /\ At(TopOf(t)) = Top(t) /\ \A x \in Positions' : At(x)' = At(x)
  BY <1>1, TopReturns
<1>3. ProcessTypeOK'
  BY <1>1, <1>2 DEF ProcessTypeOK
<1>4. BusyCounts'
  <2>1. ASSUME NEW s \in 1..SLOTS, NEW x
        PROVE  (x \in Positions' /\ Counted(At(x), s)') <=> (x \in Positions /\ Counted(At(x), s))
    BY <1>2, <2>1 DEF Counted
  <2> QED
    BY <1>1, <2>1, CountsKept
<1>5. NeverStray'
  BY DEF ProcessInv, NeverStray
<1> QED
  BY <1>2, <1>3, <1>4, <1>5, HandlerStep

\* A handler starts at the beginning, or terminate at its first store.
LEMMA StartStep ==
  ASSUME ProcessInv, NEW t \in Threads, ~dead, NEW g \in FrameT,
         frames' = [frames EXCEPT ![t] = Append(frames[t], g)],
         g.pc \in {"claim", "flag"}, g.slot = 1, g.pc = "claim" => g.signal \in Termination,
         SIGNALS' \in Termination \cup {"idle", "watching"},
         UNCHANGED <<worker, GROUPS, unreaped, dead, group, stray, BUSY, TERMINATING>>
  PROVE  ProcessInv'
<1>1. ProcessTypeOK /\ BusyCounts
  BY DEF ProcessInv
<1>2. /\ frames' \in [Threads -> Seq(FrameT)]
      /\ \A x \in Positions : x \in Positions' /\ At(x)' = At(x)
      /\ \A x \in Positions' : x \notin Positions => At(x)' = g
  BY <1>1, TopStarts, Zenon
<1>3. ProcessTypeOK'
  BY <1>1, <1>2 DEF ProcessTypeOK
<1>4. BusyCounts'
  <2>1. ASSUME NEW s \in 1..SLOTS, NEW x
        PROVE  (x \in Positions' /\ Counted(At(x), s)') <=> (x \in Positions /\ Counted(At(x), s))
    BY <1>2, <2>1 DEF Counted
  <2> QED
    BY <1>1, <2>1, CountsKept
<1>5. ASSUME NEW x \in Positions'
      PROVE  (x \in Positions /\ At(x)' = At(x)) \/ FrameOK(At(x))'
  BY <1>2 DEF FrameOK, Walking
<1>6. NeverStray'
  BY DEF ProcessInv, NeverStray
<1> QED
  BY <1>3, <1>4, <1>5, <1>6, HandlerStep

\* The handler on top of a thread is one the invariant speaks of.
LEMMA TopFacts ==
  ASSUME ProcessInv, NEW t \in Threads, frames[t] # <<>>
  PROVE  /\ ProcessTypeOK /\ Owned /\ BusyCounts /\ ~stray
         /\ \A w \in Workers : WorkerOK(w) /\ worker[w] \in WorkerT
         /\ TopOf(t) \in Positions /\ At(TopOf(t)) = Top(t) /\ Top(t) \in FrameT
         /\ FrameOK(Top(t))
<1>1. ProcessTypeOK /\ frames[t] \in Seq(FrameT)
  BY DEF ProcessInv, ProcessTypeOK
<1>2. Len(frames[t]) \in 1..Len(frames[t]) /\ DOMAIN frames[t] = 1..Len(frames[t])
  BY <1>1, SequenceFacts
<1>3. TopOf(t) \in Positions /\ At(TopOf(t)) = Top(t)
  BY <1>2 DEF TopOf, Positions, At, Top
<1>4. Top(t) \in FrameT
  BY <1>1, <1>2, SequenceFacts DEF Top
<1>5. FrameOK(Top(t))
  BY <1>3 DEF ProcessInv
<1>6. \A w \in Workers : WorkerOK(w) /\ worker[w] \in WorkerT
  BY WorkerFacts
<1> QED
  BY <1>1, <1>3, <1>4, <1>5, <1>6 DEF ProcessInv, NeverStray

\* A handler that goes to another point keeps the rest of what it holds.
LEMMA Goes ==
  ASSUME ProcessInv, NEW t \in Threads, frames[t] # <<>>,
         NEW pc \in {"claim", "stamp", "flag", "die"} \cup Walking, FrameGoto(t, pc)
  PROVE  \E g \in FrameT : /\ g.pc = pc /\ g.slot = Top(t).slot
                           /\ frames' = [frames EXCEPT ![t][Len(frames[t])] = g]
<1> DEFINE n == Len(frames[t])
<1> DEFINE g == [Top(t) EXCEPT !.pc = pc]
<1>1. Top(t) \in FrameT /\ ProcessTypeOK
  BY TopFacts
<1>2. g \in FrameT /\ g.pc = pc /\ g.slot = Top(t).slot
  BY <1>1 DEF FrameT
<1>3. frames' = [frames EXCEPT ![t][n] = g]
  BY DEF FrameGoto, Top
<1> QED
  BY <1>2, <1>3, Zenon

\* A signal interrupts a thread.
LEMMA DeliverInductive ==
  ASSUME ProcessInv, NEW t \in Threads, NEW s \in Termination, Deliver(s, t)
  PROVE  ProcessInv'
<1>1. PICK g : g = Frame(s, "claim")
  OBVIOUS
<1>2. g \in FrameT /\ g.pc = "claim" /\ g.slot = 1 /\ g.signal = s
  BY <1>1 DEF Frame, FrameT
<1>3. frames' = [frames EXCEPT ![t] = Append(frames[t], g)]
  BY <1>1 DEF Deliver
<1>4. /\ ~dead /\ SIGNALS' \in Termination \cup {"idle", "watching"}
      /\ UNCHANGED <<worker, GROUPS, unreaped, dead, group, stray, BUSY, TERMINATING>>
  BY DEF Deliver, groupVars, ProcessInv, ProcessTypeOK
<1> QED
  BY <1>2, <1>3, <1>4, StartStep, Zenon

\* The handler decides whose the signal is.
LEMMA ClaimInductive ==
  ASSUME ProcessInv, NEW t \in Threads, Claim(t)
  PROVE  ProcessInv'
<1>1. /\ ~dead /\ frames[t] # <<>> /\ Top(t).pc = "claim"
      /\ UNCHANGED <<worker, GROUPS, unreaped, dead, group, stray, BUSY, TERMINATING>>
  BY DEF Claim, InFrame, groupVars
<1>2. Top(t).slot = 1 /\ Top(t).signal \in Termination /\ ProcessTypeOK
  BY <1>1, TopFacts DEF FrameOK
<1>3. /\ SIGNALS' \in Termination \cup {"idle", "watching"}
      /\ TERMINATING' \in BOOLEAN /\ (TERMINATING => TERMINATING')
  BY <1>1, <1>2 DEF Claim, ProcessTypeOK
<1>4. ASSUME NEW pc \in {"stamp", "flag"}, FrameGoto(t, pc)
      PROVE  ProcessInv'
  <2>1. PICK g \in FrameT : /\ g.pc = pc /\ g.slot = Top(t).slot
                            /\ frames' = [frames EXCEPT ![t][Len(frames[t])] = g]
    BY <1>1, <1>4, Goes
  <2>2. FrameOK(g)'
    BY <1>2, <1>4, <2>1 DEF FrameOK, Walking
  <2>3. \A s \in 1..SLOTS : Counted(g, s) <=> Counted(Top(t), s)
    BY <1>1, <1>4, <2>1 DEF Counted
  <2> QED
    BY <1>1, <1>3, <2>1, <2>2, <2>3, TopStep, Zenon
<1>5. CASE FrameReturn(t) /\ UNCHANGED SIGNALS
  BY <1>1, <1>5, ReturnStep
<1> QED
  BY <1>4, <1>5 DEF Claim

\* The first signal is stamped and left to the watcher.
LEMMA StampInductive ==
  ASSUME ProcessInv, NEW t \in Threads, Stamp(t)
  PROVE  ProcessInv'
<1>1. /\ ~dead /\ frames[t] # <<>> /\ Top(t).pc = "stamp" /\ FrameReturn(t)
      /\ UNCHANGED <<worker, GROUPS, unreaped, dead, group, stray, BUSY, TERMINATING, SIGNALS>>
  BY DEF Stamp, InFrame, groupVars
<1> QED
  BY <1>1, ReturnStep

\* Before the first slot there is nothing to sweep.
LEMMA SetTerminatingInductive ==
  ASSUME ProcessInv, NEW t \in Threads, SetTerminating(t)
  PROVE  ProcessInv'
<1>1. /\ ~dead /\ frames[t] # <<>> /\ Top(t).pc = "flag" /\ TERMINATING' = TRUE
      /\ FrameGoto(t, "load")
      /\ UNCHANGED <<worker, GROUPS, unreaped, dead, group, stray, BUSY, SIGNALS>>
  BY DEF SetTerminating, InFrame, groupVars, signalVars
<1>2. Top(t).slot = 1 /\ ProcessTypeOK /\ \A w \in Workers : WorkerOK(w)
  BY <1>1, TopFacts DEF FrameOK
<1>3. PICK g \in FrameT : /\ g.pc = "load" /\ g.slot = Top(t).slot
                          /\ frames' = [frames EXCEPT ![t][Len(frames[t])] = g]
  BY <1>1, Goes DEF Walking
<1>4. Swept(1)'
  BY <1>1, <1>2 DEF Swept, WorkerOK
<1>5. FrameOK(g)'
  BY <1>1, <1>2, <1>3, <1>4, TableAssumption DEF FrameOK, Walking
<1>6. \A s \in 1..SLOTS : Counted(g, s) <=> Counted(Top(t), s)
  BY <1>1, <1>3 DEF Counted
<1>7. SIGNALS' \in Termination \cup {"idle", "watching"}
  BY <1>1, <1>2 DEF ProcessTypeOK
<1> QED
  BY <1>1, <1>3, <1>5, <1>6, <1>7, TopStep, Zenon

\* A handler that goes on to the next slot, or to its end.
LEMMA Advances ==
  ASSUME ProcessInv, NEW t \in Threads, frames[t] # <<>>, Top(t).slot \in 1..SLOTS, Advance(t)
  PROVE  \E g \in FrameT : /\ g.pc = IF Top(t).slot = SLOTS THEN "die" ELSE "load"
                           /\ g.slot = Top(t).slot + 1
                           /\ frames' = [frames EXCEPT ![t][Len(frames[t])] = g]
<1> DEFINE s == Top(t).slot
<1> DEFINE g == [signal |-> Top(t).signal, pc |-> IF s = SLOTS THEN "die" ELSE "load",
                 slot |-> s + 1, group |-> FREE]
<1>1. Top(t) \in FrameT
  BY TopFacts
<1>2. s \in Nat /\ Top(t).signal \in Termination \cup {"none"}
  BY <1>1 DEF FrameT
<1>3. g \in FrameT
  BY <1>2 DEF FrameT, Walking
<1>4. frames' = [frames EXCEPT ![t][Len(frames[t])] = g]
  BY DEF Advance, Top
<1> QED
  BY <1>3, <1>4, Zenon

\* Past a slot in which nothing runs or can be started.
LEMMA SweepsOn ==
  ASSUME ProcessInv, NEW f, FrameOK(f), f.pc \in Walking, UNCHANGED worker,
         TERMINATING => TERMINATING',
         \A p \in Pids : group'[p] = "live" => group[p] = "live",
         \A w \in Workers : worker[w].slot = f.slot =>
           /\ worker[w].pc \notin {"spawn", "assign"}
           /\ worker[w].pc = "running" => group'[worker[w].group] # "live",
         NEW g \in FrameT, g.pc = IF f.slot = SLOTS THEN "die" ELSE "load",
         g.slot = f.slot + 1
  PROVE  FrameOK(g)'
<1>1. f.slot \in 1..SLOTS /\ TERMINATING /\ Swept(f.slot)
  BY DEF FrameOK
<1>2. \A w \in Workers : WorkerOK(w) /\ worker[w] \in WorkerT
  BY WorkerFacts
<1>3. \A w \in Workers : worker[w].slot \in Nat
  BY <1>2 DEF WorkerT
<1>4. ASSUME NEW w \in Workers, worker[w].slot < f.slot + 1
      PROVE  /\ worker[w].pc \notin {"spawn", "assign"}
             /\ worker[w].pc = "running" => group'[worker[w].group] # "live"
  <2>1. worker[w].slot < f.slot \/ worker[w].slot = f.slot
    BY <1>1, <1>3, <1>4
  <2>2. worker[w].pc = "running" => worker[w].group \in Pids
    BY <1>2 DEF WorkerOK
  <2> QED
    BY <1>1, <2>1, <2>2 DEF Swept
<1>5. Swept(g.slot)'
  BY <1>4 DEF Swept
<1>6. g.pc = "load" => g.slot \in 1..SLOTS
  BY <1>1, TableAssumption
<1>7. g.pc = "die" => g.slot = SLOTS + 1
  BY <1>1, TableAssumption
<1>8. g.pc \in {"load", "die"}
  OBVIOUS
<1> QED
  BY <1>1, <1>5, <1>6, <1>7, <1>8 DEF FrameOK, Walking

\* A free slot has no owner, and another waits to be marked.
LEMMA LoadSlotInductive ==
  ASSUME ProcessInv, NEW t \in Threads, LoadSlot(t)
  PROVE  ProcessInv'
<1>1. /\ ~dead /\ frames[t] # <<>> /\ Top(t).pc = "load"
      /\ UNCHANGED <<worker, GROUPS, unreaped, dead, group, stray, BUSY, TERMINATING, SIGNALS>>
  BY DEF LoadSlot, InFrame, groupVars, signalVars
<1>2. /\ ProcessTypeOK /\ FrameOK(Top(t))
      /\ \A w \in Workers : WorkerOK(w)
  BY <1>1, TopFacts
<1>3. Top(t).slot \in 1..SLOTS /\ TERMINATING /\ Swept(Top(t).slot)
  BY <1>1, <1>2 DEF FrameOK, Walking
<1>4. /\ SIGNALS' \in Termination \cup {"idle", "watching"}
      /\ TERMINATING' \in BOOLEAN /\ (TERMINATING => TERMINATING')
  BY <1>1, <1>2 DEF ProcessTypeOK
<1>5. CASE GROUPS[Top(t).slot] = FREE
  <2>1. Advance(t)
    BY <1>5 DEF LoadSlot
  <2>2. PICK g \in FrameT : /\ g.pc = IF Top(t).slot = SLOTS THEN "die" ELSE "load"
                            /\ g.slot = Top(t).slot + 1
                            /\ frames' = [frames EXCEPT ![t][Len(frames[t])] = g]
    BY <1>1, <1>3, <2>1, Advances
  <2>3. \A w \in Workers : worker[w].slot = Top(t).slot =>
          worker[w].pc \notin {"spawn", "assign", "running"}
    BY <1>2, <1>5, TableAssumption DEF WorkerOK, Reserving, Published, FREE, RESERVED
  <2>4. PICK f : f = Top(t)
    OBVIOUS
  <2>5. FrameOK(f) /\ f.pc \in Walking
    BY <1>1, <1>2, <2>4 DEF Walking
  <2>6. FrameOK(g)'
    BY <1>1, <2>2, <2>3, <2>4, <2>5, SweepsOn
  <2>7. \A s \in 1..SLOTS : Counted(g, s) <=> Counted(Top(t), s)
    BY <1>1, <2>2 DEF Counted
  <2> QED
    BY <1>1, <1>4, <2>2, <2>6, <2>7, TopStep, Zenon
<1>6. CASE GROUPS[Top(t).slot] # FREE
  <2>1. PICK g \in FrameT : /\ g.pc = "mark" /\ g.slot = Top(t).slot
                            /\ frames' = [frames EXCEPT ![t][Len(frames[t])] = g]
    BY <1>1, <1>6, Goes DEF LoadSlot, Walking
  <2>2. FrameOK(g)'
    BY <1>1, <1>3, <2>1 DEF FrameOK, Walking, Swept
  <2>3. \A s \in 1..SLOTS : Counted(g, s) <=> Counted(Top(t), s)
    BY <1>1, <2>1 DEF Counted
  <2> QED
    BY <1>1, <1>4, <2>1, <2>2, <2>3, TopStep, Zenon
<1> QED
  BY <1>5, <1>6

\* The group that is read is the one of the slot's owner, which has none that
\* is being started.
LEMMA ReadGroupInductive ==
  ASSUME ProcessInv, NEW t \in Threads, ReadGroup(t)
  PROVE  ProcessInv'
<1> DEFINE s == Top(t).slot
<1>1. /\ ~dead /\ frames[t] # <<>> /\ Top(t).pc = "read" /\ GROUPS[s] # RESERVED
      /\ UNCHANGED <<worker, GROUPS, unreaped, dead, group, stray, BUSY, TERMINATING, SIGNALS>>
  BY DEF ReadGroup, InFrame, groupVars, signalVars
<1>2. /\ ProcessTypeOK /\ FrameOK(Top(t)) /\ Owned /\ Top(t) \in FrameT
      /\ \A w \in Workers : WorkerOK(w)
  BY <1>1, TopFacts
<1>3. s \in 1..SLOTS /\ TERMINATING /\ Swept(s)
  BY <1>1, <1>2 DEF FrameOK, Walking
<1>4. PICK g : g = [signal |-> Top(t).signal, pc |-> "kill", slot |-> s, group |-> GROUPS[s]]
  BY Zenon
<1>5. GROUPS[s] \in Pids \cup {FREE}
  BY <1>1, <1>2, <1>3 DEF ProcessTypeOK
<1>6. g \in FrameT /\ g.pc = "kill" /\ g.slot = s /\ g.group = GROUPS[s]
  BY <1>2, <1>4, <1>5 DEF FrameT, Walking
<1>7. frames' = [frames EXCEPT ![t][Len(frames[t])] = g]
  BY <1>4 DEF ReadGroup, Top
<1>8. \A w \in Workers : worker[w].slot = s =>
        /\ worker[w].pc \notin {"spawn", "assign"}
        /\ worker[w].pc = "running" => worker[w].group = g.group
  BY <1>1, <1>2, <1>6 DEF WorkerOK, Reserving, Published
<1>9. g.group # FREE => \E w \in Workers : /\ worker[w].pc \in {"running", "free", "freed"}
                                           /\ worker[w].slot = s /\ worker[w].group = g.group
  <2>1. SUFFICES ASSUME GROUPS[s] # FREE
                 PROVE  \E w \in Workers : /\ worker[w].pc \in {"running", "free", "freed"}
                                           /\ worker[w].slot = s /\ worker[w].group = g.group
    BY <1>6
  <2>2. PICK w \in Workers : worker[w].pc \in Owning /\ worker[w].slot = s
    BY <1>2, <1>3, <2>1 DEF Owned, SlotsOwned
  <2>3. worker[w].pc \in Published
    BY <1>1, <1>2, <2>2 DEF WorkerOK, Owning
  <2> QED
    BY <1>2, <1>6, <2>2, <2>3 DEF WorkerOK, Published
<1>10. FrameOK(g)'
  BY <1>1, <1>3, <1>6, <1>8, <1>9, Zenon DEF FrameOK, Walking, Swept
<1>11. \A r \in 1..SLOTS : Counted(g, r) <=> Counted(Top(t), r)
  BY <1>1, <1>6, Zenon DEF Counted
<1>12. /\ SIGNALS' \in Termination \cup {"idle", "watching"}
       /\ TERMINATING' \in BOOLEAN /\ (TERMINATING => TERMINATING')
  BY <1>1, <1>2 DEF ProcessTypeOK
<1> QED
  BY <1>1, <1>6, <1>7, <1>10, <1>11, <1>12, TopStep, Zenon

\* A handler marks its slot.
LEMMA MarkBusyStep ==
  ASSUME ProcessInv, NEW t \in Threads, NEW s, MarkBusy(t), s = Top(t).slot
  PROVE  /\ s \in 1..SLOTS /\ TopOf(t) \notin Busy(s)
         /\ Busy(s)' = Busy(s) \cup {TopOf(t)}
         /\ \A r \in 1..SLOTS : r # s => Busy(r)' = Busy(r)
         /\ BUSY' = [BUSY EXCEPT ![s] = @ + 1]
         /\ BUSY' \in [1..SLOTS -> Nat] /\ BusyCounts' => ProcessInv'
<1> DEFINE y == TopOf(t)
<1>1. /\ ~dead /\ frames[t] # <<>> /\ Top(t).pc = "mark" /\ FrameGoto(t, "read")
      /\ BUSY' = [BUSY EXCEPT ![s] = @ + 1]
      /\ UNCHANGED <<worker, GROUPS, unreaped, dead, group, stray, TERMINATING, SIGNALS>>
  BY Zenon DEF MarkBusy, InFrame, signalVars
<1>2. /\ ProcessTypeOK /\ FrameOK(Top(t)) /\ BusyCounts /\ ~stray
  BY <1>1, TopFacts
<1>3. s \in 1..SLOTS /\ TERMINATING /\ Swept(s)
  BY <1>1, <1>2, Zenon DEF FrameOK, Walking
<1>4. PICK g \in FrameT : /\ g.pc = "read" /\ g.slot = s
                          /\ frames' = [frames EXCEPT ![t][Len(frames[t])] = g]
  BY <1>1, Goes DEF Walking
<1>5. /\ frames' \in [Threads -> Seq(FrameT)] /\ Positions' = Positions
      /\ y \in Positions /\ At(y) = Top(t)
      /\ \A x \in Positions : At(x)' = IF x = y THEN g ELSE At(x)
  BY <1>1, <1>2, <1>4, TopMoved, Zenon
<1>6. \A r \in 1..SLOTS : r # s => Busy(r)' = Busy(r)
  BY <1>1, <1>4, <1>5 DEF Busy
<1>7. y \notin Busy(s)
  BY <1>1, <1>5 DEF Busy
<1>8. Busy(s)' = Busy(s) \cup {y}
  BY <1>1, <1>4, <1>5 DEF Busy
<1>9. FrameOK(g)'
  BY <1>1, <1>3, <1>4 DEF FrameOK, Walking, Swept
<1>10. ASSUME BUSY' \in [1..SLOTS -> Nat], BusyCounts'
       PROVE  ProcessInv'
  <2>1. ProcessTypeOK'
    BY <1>1, <1>2, <1>5, <1>10 DEF ProcessTypeOK
  <2>2. ASSUME NEW x \in Positions'
        PROVE  (x \in Positions /\ At(x)' = At(x)) \/ FrameOK(At(x))'
    BY <1>5, <1>9, Zenon DEF FrameOK, Swept
  <2>3. NeverStray'
    BY <1>1, <1>2 DEF NeverStray
  <2> QED
    BY <1>1, <1>10, <2>1, <2>2, <2>3, HandlerStep, Zenon
<1> QED
  BY <1>1, <1>3, <1>6, <1>7, <1>8, <1>10

\* The group that was read is killed, if there was one; its leader was not
\* reaped, as its worker waits for the handler.
LEMMA SignalGroupStep ==
  ASSUME ProcessInv, NEW t \in Threads, NEW s, SignalGroup(t), s = Top(t).slot
  PROVE  /\ s \in 1..SLOTS /\ TopOf(t) \in Busy(s)
         /\ Busy(s)' = Busy(s) \ {TopOf(t)}
         /\ \A r \in 1..SLOTS : r # s => Busy(r)' = Busy(r)
         /\ BUSY' = [BUSY EXCEPT ![s] = @ - 1]
         /\ BUSY' \in [1..SLOTS -> Nat] /\ BusyCounts' => ProcessInv'
<1> DEFINE p == Top(t).group
<1> DEFINE y == TopOf(t)
<1>1. /\ ~dead /\ frames[t] # <<>> /\ Top(t).pc = "kill" /\ Advance(t)
      /\ IF p = FREE THEN UNCHANGED <<stray, group>> ELSE Kill(p)
      /\ BUSY' = [BUSY EXCEPT ![s] = @ - 1]
      /\ UNCHANGED <<worker, GROUPS, unreaped, dead, TERMINATING, SIGNALS>>
  BY Zenon DEF SignalGroup, InFrame, signalVars
<1>2. /\ ProcessTypeOK /\ FrameOK(Top(t)) /\ BusyCounts /\ ~stray /\ Top(t) \in FrameT
      /\ \A w \in Workers : WorkerOK(w) /\ worker[w] \in WorkerT
  BY <1>1, TopFacts, Zenon
<1>3. /\ s \in 1..SLOTS
      /\ p # FREE => \E w \in Workers : /\ worker[w].pc \in {"running", "free", "freed"}
                                         /\ worker[w].group = p
      /\ \A w \in Workers : worker[w].slot = s =>
            /\ worker[w].pc \notin {"spawn", "assign"}
            /\ worker[w].pc = "running" /\ group[worker[w].group] = "live" => worker[w].group = p
  BY <1>1, <1>2, Zenon DEF FrameOK, Walking
<1>4. PICK g \in FrameT : /\ g.pc = IF s = SLOTS THEN "die" ELSE "load"
                          /\ g.slot = s + 1
                          /\ frames' = [frames EXCEPT ![t][Len(frames[t])] = g]
  BY <1>1, <1>3, Advances
<1>5. /\ frames' \in [Threads -> Seq(FrameT)] /\ Positions' = Positions
      /\ y \in Positions /\ At(y) = Top(t)
      /\ \A x \in Positions : At(x)' = IF x = y THEN g ELSE At(x)
  BY <1>1, <1>2, <1>4, TopMoved, Zenon
<1>6. p # FREE => p \in Pids /\ group[p] # "none"
  BY <1>2, <1>3 DEF WorkerOK
<1>7. /\ group' \in [Pids -> {"none", "live", "killed"}] /\ ~stray'
      /\ p # FREE => group'[p] # "live"
      /\ \A q \in Pids : /\ group'[q] = "none" <=> group[q] = "none"
                         /\ group'[q] = "live" => group[q] = "live"
  <2>1. CASE p = FREE
    BY <1>1, <1>2, <2>1, Zenon DEF ProcessTypeOK
  <2>2. CASE p # FREE
    <3>1. p \in Pids /\ group[p] # "none" /\ Kill(p)
      BY <1>1, <1>6, <2>2, Zenon
    <3> QED
      BY <1>2, <3>1, Killed
  <2> QED
    BY <2>1, <2>2
<1>8. \A r \in 1..SLOTS : r # s => Busy(r)' = Busy(r)
  BY <1>1, <1>4, <1>5 DEF Busy
<1>9. y \in Busy(s) /\ Busy(s)' = Busy(s) \ {y}
  BY <1>1, <1>4, <1>5 DEF Busy
<1>10. \A w \in Workers : worker[w].slot = s =>
         /\ worker[w].pc \notin {"spawn", "assign"}
         /\ worker[w].pc = "running" => group'[worker[w].group] # "live"
  <2>1. \A w \in Workers : worker[w].pc = "running" =>
          worker[w].group \in Pids /\ worker[w].group # FREE
    BY <1>2, TableAssumption DEF WorkerOK
  <2> QED
    BY <1>3, <1>7, <2>1
<1>11. FrameOK(g)'
  <2>1. PICK f : f = Top(t)
    OBVIOUS
  <2>2. FrameOK(f) /\ f.pc \in Walking
    BY <1>1, <1>2, <2>1, Zenon DEF Walking
  <2> QED
    BY <1>1, <1>4, <1>7, <1>10, <2>1, <2>2, SweepsOn
<1>12. ASSUME BUSY' \in [1..SLOTS -> Nat], BusyCounts'
       PROVE  ProcessInv'
  <2>1. stray' \in BOOLEAN
    BY <1>1, <1>2, Zenon DEF Kill, ProcessTypeOK
  <2>2. ProcessTypeOK'
    BY <1>1, <1>2, <1>5, <1>7, <1>12, <2>1, Zenon DEF ProcessTypeOK
  <2>3. ASSUME NEW x \in Positions'
        PROVE  (x \in Positions /\ At(x)' = At(x)) \/ FrameOK(At(x))'
    BY <1>5, <1>11, Zenon DEF FrameOK, Swept
  <2>4. NeverStray'
    BY <1>7 DEF NeverStray
  <2> QED
    BY <1>1, <1>7, <1>12, <2>2, <2>3, <2>4, HandlerStep, Zenon
<1> QED
  BY <1>1, <1>3, <1>8, <1>9, <1>12, Zenon

\* A process that ends walked the whole table.
LEMMA RaiseDefaultInductive ==
  ASSUME ProcessInv, NEW t \in Threads, RaiseDefault(t)
  PROVE  ProcessInv'
<1>1. /\ frames[t] # <<>> /\ Top(t).pc = "die" /\ dead' = TRUE
      /\ UNCHANGED <<worker, GROUPS, unreaped, group, stray, BUSY, TERMINATING, SIGNALS, frames>>
  BY DEF RaiseDefault, InFrame, groupVars, signalVars
<1>2. /\ ProcessTypeOK /\ FrameOK(Top(t)) /\ Owned
      /\ \A w \in Workers : WorkerOK(w) /\ worker[w] \in WorkerT
  BY <1>1, TopFacts, Zenon
<1>3. Swept(SLOTS + 1)
  BY <1>1, <1>2, Zenon DEF FrameOK
<1>4. ProcessTypeOK'
  BY <1>1, <1>2 DEF ProcessTypeOK
<1>5. (\A w \in Workers : WorkerOK(w)') /\ Owned'
  BY <1>1, WorkersKept DEF ProcessInv
<1>6. Positions' = Positions /\ (\A x : At(x)' = At(x)) /\ \A s : Busy(s)' = Busy(s)
  BY <1>1, HandlersKept, Zenon
<1>7. BusyCounts'
  BY <1>1, <1>6 DEF ProcessInv, BusyCounts
<1>8. ASSUME NEW x \in Positions'
      PROVE  FrameOK(At(x))'
  <2>1. PICK f : f = At(x)
    OBVIOUS
  <2>2. FrameOK(f)
    BY <1>6, <2>1 DEF ProcessInv
  <2>3. FrameOK(f)'
    BY <1>1, <2>2, FrameKept, Zenon
  <2>4. At(x)' = f
    BY <1>6, <2>1
  <2> QED
    BY <2>3, <2>4, Zenon DEF FrameOK, Swept
<1>9. NoOrphans'
  <2>1. SUFFICES ASSUME NEW p \in Pids, group[p] = "live" PROVE FALSE
    BY <1>1 DEF NoOrphans
  <2>2. PICK w \in Workers : worker[w].pc \in {"assign", "running"} /\ worker[w].group = p
    BY <1>2, <2>1 DEF Owned, LiveOwned
  <2>3. worker[w].slot \in 1..SLOTS
    BY <1>2, <2>2 DEF WorkerOK
  <2>4. worker[w].slot < SLOTS + 1
    BY <2>3, TableAssumption
  <2> QED
    BY <1>3, <2>1, <2>2, <2>4 DEF Swept
<1>10. NeverStray'
  BY <1>1 DEF ProcessInv, NeverStray
<1> QED
  BY <1>4, <1>5, <1>7, <1>8, <1>9, <1>10 DEF ProcessInv

\* The watcher ends the process as a handler would.
LEMMA TerminateInductive ==
  ASSUME ProcessInv, ~dead, frames[Watcher] = <<>>, terminate,
         SIGNALS' \in Termination \cup {"idle", "watching"},
         UNCHANGED <<worker, GROUPS, unreaped, dead, group, stray, BUSY, TERMINATING>>
  PROVE  ProcessInv'
<1>1. PICK g : g = Frame("none", "flag")
  OBVIOUS
<1>2. g \in FrameT /\ g.pc = "flag" /\ g.slot = 1
  BY <1>1 DEF Frame, FrameT
<1>3. frames[Watcher] \in Seq(FrameT) /\ Watcher \in Threads
  BY DEF ProcessInv, ProcessTypeOK, Threads
<1>4. Append(frames[Watcher], g) = <<g>>
  BY <1>2, <1>3
<1>5. frames' = [frames EXCEPT ![Watcher] = Append(frames[Watcher], g)]
  BY <1>1, <1>4 DEF terminate
<1> QED
  BY <1>2, <1>3, <1>5, StartStep, Zenon

\* The watcher's own steps.
LEMMA WatcherInductive ==
  ASSUME ProcessInv, InstallWatcher \/ Recv \/ RestoreSignals \/ EndCancelled
  PROVE  ProcessInv'
<1>1. SIGNALS \in Termination \cup {"idle", "watching"}
  BY DEF ProcessInv, ProcessTypeOK
<1>2. CASE InstallWatcher
  <2>1. /\ SIGNALS' \in Termination \cup {"idle", "watching"}
        /\ UNCHANGED <<GROUPS, BUSY, group, worker, unreaped, stray, TERMINATING, frames, dead>>
    BY <1>1, <1>2 DEF InstallWatcher, groupVars
  <2> QED
    BY <2>1, NothingMoves
<1>3. CASE Recv
  <2>1. /\ SIGNALS' \in Termination \cup {"idle", "watching"}
        /\ UNCHANGED <<GROUPS, BUSY, group, worker, unreaped, stray, TERMINATING, frames, dead>>
    BY <1>1, <1>3 DEF Recv, groupVars
  <2> QED
    BY <2>1, NothingMoves
<1>4. CASE RestoreSignals
  <2>1. /\ ~dead /\ frames[Watcher] = <<>> /\ (terminate \/ UNCHANGED frames)
        /\ SIGNALS' \in Termination \cup {"idle", "watching"}
        /\ UNCHANGED <<GROUPS, BUSY, group, worker, unreaped, stray, TERMINATING, dead>>
    BY <1>4 DEF RestoreSignals, Runs, groupVars
  <2> QED
    BY <2>1, NothingMoves, TerminateInductive
<1>5. CASE EndCancelled
  <2>1. /\ ~dead /\ frames[Watcher] = <<>> /\ terminate
        /\ SIGNALS' \in Termination \cup {"idle", "watching"}
        /\ UNCHANGED <<GROUPS, BUSY, group, worker, unreaped, stray, TERMINATING, dead>>
    BY <1>1, <1>5 DEF EndCancelled, Runs, groupVars
  <2> QED
    BY <2>1, TerminateInductive
<1> QED
  BY <1>2, <1>3, <1>4, <1>5

-----------------------------------------------------------------------------
(* Counts *)

\* Nothing can be numbered by nothing.
LEMMA NumberedZero ==
  ASSUME NEW S, Numbered(S, 0)
  PROVE  S = {}
BY DEF Numbered

\* One more takes one more number.
LEMMA NumberedMore ==
  ASSUME NEW S, NEW n \in Nat, Numbered(S, n), NEW x, x \notin S
  PROVE  Numbered(S \cup {x}, n + 1)
<1>1. PICK f \in [S -> 1..n] : \A y, z \in S : f[y] = f[z] => y = z
  BY DEF Numbered
<1> DEFINE g == [y \in S \cup {x} |-> IF y = x THEN n + 1 ELSE f[y]]
<1>2. g \in [S \cup {x} -> 1..(n + 1)]
  BY <1>1
<1>3. \A y, z \in S \cup {x} : g[y] = g[z] => y = z
  BY <1>1
<1> QED
  BY <1>2, <1>3, Zenon DEF Numbered

\* Without one, the last number is not needed: who has it takes the one that is free.
LEMMA NumberedLess ==
  ASSUME NEW S, NEW n \in Nat, Numbered(S, n), NEW x \in S
  PROVE  n - 1 \in Nat /\ Numbered(S \ {x}, n - 1)
<1>1. PICK f \in [S -> 1..n] : \A y, z \in S : f[y] = f[z] => y = z
  BY DEF Numbered
<1> DEFINE g == [y \in S \ {x} |-> IF f[y] = n THEN f[x] ELSE f[y]]
<1>2. n - 1 \in Nat
  BY <1>1
<1>3. \A y \in S \ {x} : f[y] \in 1..n /\ f[x] \in 1..n /\ f[y] # f[x]
  BY <1>1
<1>4. g \in [S \ {x} -> 1..(n - 1)]
  BY <1>3
<1>5. \A y, z \in S \ {x} : g[y] = g[z] => y = z
  BY <1>1, <1>3
<1> QED
  BY <1>2, <1>4, <1>5, Zenon DEF Numbered

\* A count of zero means that nobody reads the slot.
LEMMA ReaderCounts ==
  ASSUME ProcessInv
  PROVE  Unread
BY NumberedZero DEF ProcessInv, BusyCounts, Unread

\* Counts after those of one slot changed with what they count.
LEMMA CountsMoved ==
  ASSUME ProcessInv, NEW s \in 1..SLOTS, NEW n \in Nat,
         \A r \in 1..SLOTS : r # s => Busy(r)' = Busy(r),
         BUSY' = [BUSY EXCEPT ![s] = n], Numbered(Busy(s)', n)
  PROVE  BUSY' \in [1..SLOTS -> Nat] /\ BusyCounts'
<1>1. BusyCounts /\ BUSY \in [1..SLOTS -> Nat]
  BY DEF ProcessInv, ProcessTypeOK
<1>2. /\ BUSY' \in [1..SLOTS -> Nat] /\ BUSY'[s] = n
      /\ \A r \in 1..SLOTS : r # s => BUSY'[r] = BUSY[r]
  BY <1>1
<1>3. ASSUME NEW r \in 1..SLOTS
      PROVE  Numbered(Busy(r)', BUSY'[r])
  BY <1>1, <1>2 DEF BusyCounts
<1> QED
  BY <1>2, <1>3 DEF BusyCounts

\* The mark counts the handler that made it.
LEMMA MarkBusyInductive ==
  ASSUME ProcessInv, NEW t \in Threads, MarkBusy(t)
  PROVE  ProcessInv'
<1>1. PICK s : s = Top(t).slot
  OBVIOUS
<1>2. /\ s \in 1..SLOTS /\ TopOf(t) \notin Busy(s)
      /\ Busy(s)' = Busy(s) \cup {TopOf(t)}
      /\ \A r \in 1..SLOTS : r # s => Busy(r)' = Busy(r)
      /\ BUSY' = [BUSY EXCEPT ![s] = @ + 1]
      /\ BUSY' \in [1..SLOTS -> Nat] /\ BusyCounts' => ProcessInv'
  BY <1>1, MarkBusyStep
<1>3. BUSY[s] \in Nat /\ Numbered(Busy(s), BUSY[s])
  BY <1>2, Zenon DEF ProcessInv, ProcessTypeOK, BusyCounts
<1>4. PICK n \in Nat : n = BUSY[s] + 1
  BY <1>3
<1>5. Numbered(Busy(s)', n)
  BY <1>2, <1>3, <1>4, NumberedMore
<1>6. BUSY' = [BUSY EXCEPT ![s] = n]
  BY <1>2, <1>4
<1> QED
  BY <1>2, <1>5, <1>6, CountsMoved, Zenon

\* A handler that leaves its slot is no longer counted.
LEMMA SignalGroupInductive ==
  ASSUME ProcessInv, NEW t \in Threads, SignalGroup(t)
  PROVE  ProcessInv'
<1>1. PICK s : s = Top(t).slot
  OBVIOUS
<1>2. /\ s \in 1..SLOTS /\ TopOf(t) \in Busy(s)
      /\ Busy(s)' = Busy(s) \ {TopOf(t)}
      /\ \A r \in 1..SLOTS : r # s => Busy(r)' = Busy(r)
      /\ BUSY' = [BUSY EXCEPT ![s] = @ - 1]
      /\ BUSY' \in [1..SLOTS -> Nat] /\ BusyCounts' => ProcessInv'
  BY <1>1, SignalGroupStep
<1>3. BUSY[s] \in Nat /\ Numbered(Busy(s), BUSY[s])
  BY <1>2, Zenon DEF ProcessInv, ProcessTypeOK, BusyCounts
<1>4. BUSY[s] - 1 \in Nat /\ Numbered(Busy(s) \ {TopOf(t)}, BUSY[s] - 1)
  BY <1>2, <1>3, NumberedLess, Zenon
<1>5. PICK n \in Nat : n = BUSY[s] - 1
  BY <1>4
<1>6. BUSY' = [BUSY EXCEPT ![s] = n] /\ Numbered(Busy(s)', n)
  BY <1>2, <1>4, <1>5
<1> QED
  BY <1>2, <1>6, CountsMoved, Zenon

-----------------------------------------------------------------------------
(* The results *)

\* Nothing runs when the process starts.
LEMMA InitInductive ==
  ASSUME ProcessInit
  PROVE  ProcessInv
<1>1. \A t \in Threads : frames[t] = <<>>
  BY DEF ProcessInit
<1>2. Positions = {}
  BY <1>1 DEF Positions
<1>3. \A s : Busy(s) = {}
  BY <1>2 DEF Busy
<1>4. BusyCounts
  <2>1. [x \in {} |-> 0] \in [{} -> 1..0]
    OBVIOUS
  <2>2. Numbered({}, 0)
    BY <2>1, Zenon DEF Numbered
  <2> QED
    BY <1>3, <2>2, Zenon DEF BusyCounts, ProcessInit
<1>5. ProcessTypeOK
  <2>1. Idle \in WorkerT /\ <<>> \in Seq(FrameT)
    BY DEF Idle, WorkerT, Steps
  <2> QED
    BY <2>1, Zenon DEF ProcessInit, ProcessTypeOK
<1>6. \A w \in Workers : worker[w] = Idle
  BY DEF ProcessInit
<1>7. \A w \in Workers : WorkerOK(w)
  BY <1>6 DEF WorkerOK, Idle, Reserving, Published
<1>8. Owned
  BY <1>6, TableAssumption
     DEF ProcessInit, Owned, Apart, SlotsOwned, LiveOwned, UnreapedLeft, Idle, Owning,
         Reserving, Published
<1>9. NeverStray /\ NoOrphans
  BY DEF ProcessInit, NeverStray, NoOrphans
<1> QED
  BY <1>2, <1>4, <1>5, <1>7, <1>8, <1>9 DEF ProcessInv

\* Every slot and every group has one owner, the count of a slot is that of the
\* handlers that may have read it, and a handler past a slot left nothing alive
\* in it, for any number of workers, slots, ids and signals (process_group.rs).
THEOREM ProcessInductive == ProcessSpec => []ProcessInv
<1>1. ProcessInit => ProcessInv
  BY InitInductive
<1>2. ProcessInv /\ [ProcessNext]_processVars => ProcessInv'
  <2>1. SUFFICES ASSUME ProcessInv, [ProcessNext]_processVars PROVE ProcessInv'
    OBVIOUS
  <2>2. ASSUME NEW w \in Workers, Reserve(w) \/ KillGroup(w) \/ EndGroup(w)
        PROVE  ProcessInv'
    BY <2>1, <2>2, ReserveInductive, KillInductive
  <2>3. ASSUME NEW w \in Workers, WorkerRuns(w)
        PROVE  ProcessInv'
    BY <2>1, <2>3, CheckInductive, SpawnInductive, AssignInductive, FreeInductive,
       AwaitInductive, ReaderCounts DEF WorkerRuns
  <2>4. ASSUME NEW t \in Threads, Handle(t)
        PROVE  ProcessInv'
    BY <2>1, <2>4, ClaimInductive, StampInductive, SetTerminatingInductive, LoadSlotInductive,
       MarkBusyInductive, ReadGroupInductive, SignalGroupInductive, RaiseDefaultInductive
       DEF Handle
  <2>5. ASSUME NEW t \in Threads, NEW s \in Termination, Deliver(s, t)
        PROVE  ProcessInv'
    BY <2>1, <2>5, DeliverInductive
  <2>6. ASSUME NEW p \in Pids, ReapLeader(p)
        PROVE  ProcessInv'
    BY <2>1, <2>6, ReapInductive
  <2>7. CASE UNCHANGED processVars
    <3>1. SIGNALS' \in Termination \cup {"idle", "watching"}
      BY <2>1, <2>7 DEF processVars, signalVars, ProcessInv, ProcessTypeOK
    <3> QED
      BY <2>1, <2>7, <3>1, NothingMoves DEF processVars, groupVars, signalVars
  <2> QED
    BY <2>1, <2>2, <2>3, <2>4, <2>5, <2>6, <2>7, WatcherInductive DEF ProcessNext
<1> QED
  BY <1>1, <1>2, PTL DEF ProcessSpec

\* No signal reaches an id whose leader was reaped (signal_all against
\* Registration::drop).
THEOREM ProcessNeverStray == ProcessSpec => []NeverStray
<1>1. ProcessInv => NeverStray
  BY DEF ProcessInv
<1> QED
  BY <1>1, ProcessInductive, PTL

\* A process that a signal ended leaves no group of its actions alive
\* (terminate_all against Registration::reserve).
THEOREM ProcessNoOrphans == ProcessSpec => []NoOrphans
<1>1. ProcessInv => NoOrphans
  BY DEF ProcessInv
<1> QED
  BY <1>1, ProcessInductive, PTL
=============================================================================
