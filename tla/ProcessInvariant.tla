---------------------------- MODULE ProcessInvariant ----------------------------
(***************************************************************************)
(* The inductive invariant of ProcessGroups: what workers and handlers     *)
(* know of the table, of the groups and of each other.                     *)
(***************************************************************************)
EXTENDS ProcessGroups

Steps == {"idle", "check", "spawn", "assign", "running", "undo", "undone", "free", "freed"}
Reserving == {"check", "spawn", "assign", "undo"}
Published == {"running", "free"}
Owning == Reserving \cup Published

WorkerT == [pc : Steps, slot : Nat, group : Pids \cup {Nobody}]

Walking == {"load", "mark", "read", "kill"}
FrameT == [signal : Termination \cup {"none"}, slot : Nat, group : Pids \cup {FREE},
           pc : {"claim", "stamp", "flag", "die"} \cup Walking]

ProcessTypeOK ==
  /\ TERMINATING \in BOOLEAN
  /\ GROUPS \in [1..SLOTS -> Pids \cup {FREE, RESERVED}]
  /\ BUSY \in [1..SLOTS -> Nat]
  /\ group \in [Pids -> {"none", "live", "killed"}]
  /\ worker \in [Workers -> WorkerT]
  /\ frames \in [Threads -> Seq(FrameT)]
  /\ unreaped \subseteq Pids
  /\ SIGNALS \in Termination \cup {"idle", "watching"}
  /\ dead \in BOOLEAN /\ stray \in BOOLEAN

\* What a worker knows of its slot and of its group.
WorkerOK(w) ==
  LET k == worker[w] IN
  /\ k.pc # "idle" => k.slot \in 1..SLOTS
  /\ k.pc \in {"idle", "check", "spawn", "undo", "undone"} => k.group = Nobody
  /\ k.pc \in {"assign", "running", "free", "freed"} =>
       k.group \in Pids /\ group[k.group] # "none"
  /\ k.pc \in Reserving => GROUPS[k.slot] = RESERVED
  /\ k.pc \in Published => GROUPS[k.slot] = k.group

\* Slots and groups have one owner, and what is in use has one.
Apart ==
  \A v, w \in Workers : v # w =>
    /\ worker[v].pc \in Owning /\ worker[w].pc \in Owning => worker[v].slot # worker[w].slot
    /\ worker[v].group # Nobody => worker[v].group # worker[w].group

SlotsOwned ==
  \A s \in 1..SLOTS : GROUPS[s] # FREE =>
    \E w \in Workers : worker[w].pc \in Owning /\ worker[w].slot = s

LiveOwned ==
  \A p \in Pids : group[p] = "live" =>
    \E w \in Workers : worker[w].pc \in {"assign", "running"} /\ worker[w].group = p

UnreapedLeft ==
  \A p \in unreaped : group[p] # "none" /\ \A w \in Workers : worker[w].group # p

Owned == Apart /\ SlotsOwned /\ LiveOwned /\ UnreapedLeft

\* The handlers on all threads, and those that may have read a slot.
Positions == {x \in Threads \X Nat : x[2] \in DOMAIN frames[x[1]]}
At(x) == frames[x[1]][x[2]]
Busy(s) == {x \in Positions : At(x).pc \in {"read", "kill"} /\ At(x).slot = s}

\* A set has at most n members when they can be numbered with 1..n.
Numbered(S, n) == \E f \in [S -> 1..n] : \A x, y \in S : f[x] = f[y] => x = y

BusyCounts == \A s \in 1..SLOTS : Numbered(Busy(s), BUSY[s])

\* What the count is for.
Unread == \A s \in 1..SLOTS : BUSY[s] = 0 => Busy(s) = {}

\* No action of a slot before this one is running or can still be started.
Swept(s) ==
  \A w \in Workers : worker[w].slot < s =>
    /\ worker[w].pc \notin {"spawn", "assign"}
    /\ worker[w].pc = "running" => group[worker[w].group] # "live"

\* What a handler that walks the table knows.  The group it read is still that
\* of a worker, which waits for it, and is all that may run in that slot.
FrameOK(f) ==
  /\ f.pc \in Walking => f.slot \in 1..SLOTS
  /\ f.pc = "die" => f.slot = SLOTS + 1
  /\ f.pc \in {"claim", "stamp", "flag"} => f.slot = 1
  /\ f.pc = "claim" => f.signal \in Termination
  /\ f.pc \in Walking \cup {"die"} => TERMINATING /\ Swept(f.slot)
  /\ f.pc = "kill" =>
       /\ f.group # FREE => \E w \in Workers : /\ worker[w].pc \in {"running", "free", "freed"}
                                              /\ worker[w].slot = f.slot
                                              /\ worker[w].group = f.group
       /\ \A w \in Workers : worker[w].slot = f.slot =>
            /\ worker[w].pc \notin {"spawn", "assign"}
            /\ worker[w].pc = "running" /\ group[worker[w].group] = "live" =>
                 worker[w].group = f.group

ProcessInv ==
  /\ ProcessTypeOK
  /\ \A w \in Workers : WorkerOK(w)
  /\ Owned
  /\ BusyCounts
  /\ \A x \in Positions : FrameOK(At(x))
  /\ NeverStray
  /\ NoOrphans
=============================================================================
