---------------------------- MODULE ResourcePool ----------------------------
(***************************************************************************)
(* Admission of actions to the host: once-core's ResourcePool, the Queue   *)
(* behind its mutex, and the tickets and permits that callers hold.        *)
(*                                                                         *)
(* A caller (a task) enqueues a request, is granted it by a dispatch pass, *)
(* observes the grant by polling its ticket, and gives the capacity back   *)
(* when the last clone of its permit drops.  A caller may be dropped while *)
(* it waits, also after it was granted and before it looked.  Dispatch     *)
(* runs under the mutex, one waiter per step; wakers are called after the  *)
(* mutex is released, so every interleaving of wake-ups with polls,        *)
(* withdrawals and later passes is a behaviour.                            *)
(***************************************************************************)
EXTENDS Naturals, Sequences, FiniteSets, Saturating

CONSTANTS
  Tasks,         \* callers; each has at most one ticket or permit at a time
  Wakers,        \* identities of the wakers a future may be polled with
  Slots,         \* names of shared slots that requests mention
  CpuSlots,      \* ResourceLimits.cpu_slots as configured
  MemoryBytes,   \* ResourceLimits.memory_bytes; zero disables the axis
  SlotLimits,    \* ResourceLimits.slot_limits; zero where nothing is published
  DefaultMemory, \* ResourceLimits.default_action_memory_bytes
  GenericMemory, \* DEFAULT_ACTION_MEMORY_BYTES
  Requests,      \* requests as callers write them, before any clamping
  MaxClones,     \* bound: live clones of one permit
  None           \* no task, no waker

Axes == {"cpu", "mem"} \cup Slots
Amounts == [Axes -> Nat]

ASSUME ConstantsAssumption ==
  /\ None \notin Tasks
  /\ None \notin Wakers
  /\ Wakers # {}
  /\ "cpu" \notin Slots
  /\ "mem" \notin Slots
  /\ CpuSlots \in Nat
  /\ MemoryBytes \in Nat
  /\ SlotLimits \in [Slots -> Nat]
  /\ DefaultMemory \in Nat
  /\ GenericMemory \in Nat \ {0}
  /\ Requests \subseteq Amounts
  /\ MaxClones \in Nat \ {0}

VARIABLES
  used,      \* Queue.used: capacity granted, per axis
  waiters,   \* Queue.waiters, oldest first
  mutex,     \* the task that holds the queue's mutex for a dispatch pass
  cursor,    \* dispatch: index of the next waiter the pass looks at
  free,      \* dispatch: capacity neither granted nor reserved so far
  granted,   \* dispatch: sum of the requests granted by this pass
  collected, \* dispatch: wakers to call after unlocking
  pc,        \* where each task is
  request,   \* the request of each task's ticket or permit
  clones,    \* live clones of each task's permit
  wakers,    \* wakers each task took out of its pass and has yet to call
  polledBy,  \* the waker each task's future was last polled with
  ready,     \* whether that waker has been called since
  passed     \* history: waiters that were ahead of a task when it was granted

passVars  == <<mutex, cursor, free, granted, collected>>
taskVars  == <<request, clones, wakers, polledBy, ready>>
vars == <<used, waiters, mutex, cursor, free, granted, collected, pc, request,
          clones, wakers, polledBy, ready, passed>>

-----------------------------------------------------------------------------
(* Limits and requests *)

Zero == [a \in Axes |-> 0]

\* The budget of a pool; a slot that is not published has a capacity of one.
Limit == [a \in Axes |-> CASE a = "cpu" -> AtLeastOne(CpuSlots)
                           [] a = "mem" -> MemoryBytes
                           [] OTHER     -> AtLeastOne(SlotLimits[a])]

Metered(a) == a # "mem" \/ MemoryBytes # 0

undeclared_memory_bytes ==
  LET configured == IF DefaultMemory = 0 THEN GenericMemory ELSE DefaultMemory
  IN  IF MemoryBytes = 0 THEN configured ELSE Least(configured, MemoryBytes)

\* A request with its memory estimate and its minimum of one CPU filled in.
Estimated(r) == [r EXCEPT !["cpu"] = AtLeastOne(@),
                          !["mem"] = IF @ = 0 THEN undeclared_memory_bytes ELSE @]

\* An estimate is clamped to the pool, so that it can always run alone.
bounded_by(r) ==
  [a \in Axes |-> IF Metered(a) THEN Least(Estimated(r)[a], Limit[a])
                                ELSE Estimated(r)[a]]

\* A minimum that the pool can never provide is refused.
RequiredWithin(r) == \A a \in Axes : Metered(a) => Estimated(r)[a] <= Limit[a]

\* Host side of a remote request: buffers and slots, no guest CPU.
ClientRequest(r) == [bounded_by([r EXCEPT !["cpu"] = 0]) EXCEPT !["cpu"] = 0]

-----------------------------------------------------------------------------
(* Usage and free capacity *)

Add(u, r)    == [a \in Axes |-> u[a] + r[a]]
Remove(u, r) == [a \in Axes |-> Minus(u[a], r[a])]
FreeOf(u)    == [a \in Axes |-> Minus(Limit[a], u[a])]
Fits(f, r)   == \A a \in Axes : Metered(a) => r[a] <= f[a]

\* Mutants of Take: nothing leaves the free capacity; nothing is reserved for
\* a waiter that does not fit.
TakeNothing(f, r) == f
TakeOnlyIfFits(f, r) ==
  IF Fits(f, r) THEN [a \in Axes |-> Minus(f[a], r[a])] ELSE f

Take(f, r) == [a \in Axes |-> Minus(f[a], r[a])]

Waiter == [task : Tasks, granted : BOOLEAN, waker : Wakers \cup {None}]

Position(t) == CHOOSE i \in DOMAIN waiters : waiters[i].task = t
Queued(t)   == \E i \in DOMAIN waiters : waiters[i].task = t
Granted(t)  == \E i \in DOMAIN waiters : waiters[i].task = t /\ waiters[i].granted
Without(i)  == SubSeq(waiters, 1, i - 1) \o SubSeq(waiters, i + 1, Len(waiters))

\* Mutant of Refund: capacity that was granted but not observed is kept.
RefundNothing(t) == used

\* cancel: usage once the grant that task t never observed is returned.
Refund(t) == IF Granted(t) THEN Remove(used, request[t]) ELSE used

\* Mutant of StoredWaker: the first waker a ticket was polled with is kept.
KeepFirstWaker(old, k) == IF old = None THEN k ELSE old

\* poll: the waker stored for a ticket that is polled with waker k.
StoredWaker(old, k) == k

\* A waiter that leaves the queue, or is granted, is no longer passed by anyone.
NotPassed(t) == [o \in Tasks |-> passed[o] \ {t}]

-----------------------------------------------------------------------------
Init ==
  /\ used = Zero
  /\ waiters = <<>>
  /\ mutex = None
  /\ cursor = 1
  /\ free = Zero
  /\ granted = Zero
  /\ collected = {}
  /\ pc = [t \in Tasks |-> "idle"]
  /\ request = [t \in Tasks |-> Zero]
  /\ clones = [t \in Tasks |-> 0]
  /\ wakers = [t \in Tasks |-> {}]
  /\ polledBy = [t \in Tasks |-> None]
  /\ ready = [t \in Tasks |-> FALSE]
  /\ passed = [t \in Tasks |-> {}]

\* Task t, holding the mutex, starts a dispatch pass over usage u.
BeginPass(t, u) ==
  /\ mutex' = t
  /\ cursor' = 1
  /\ free' = FreeOf(u)
  /\ granted' = Zero
  /\ collected' = {}

\* admit: enqueue an ungranted waiter and dispatch, under one lock.
Admit(t, r) ==
  /\ pc[t] = "idle"
  /\ mutex = None
  /\ waiters' = Append(waiters, [task |-> t, granted |-> FALSE, waker |-> None])
  /\ request' = [request EXCEPT ![t] = r]
  /\ pc' = [pc EXCEPT ![t] = "admitPass"]
  /\ BeginPass(t, used)
  /\ UNCHANGED <<used, clones, wakers, polledBy, ready, passed>>

acquire(t, r) == Admit(t, bounded_by(r))
acquire_required(t, r) == RequiredWithin(r) /\ Admit(t, Estimated(r))
acquire_client(t, r) == Admit(t, ClientRequest(r))

\* dispatch: a waiter granted earlier is skipped.
SkipGranted(t) ==
  /\ mutex = t
  /\ cursor <= Len(waiters)
  /\ waiters[cursor].granted
  /\ cursor' = cursor + 1
  /\ UNCHANGED <<used, waiters, mutex, free, granted, collected, pc, passed>>
  /\ UNCHANGED taskVars

\* dispatch: a waiter that fits is granted and its waker collected.
GrantWaiter(t) ==
  /\ mutex = t
  /\ cursor <= Len(waiters)
  /\ ~waiters[cursor].granted
  /\ LET w == waiters[cursor] IN
       /\ Fits(free, request[w.task])
       /\ free' = Take(free, request[w.task])
       /\ granted' = Add(granted, request[w.task])
       /\ waiters' = [waiters EXCEPT ![cursor] =
                        [task |-> w.task, granted |-> TRUE, waker |-> None]]
       /\ collected' = IF w.waker = None THEN collected
                       ELSE collected \cup {<<w.task, w.waker>>}
       /\ passed' = [NotPassed(w.task) EXCEPT ![w.task] =
                       {waiters[j].task : j \in {k \in 1..(cursor - 1) :
                                                   ~waiters[k].granted}}]
  /\ cursor' = cursor + 1
  /\ UNCHANGED <<used, mutex, pc>>
  /\ UNCHANGED taskVars

\* dispatch: a waiter that does not fit reserves what it needs of what is free.
ReserveForWaiter(t) ==
  /\ mutex = t
  /\ cursor <= Len(waiters)
  /\ ~waiters[cursor].granted
  /\ ~Fits(free, request[waiters[cursor].task])
  /\ free' = Take(free, request[waiters[cursor].task])
  /\ cursor' = cursor + 1
  /\ UNCHANGED <<used, waiters, mutex, granted, collected, pc, passed>>
  /\ UNCHANGED taskVars

\* dispatch ends: the grants are charged and the mutex is released.
EndPass(t) ==
  /\ mutex = t
  /\ cursor > Len(waiters)
  /\ used' = Add(used, granted)
  /\ mutex' = None
  /\ cursor' = 1
  /\ free' = Zero
  /\ granted' = Zero
  /\ collected' = {}
  /\ wakers' = [wakers EXCEPT ![t] = collected]
  /\ pc' = [pc EXCEPT ![t] = IF @ = "admitPass" THEN "admitWake" ELSE "freeWake"]
  /\ UNCHANGED <<waiters, request, clones, polledBy, ready, passed>>

\* wake: one collected waker is called, outside the mutex.
CallWaker(t) ==
  /\ pc[t] \in {"admitWake", "freeWake"}
  /\ \E k \in wakers[t] :
       /\ wakers' = [wakers EXCEPT ![t] = @ \ {k}]
       /\ ready' = [ready EXCEPT ![k[1]] =
                      @ \/ (pc[k[1]] \in {"poll", "parked"} /\ polledBy[k[1]] = k[2])]
  /\ UNCHANGED <<used, waiters, pc, request, clones, polledBy, passed>>
  /\ UNCHANGED passVars

\* All wakers called: the caller polls its ticket, or is done with its permit.
DoneWaking(t) ==
  /\ pc[t] \in {"admitWake", "freeWake"}
  /\ wakers[t] = {}
  /\ pc' = [pc EXCEPT ![t] = IF @ = "admitWake" THEN "poll" ELSE "idle"]
  /\ UNCHANGED <<used, waiters, passed>>
  /\ UNCHANGED taskVars
  /\ UNCHANGED passVars

\* poll of a granted ticket: it leaves the queue and becomes a permit.
ObserveGrant(t) ==
  /\ pc[t] = "poll"
  /\ mutex = None
  /\ Granted(t)
  /\ waiters' = Without(Position(t))
  /\ pc' = [pc EXCEPT ![t] = "held"]
  /\ clones' = [clones EXCEPT ![t] = 1]
  /\ polledBy' = [polledBy EXCEPT ![t] = None]
  /\ ready' = [ready EXCEPT ![t] = FALSE]
  /\ UNCHANGED <<used, request, wakers, passed>>
  /\ UNCHANGED passVars

\* poll of an ungranted ticket: it stores the waker it is polled with and parks.
Park(t, k) ==
  /\ pc[t] = "poll"
  /\ mutex = None
  /\ ~Granted(t)
  /\ waiters' = [waiters EXCEPT ![Position(t)].waker = StoredWaker(@, k)]
  /\ polledBy' = [polledBy EXCEPT ![t] = k]
  /\ pc' = [pc EXCEPT ![t] = "parked"]
  /\ UNCHANGED <<used, request, clones, wakers, ready, passed>>
  /\ UNCHANGED passVars

\* The runtime polls a future whose waker was called ...
Resume(t) ==
  /\ pc[t] = "parked"
  /\ ready[t]
  /\ pc' = [pc EXCEPT ![t] = "poll"]
  /\ ready' = [ready EXCEPT ![t] = FALSE]
  /\ UNCHANGED <<used, waiters, request, clones, wakers, polledBy, passed>>
  /\ UNCHANGED passVars

\* ... and may poll it for another reason (a sibling branch of a select).
PollUnwoken(t) ==
  /\ pc[t] = "parked"
  /\ ~ready[t]
  /\ pc' = [pc EXCEPT ![t] = "poll"]
  /\ UNCHANGED <<used, waiters, passed>>
  /\ UNCHANGED taskVars
  /\ UNCHANGED passVars

\* Ticket::drop while the request is queued: withdraw it, return what it was
\* granted, and dispatch.
Withdraw(t) ==
  /\ pc[t] = "parked"
  /\ mutex = None
  /\ used' = Refund(t)
  /\ BeginPass(t, Refund(t))
  /\ waiters' = Without(Position(t))
  /\ pc' = [pc EXCEPT ![t] = "freePass"]
  /\ request' = [request EXCEPT ![t] = Zero]
  /\ polledBy' = [polledBy EXCEPT ![t] = None]
  /\ ready' = [ready EXCEPT ![t] = FALSE]
  /\ passed' = [NotPassed(t) EXCEPT ![t] = {}]
  /\ UNCHANGED <<clones, wakers>>

\* A permit is cloned for a blocking worker, a clone is dropped ...
ClonePermit(t) ==
  /\ pc[t] = "held"
  /\ clones[t] < MaxClones
  /\ clones' = [clones EXCEPT ![t] = @ + 1]
  /\ UNCHANGED <<used, waiters, pc, request, wakers, polledBy, ready, passed>>
  /\ UNCHANGED passVars

DropClone(t) ==
  /\ pc[t] = "held"
  /\ clones[t] > 1
  /\ clones' = [clones EXCEPT ![t] = @ - 1]
  /\ UNCHANGED <<used, waiters, pc, request, wakers, polledBy, ready, passed>>
  /\ UNCHANGED passVars

\* ... and the last one returns the capacity and dispatches.
Release(t) ==
  /\ pc[t] = "held"
  /\ clones[t] = 1
  /\ mutex = None
  /\ used' = Remove(used, request[t])
  /\ BeginPass(t, Remove(used, request[t]))
  /\ clones' = [clones EXCEPT ![t] = 0]
  /\ pc' = [pc EXCEPT ![t] = "freePass"]
  /\ request' = [request EXCEPT ![t] = Zero]
  /\ passed' = [passed EXCEPT ![t] = {}]
  /\ UNCHANGED <<waiters, wakers, polledBy, ready>>

Dispatch(t) == SkipGranted(t) \/ GrantWaiter(t) \/ ReserveForWaiter(t) \/ EndPass(t)
Acquire(t)  == \E r \in Requests : \/ acquire(t, r)
                                   \/ acquire_required(t, r)
                                   \/ acquire_client(t, r)
Poll(t)     == ObserveGrant(t) \/ \E k \in Wakers : Park(t, k)

Next == \E t \in Tasks :
  \/ Acquire(t)
  \/ Dispatch(t)
  \/ CallWaker(t)
  \/ DoneWaking(t)
  \/ Poll(t)
  \/ Resume(t)
  \/ PollUnwoken(t)
  \/ Withdraw(t)
  \/ ClonePermit(t)
  \/ DropClone(t)
  \/ Release(t)

Spec == Init /\ [][Next]_vars

\* What a task does by itself once it has asked for capacity: at any moment at
\* most one of these is possible.
Proceed(t) == \/ Dispatch(t)
              \/ CallWaker(t)
              \/ DoneWaking(t)
              \/ Poll(t)
              \/ Resume(t)
              \/ DropClone(t)
              \/ Release(t)

(* A task that can run is eventually run, one that asks for the mutex over   *)
(* and over eventually gets it (every pass is finite and the lock blocks),   *)
(* and callers finish their work and drop their permits.  Nothing forces a   *)
(* caller to arrive, to withdraw, to clone or to poll unwoken.               *)
Fairness == \A t \in Tasks : SF_vars(Proceed(t))

FairSpec == Spec /\ Fairness

-----------------------------------------------------------------------------
(* Properties *)

TypeOK ==
  /\ used \in Amounts
  /\ waiters \in Seq(Waiter)
  /\ mutex \in Tasks \cup {None}
  /\ cursor \in Nat \ {0}
  /\ free \in Amounts
  /\ granted \in Amounts
  /\ collected \subseteq Tasks \X Wakers
  /\ pc \in [Tasks -> {"idle", "admitPass", "admitWake", "poll", "parked",
                       "held", "freePass", "freeWake"}]
  /\ request \in [Tasks -> Amounts]
  /\ clones \in [Tasks -> Nat]
  /\ wakers \in [Tasks -> SUBSET (Tasks \X Wakers)]
  /\ polledBy \in [Tasks -> Wakers \cup {None}]
  /\ ready \in [Tasks -> BOOLEAN]
  /\ passed \in [Tasks -> SUBSET Tasks]

\* A ticket stays in the queue from the moment it is enqueued until its own
\* caller observes the grant or withdraws, whoever else leaves in between: the
\* unreachable!() of poll is unreachable, and nobody else is in the queue.
TicketIsQueued ==
  \A t \in Tasks :
    Queued(t) <=> pc[t] \in {"admitPass", "admitWake", "poll", "parked"}

\* Parts of the inductive invariant that are not properties of their own.
OneTicketEach ==
  \A i, j \in DOMAIN waiters : waiters[i].task = waiters[j].task => i = j

HolderInPass == mutex # None => pc[mutex] \in {"admitPass", "freePass"}

\* What a pass has granted and what it still sees as free fit beside the usage.
PassFits ==
  \A a \in Axes : (Metered(a) /\ mutex # None) =>
    used[a] + granted[a] + free[a] <= Limit[a]

\* No sequence of grants, withdrawals and releases hands out more of an axis
\* than the pool has; a grant counts as soon as a pass has decided on it.
NeverOversubscribed ==
  \A a \in Axes : Metered(a) => used[a] + granted[a] <= Limit[a]

\* The inductive invariant from which the three properties above follow.
Inductive ==
  /\ TypeOK
  /\ TicketIsQueued
  /\ OneTicketEach
  /\ HolderInPass
  /\ PassFits
  /\ NeverOversubscribed

\* A parked caller that was granted is going to be polled: its waker has been
\* called, or is still held by the task whose pass granted it.
NoLostWakeup ==
  \A t \in Tasks : (pc[t] = "parked" /\ Granted(t)) =>
    \/ ready[t]
    \/ <<t, polledBy[t]>> \in collected
    \/ \E o \in Tasks : <<t, polledBy[t]>> \in wakers[o]

\* What that rests on: a ticket that waits has the waker its caller was last
\* polled with, and wakers are only held during a pass and while they are
\* called.
WaitersHaveWakers ==
  \A i \in DOMAIN waiters :
    LET t == waiters[i].task
    IN  ~waiters[i].granted /\ pc[t] = "parked" =>
          waiters[i].waker = polledBy[t] /\ polledBy[t] # None

WakersAreFresh ==
  /\ mutex = None => collected = {}
  /\ \A t \in Tasks : pc[t] \notin {"admitWake", "freeWake"} => wakers[t] = {}

WakeInv == NoLostWakeup /\ WaitersHaveWakers /\ WakersAreFresh
=============================================================================
