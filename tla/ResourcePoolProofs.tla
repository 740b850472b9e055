------------------------- MODULE ResourcePoolProofs -------------------------
(***************************************************************************)
(* Proofs about ResourcePool, for any number of callers, axes and units:   *)
(* types, that a ticket stays in the queue until its caller removes it,    *)
(* and that the pool is never oversubscribed.                              *)
(***************************************************************************)
EXTENDS ResourcePool, SequenceTheorems, TLAPS

-----------------------------------------------------------------------------
(* Amounts *)

\* saturating_sub stays in Nat, never grows, and is exact when it can be.
LEMMA MinusType ==
  ASSUME NEW m \in Nat, NEW n \in Nat
  PROVE  /\ Minus(m, n) \in Nat
         /\ Minus(m, n) <= m
         /\ n <= m => Minus(m, n) + n = m
         /\ Minus(m, n) + n >= m
BY DEF Minus

\* The limits of a pool are amounts.
LEMMA LimitType == Limit \in Amounts
<1> SUFFICES ASSUME NEW a \in Axes
             PROVE  Limit[a] \in Nat
  BY DEF Limit, Amounts
<1>1. CASE a = "cpu"
  BY <1>1, ConstantsAssumption DEF Limit, AtLeastOne
<1>2. CASE a = "mem"
  BY <1>2, ConstantsAssumption DEF Limit
<1>3. CASE a \in Slots
  <2>1. a # "cpu" /\ a # "mem"
    BY <1>3, ConstantsAssumption
  <2>2. Limit[a] = AtLeastOne(SlotLimits[a])
    BY <2>1 DEF Limit
  <2> QED
    BY <1>3, <2>2, ConstantsAssumption DEF AtLeastOne
<1> QED
  BY <1>1, <1>2, <1>3 DEF Axes

\* Usage::add yields amounts.
LEMMA AddType ==
  ASSUME NEW u \in Amounts, NEW r \in Amounts
  PROVE  Add(u, r) \in Amounts
BY DEF Add, Amounts

\* Usage::remove yields amounts and never raises an axis.
LEMMA RemoveType ==
  ASSUME NEW u \in Amounts, NEW r \in Amounts
  PROVE  /\ Remove(u, r) \in Amounts
         /\ \A a \in Axes : Remove(u, r)[a] <= u[a]
BY MinusType DEF Remove, Amounts

\* Free::take never raises an axis, and is exact for a request that fits.
LEMMA TakeType ==
  ASSUME NEW f \in Amounts, NEW r \in Amounts
  PROVE  /\ Take(f, r) \in Amounts
         /\ \A a \in Axes : Take(f, r)[a] <= f[a]
         /\ Fits(f, r) => \A a \in Axes : Metered(a) => Take(f, r)[a] + r[a] = f[a]
<1>1. \A a \in Axes : f[a] \in Nat /\ r[a] \in Nat
  BY DEF Amounts
<1> QED
  BY <1>1, MinusType DEF Take, Amounts, Fits

\* Free::new leaves exactly what a usage within the limits leaves.
LEMMA FreeOfType ==
  ASSUME NEW u \in Amounts
  PROVE  /\ FreeOf(u) \in Amounts
         /\ \A a \in Axes : u[a] <= Limit[a] => FreeOf(u)[a] + u[a] = Limit[a]
<1>1. \A a \in Axes : u[a] \in Nat /\ Limit[a] \in Nat
  BY LimitType DEF Amounts
<1> QED
  BY <1>1, MinusType DEF FreeOf, Amounts

\* A request with its defaults filled in is a request.
LEMMA EstimatedType ==
  ASSUME NEW r \in Amounts
  PROVE  Estimated(r) \in Amounts
<1>1. undeclared_memory_bytes \in Nat
  BY ConstantsAssumption DEF undeclared_memory_bytes, Least
<1> QED
  BY <1>1, Zenon DEF Estimated, Amounts, AtLeastOne, Axes

\* bounded_by yields amounts.
LEMMA BoundedType ==
  ASSUME NEW r \in Amounts
  PROVE  bounded_by(r) \in Amounts
<1>1. \A a \in Axes : Estimated(r)[a] \in Nat /\ Limit[a] \in Nat
  BY EstimatedType, LimitType DEF Amounts
<1> QED
  BY <1>1 DEF bounded_by, Amounts, Least

\* acquire_client admits amounts.
LEMMA ClientType ==
  ASSUME NEW r \in Amounts
  PROVE  ClientRequest(r) \in Amounts
<1>1. [r EXCEPT !["cpu"] = 0] \in Amounts
  BY Zenon DEF Amounts
<1>2. bounded_by([r EXCEPT !["cpu"] = 0]) \in Amounts
  BY <1>1, BoundedType
<1> QED
  BY <1>2, Zenon DEF ClientRequest, Amounts

\* No usage at all is a usage.
LEMMA ZeroType == Zero \in Amounts
BY DEF Zero, Amounts

-----------------------------------------------------------------------------
(* The queue *)

\* Removing the waiter at an index keeps every other waiter, in order.
LEMMA WithoutProperties ==
  ASSUME TypeOK, NEW i \in DOMAIN waiters
  PROVE  /\ Without(i) \in Seq(Waiter)
         /\ Len(Without(i)) = Len(waiters) - 1
         /\ \A j \in 1..(Len(waiters) - 1) :
              Without(i)[j] = IF j < i THEN waiters[j] ELSE waiters[j + 1]
<1> DEFINE front == SubSeq(waiters, 1, i - 1)
           back  == SubSeq(waiters, i + 1, Len(waiters))
<1>1. /\ waiters \in Seq(Waiter)
      /\ Len(waiters) \in Nat
      /\ DOMAIN waiters = 1..Len(waiters)
      /\ i \in 1..Len(waiters)
      /\ \A j \in 1..Len(waiters) : waiters[j] \in Waiter
  BY LenProperties, ElementOfSeq DEF TypeOK
<1>2. /\ front \in Seq(Waiter)
      /\ Len(front) = i - 1
      /\ \A j \in 1..(i - 1) : front[j] = waiters[j]
  BY <1>1, SubSeqProperties
<1>3. /\ back \in Seq(Waiter)
      /\ Len(back) = Len(waiters) - i
      /\ \A j \in 1..(Len(waiters) - i) : back[j] = waiters[j + i]
  <2>1. /\ i + 1 \in Int
        /\ Len(waiters) \in Int
        /\ \A j \in (i + 1)..Len(waiters) : waiters[j] \in Waiter
    BY <1>1
  <2>2. /\ back \in Seq(Waiter)
        /\ Len(back) = IF i + 1 <= Len(waiters) THEN Len(waiters) - (i + 1) + 1 ELSE 0
        /\ \A j \in 1..(Len(waiters) - (i + 1) + 1) : back[j] = waiters[i + 1 + j - 1]
    <3> DEFINE m == i + 1
    <3>1. m \in Int /\ \A j \in m..Len(waiters) : waiters[j] \in Waiter
      BY <2>1
    <3> HIDE DEF m
    <3>2. /\ SubSeq(waiters, m, Len(waiters)) \in Seq(Waiter)
          /\ Len(SubSeq(waiters, m, Len(waiters)))
               = IF m <= Len(waiters) THEN Len(waiters) - m + 1 ELSE 0
          /\ \A j \in 1..(Len(waiters) - m + 1) :
               SubSeq(waiters, m, Len(waiters))[j] = waiters[m + j - 1]
      BY <2>1, <3>1, SubSeqProperties
    <3> QED
      BY <3>2, Zenon DEF m
  <2> HIDE DEF back
  <2>3. Len(waiters) - (i + 1) + 1 = Len(waiters) - i /\ i <= Len(waiters)
    BY <1>1
  <2>4. ASSUME NEW j \in 1..(Len(waiters) - i)
        PROVE  back[j] = waiters[j + i]
    <3>1. i + 1 + j - 1 = j + i
      BY <1>1
    <3> QED
      BY <2>2, <2>3, <3>1
  <2>5. Len(back) = Len(waiters) - i
    BY <1>1, <2>2
  <2> QED
    BY <2>2, <2>4, <2>5
<1> HIDE DEF front, back
<1>4. /\ front \o back \in Seq(Waiter)
      /\ Len(front \o back) = Len(waiters) - 1
      /\ \A j \in 1..(Len(waiters) - 1) : (front \o back)[j] =
           IF j <= i - 1 THEN front[j] ELSE back[j - (i - 1)]
  <2>1. /\ front \o back \in Seq(Waiter)
        /\ Len(front \o back) = Len(front) + Len(back)
        /\ \A j \in 1..(Len(front) + Len(back)) : (front \o back)[j] =
             IF j <= Len(front) THEN front[j] ELSE back[j - Len(front)]
    BY <1>2, <1>3, ConcatProperties, Zenon
  <2>2. Len(front) + Len(back) = Len(waiters) - 1
    BY <1>1, <1>2, <1>3
  <2> QED
    BY <2>1, <2>2, <1>2
<1>5. Without(i) = front \o back
  BY DEF Without, front, back
<1>6. ASSUME NEW j \in 1..(Len(waiters) - 1)
      PROVE  Without(i)[j] = IF j < i THEN waiters[j] ELSE waiters[j + 1]
  <2>1. CASE j < i
    <3>1. j \in 1..(i - 1) /\ j <= i - 1
      BY <2>1, <1>1
    <3> QED
      BY <2>1, <3>1, <1>2, <1>4, <1>5
  <2>2. CASE j >= i
    <3>1. /\ j - (i - 1) \in 1..(Len(waiters) - i)
          /\ (j - (i - 1)) + i = j + 1
          /\ ~(j <= i - 1) /\ ~(j < i)
      BY <2>2, <1>1
    <3>2. back[j - (i - 1)] = waiters[j + 1]
      BY <3>1, <1>3
    <3> QED
      BY <3>1, <3>2, <1>4, <1>5
  <2> QED
    BY <2>1, <2>2, <1>1
<1> QED
  BY <1>4, <1>5, <1>6

\* position finds the ticket of a queued caller.
LEMMA QueuedPosition ==
  ASSUME TypeOK, NEW t \in Tasks, Queued(t)
  PROVE  Position(t) \in DOMAIN waiters /\ waiters[Position(t)].task = t
BY DEF Queued, Position

\* The queue is a sequence of waiters.
LEMMA QueueFacts ==
  ASSUME TypeOK
  PROVE  /\ waiters \in Seq(Waiter)
         /\ Len(waiters) \in Nat
         /\ DOMAIN waiters = 1..Len(waiters)
         /\ \A i \in 1..Len(waiters) : waiters[i] \in Waiter
BY LenProperties, ElementOfSeq DEF TypeOK

\* A pass that has not reached the end of the queue looks at a waiter.
LEMMA CursorInQueue ==
  ASSUME TypeOK, cursor <= Len(waiters)
  PROVE  /\ cursor \in 1..Len(waiters)
         /\ waiters[cursor] \in Waiter
         /\ waiters[cursor].task \in Tasks
         /\ request[waiters[cursor].task] \in Amounts
<1>1. cursor \in Nat \ {0} /\ request \in [Tasks -> Amounts]
  BY DEF TypeOK
<1>2. cursor \in 1..Len(waiters) /\ waiters[cursor] \in Waiter
  BY <1>1, QueueFacts
<1>3. waiters[cursor].task \in Tasks
  BY <1>2 DEF Waiter
<1> QED
  BY <1>1, <1>2, <1>3

\* enqueue adds the ticket of a caller that has none.
LEMMA EnqueueTicket ==
  ASSUME TypeOK, OneTicketEach, NEW t \in Tasks, ~Queued(t),
         NEW w \in Waiter, w.task = t,
         waiters' = Append(waiters, w)
  PROVE  /\ waiters' \in Seq(Waiter)
         /\ OneTicketEach'
         /\ \A u \in Tasks : Queued(u)' <=> (Queued(u) \/ u = t)
<1> DEFINE n == Len(waiters)
<1>1. /\ n \in Nat
      /\ DOMAIN waiters = 1..n
  BY QueueFacts
<1>2. /\ waiters' \in Seq(Waiter)
      /\ Len(waiters') = n + 1
      /\ \A i \in 1..n : waiters'[i] = waiters[i]
      /\ waiters'[n + 1] = w
  BY QueueFacts, AppendProperties
<1>3. DOMAIN waiters' = 1..(n + 1)
  BY <1>2, LenProperties
<1> HIDE DEF n
<1>4. \A i \in 1..n : waiters[i].task # t
  BY <1>1 DEF Queued
<1>5. ASSUME NEW i \in 1..(n + 1), NEW j \in 1..(n + 1),
             waiters'[i].task = waiters'[j].task
      PROVE  i = j
  <2>1. i \in 1..n \/ i = n + 1
    BY <1>1
  <2>2. j \in 1..n \/ j = n + 1
    BY <1>1
  <2> QED
    BY <2>1, <2>2, <1>1, <1>2, <1>4, <1>5 DEF OneTicketEach
<1>6. ASSUME NEW u \in Tasks
      PROVE  Queued(u)' <=> (Queued(u) \/ u = t)
  <2>1. \A i \in 1..(n + 1) : i \in 1..n \/ i = n + 1
    BY <1>1
  <2>2. \A i \in 1..n : i \in 1..(n + 1)
    BY <1>1
  <2>3. n + 1 \in 1..(n + 1)
    BY <1>1
  <2> QED
    BY <2>1, <2>2, <2>3, <1>1, <1>2, <1>3 DEF Queued
<1> QED
  BY <1>2, <1>3, <1>5, <1>6 DEF OneTicketEach

\* Granting a waiter, or storing its waker, moves no ticket.
LEMMA UpdateTicket ==
  ASSUME TypeOK, OneTicketEach, NEW i \in DOMAIN waiters,
         NEW w \in Waiter, w.task = waiters[i].task,
         waiters' = [waiters EXCEPT ![i] = w]
  PROVE  /\ waiters' \in Seq(Waiter)
         /\ OneTicketEach'
         /\ \A u \in Tasks : Queued(u)' <=> Queued(u)
<1>1. /\ waiters' \in Seq(Waiter)
      /\ DOMAIN waiters' = DOMAIN waiters
      /\ \A j \in DOMAIN waiters : waiters'[j].task = waiters[j].task
  BY QueueFacts, ExceptSeq
<1> QED
  BY <1>1 DEF OneTicketEach, Queued

\* A caller that leaves the queue takes its own ticket and no other.
LEMMA RemoveTicket ==
  ASSUME TypeOK, OneTicketEach, NEW t \in Tasks, Queued(t),
         waiters' = Without(Position(t))
  PROVE  /\ waiters' \in Seq(Waiter)
         /\ OneTicketEach'
         /\ \A u \in Tasks : Queued(u)' <=> (Queued(u) /\ u # t)
         /\ \A j \in DOMAIN waiters' :
              \E i \in DOMAIN waiters : waiters'[j] = waiters[i] /\ waiters[i].task # t
<1> DEFINE n == Len(waiters)
           p == Position(t)
<1>1. /\ n \in Nat
      /\ DOMAIN waiters = 1..n
      /\ p \in 1..n
      /\ waiters[p].task = t
  BY QueueFacts, QueuedPosition
<1>2. /\ waiters' \in Seq(Waiter)
      /\ Len(waiters') = n - 1
      /\ \A j \in 1..(n - 1) :
           waiters'[j] = IF j < p THEN waiters[j] ELSE waiters[j + 1]
  BY <1>1, WithoutProperties, Zenon
<1>3. DOMAIN waiters' = 1..(n - 1)
  BY <1>2, LenProperties
<1> HIDE DEF n, p
<1> DEFINE old(j) == IF j < p THEN j ELSE j + 1
<1>4. \A j \in 1..(n - 1) : /\ old(j) \in 1..n
                             /\ old(j) # p
                             /\ waiters'[j] = waiters[old(j)]
  BY <1>1, <1>2
<1>5. \A j, k \in 1..(n - 1) : old(j) = old(k) => j = k
  BY <1>1
<1>6. \A i \in 1..n : i # p => \E j \in 1..(n - 1) : old(j) = i
  <2> SUFFICES ASSUME NEW i \in 1..n, i # p
               PROVE  \E j \in 1..(n - 1) : old(j) = i
    OBVIOUS
  <2>1. CASE i < p
    BY <2>1, <1>1
  <2>2. CASE i > p
    <3>1. i - 1 \in 1..(n - 1) /\ old(i - 1) = i
      BY <2>2, <1>1
    <3> QED
      BY <3>1
  <2> QED
    BY <2>1, <2>2, <1>1
<1> HIDE DEF old
<1>7. OneTicketEach'
  BY <1>1, <1>3, <1>4, <1>5 DEF OneTicketEach
<1>8. ASSUME NEW u \in Tasks
      PROVE  Queued(u)' <=> (Queued(u) /\ u # t)
  <2>1. ASSUME Queued(u)'
        PROVE  Queued(u) /\ u # t
    <3>1. PICK j \in 1..(n - 1) : waiters'[j].task = u
      BY <2>1, <1>1, <1>3 DEF Queued
    <3>2. old(j) \in 1..n /\ old(j) # p /\ waiters[old(j)].task = u
      BY <3>1, <1>3, <1>4
    <3> QED
      BY <3>2, <1>1 DEF Queued, OneTicketEach
  <2>2. ASSUME Queued(u), u # t
        PROVE  Queued(u)'
    <3>1. PICK i \in 1..n : waiters[i].task = u
      BY <2>2, <1>1 DEF Queued
    <3>2. PICK j \in 1..(n - 1) : old(j) = i
      BY <2>2, <3>1, <1>1, <1>6
    <3> QED
      BY <3>1, <3>2, <1>3, <1>4 DEF Queued
  <2> QED
    BY <2>1, <2>2
<1>9. \A j \in DOMAIN waiters' :
        \E i \in DOMAIN waiters : waiters'[j] = waiters[i] /\ waiters[i].task # t
  BY <1>1, <1>3, <1>4 DEF OneTicketEach
<1> QED
  BY <1>2, <1>7, <1>8, <1>9

-----------------------------------------------------------------------------
(* The inductive invariant *)

\* An empty pool satisfies the invariant.
LEMMA InitInductive == Init => Inductive
<1> SUFFICES ASSUME Init
             PROVE  Inductive
  OBVIOUS
<1>1. TypeOK
  BY ZeroType, EmptySeq, ConstantsAssumption DEF Init, TypeOK
<1>2. waiters = <<>> /\ Len(waiters) = 0 /\ DOMAIN waiters = 1..0
  BY EmptySeq, LenProperties DEF Init
<1>3. TicketIsQueued /\ OneTicketEach
  BY <1>2 DEF Init, TicketIsQueued, OneTicketEach, Queued
<1>4. HolderInPass /\ PassFits
  BY DEF Init, HolderInPass, PassFits
<1>5. NeverOversubscribed
  BY LimitType DEF Init, NeverOversubscribed, Zero, Amounts
<1> QED
  BY <1>1, <1>3, <1>4, <1>5 DEF Inductive

\* A pass that starts over a usage within the limits sees as free what is left.
LEMMA PassStarts ==
  ASSUME NEW t \in Tasks, NEW u \in Amounts, BeginPass(t, u), used' = u,
         \A a \in Axes : Metered(a) => u[a] <= Limit[a]
  PROVE  /\ mutex' \in Tasks
         /\ cursor' \in Nat \ {0}
         /\ free' \in Amounts
         /\ granted' \in Amounts
         /\ collected' \subseteq Tasks \X Wakers
         /\ PassFits'
         /\ NeverOversubscribed'
<1>1. \A a \in Axes : u[a] \in Nat /\ Limit[a] \in Nat /\ FreeOf(u)[a] \in Nat
  BY LimitType, FreeOfType DEF Amounts
<1>2. \A a \in Axes : granted'[a] = 0
  BY DEF BeginPass, Zero
<1>3. \A a \in Axes : Metered(a) => u[a] + FreeOf(u)[a] = Limit[a]
  BY <1>1, FreeOfType
<1>4. PassFits'
  BY <1>1, <1>2, <1>3 DEF BeginPass, PassFits, Metered
<1>5. NeverOversubscribed'
  BY <1>1, <1>2 DEF NeverOversubscribed, Metered
<1> QED
  BY <1>4, <1>5, FreeOfType, ZeroType DEF BeginPass

\* A summand is within the bound of a sum.
LEMMA SumBound == \A x, y, z \in Nat : x + y <= z => x <= z
  OBVIOUS

\* Less to add keeps a sum within its bound.
LEMMA SmallerSum == \A x, y, z, v, l \in Nat : x + y + z <= l /\ v <= z => x + y + v <= l
  OBVIOUS

\* So does moving an amount from one summand to another.
LEMMA MovedSum ==
  \A x, y, z, v, r, l \in Nat :
     x + y + z <= l /\ v + r = z => x + (y + r) + v <= l /\ x + (y + r) <= l
  OBVIOUS

\* A bound of a bound is a bound.
LEMMA BoundsCompose == \A x, y, z \in Nat : x <= y /\ y <= z => x <= z
  OBVIOUS

\* admit: enqueue and start a pass.
LEMMA AdmitInductive ==
  ASSUME Inductive, NEW t \in Tasks, NEW r \in Amounts, Admit(t, r)
  PROVE  Inductive'
<1> USE DEF Inductive
<1>1. waiters' \in Seq(Waiter) /\ OneTicketEach'
      /\ \A u \in Tasks : Queued(u)' <=> (Queued(u) \/ u = t)
  <2>1. ~Queued(t)
    BY DEF Admit, TicketIsQueued
  <2>2. [task |-> t, granted |-> FALSE, waker |-> None] \in Waiter
    BY DEF Waiter
  <2> QED
    BY <2>1, <2>2, EnqueueTicket DEF Admit
<1>2. /\ mutex' \in Tasks
      /\ cursor' \in Nat \ {0}
      /\ free' \in Amounts
      /\ granted' \in Amounts
      /\ collected' \subseteq Tasks \X Wakers
      /\ PassFits'
      /\ NeverOversubscribed'
  <2>1. \A a \in Axes : used[a] \in Nat /\ granted[a] \in Nat /\ Limit[a] \in Nat
    BY LimitType DEF TypeOK, Amounts
  <2>2. ASSUME NEW a \in Axes, Metered(a)
        PROVE  used[a] <= Limit[a]
    <3>1. used[a] + granted[a] <= Limit[a]
      BY <2>2, Zenon DEF NeverOversubscribed
    <3> QED
      BY <2>1, <3>1, SumBound, Zenon
  <2> QED
    BY <2>2, PassStarts DEF Admit, TypeOK
<1>3. TypeOK'
  BY <1>1, <1>2 DEF Admit, TypeOK
<1>4. TicketIsQueued'
  BY <1>1 DEF Admit, TypeOK, TicketIsQueued
<1>5. HolderInPass'
  BY DEF Admit, BeginPass, TypeOK, HolderInPass
<1> QED
  BY <1>1, <1>2, <1>3, <1>4, <1>5

\* release: return the capacity of a permit and start a pass.
LEMMA ReleaseInductive ==
  ASSUME Inductive, NEW t \in Tasks, Release(t)
  PROVE  Inductive'
<1> USE DEF Inductive
<1>1. \A a \in Axes : used[a] \in Nat /\ granted[a] \in Nat /\ Limit[a] \in Nat
  BY LimitType DEF TypeOK, Amounts
<1>2. used' \in Amounts /\ \A a \in Axes : used'[a] <= used[a]
  BY RemoveType DEF Release, TypeOK
<1>3. ASSUME NEW a \in Axes, Metered(a)
      PROVE  used'[a] <= Limit[a]
  <2>1. used[a] + granted[a] <= Limit[a]
    BY <1>3, Zenon DEF NeverOversubscribed
  <2>2. used[a] <= Limit[a]
    BY <1>1, <2>1, SumBound, Zenon
  <2>3. used'[a] \in Nat
    BY <1>2 DEF Amounts
  <2> QED
    BY <1>1, <1>2, <2>2, <2>3, BoundsCompose, Zenon
<1>4. /\ mutex' \in Tasks
      /\ cursor' \in Nat \ {0}
      /\ free' \in Amounts
      /\ granted' \in Amounts
      /\ collected' \subseteq Tasks \X Wakers
      /\ PassFits'
      /\ NeverOversubscribed'
  BY <1>2, <1>3, PassStarts DEF Release
<1>5. TypeOK'
  BY <1>2, <1>4, ZeroType DEF Release, TypeOK
<1>6. TicketIsQueued' /\ OneTicketEach'
  <2>1. waiters' = waiters
    BY DEF Release
  <2>2. OneTicketEach'
    BY <2>1, Zenon DEF OneTicketEach
  <2>3. \A u \in Tasks : Queued(u)' <=> Queued(u)
    BY <2>1, Zenon DEF Queued
  <2>4. pc[t] = "held" /\ \A u \in Tasks : pc'[u] = IF u = t THEN "freePass" ELSE pc[u]
    BY DEF Release, TypeOK
  <2>5. TicketIsQueued
    BY DEF Inductive
  <2> HIDE DEF Inductive
  <2> QED
    BY <2>2, <2>3, <2>4, <2>5 DEF TicketIsQueued
<1>7. HolderInPass'
  BY DEF Release, BeginPass, TypeOK, HolderInPass
<1> QED
  BY <1>4, <1>5, <1>6, <1>7

\* Ticket::drop: withdraw, refund and start a pass.
LEMMA WithdrawInductive ==
  ASSUME Inductive, NEW t \in Tasks, Withdraw(t)
  PROVE  Inductive'
<1> USE DEF Inductive
<1>1. \A a \in Axes : used[a] \in Nat /\ granted[a] \in Nat /\ Limit[a] \in Nat
  BY LimitType DEF TypeOK, Amounts
<1>2. used' \in Amounts /\ \A a \in Axes : used'[a] <= used[a]
  <2>1. used \in Amounts /\ request[t] \in Amounts
    BY DEF TypeOK
  <2>2. used' = Remove(used, request[t]) \/ used' = used
    BY DEF Withdraw, Refund
  <2>3. CASE used' = used
    BY <1>1, <2>1, <2>3
  <2>4. CASE used' = Remove(used, request[t])
    BY <2>1, <2>4, RemoveType
  <2> QED
    BY <2>2, <2>3, <2>4
<1>3. ASSUME NEW a \in Axes, Metered(a)
      PROVE  used'[a] <= Limit[a]
  <2>1. used[a] + granted[a] <= Limit[a]
    BY <1>3, Zenon DEF NeverOversubscribed
  <2>2. used[a] <= Limit[a]
    BY <1>1, <2>1, SumBound, Zenon
  <2>3. used'[a] \in Nat
    BY <1>2 DEF Amounts
  <2> QED
    BY <1>1, <1>2, <2>2, <2>3, BoundsCompose, Zenon
<1>4. /\ mutex' \in Tasks
      /\ cursor' \in Nat \ {0}
      /\ free' \in Amounts
      /\ granted' \in Amounts
      /\ collected' \subseteq Tasks \X Wakers
      /\ PassFits'
      /\ NeverOversubscribed'
  BY <1>2, <1>3, PassStarts DEF Withdraw
<1>5. /\ waiters' \in Seq(Waiter)
      /\ OneTicketEach'
      /\ \A u \in Tasks : Queued(u)' <=> (Queued(u) /\ u # t)
  <2>1. Queued(t)
    BY DEF Withdraw, TicketIsQueued
  <2> QED
    BY <2>1, RemoveTicket DEF Withdraw
<1>6. TypeOK'
  BY <1>2, <1>4, <1>5, ZeroType DEF Withdraw, TypeOK, NotPassed
<1>7. TicketIsQueued'
  BY <1>5 DEF Withdraw, TypeOK, TicketIsQueued
<1>8. HolderInPass'
  BY DEF Withdraw, BeginPass, TypeOK, HolderInPass
<1> QED
  BY <1>4, <1>5, <1>6, <1>7, <1>8

\* dispatch grants a waiter that fits what is free.
LEMMA GrantInductive ==
  ASSUME Inductive, NEW t \in Tasks, GrantWaiter(t)
  PROVE  Inductive'
<1> USE DEF Inductive
<1> DEFINE w == waiters[cursor]
           r == request[w.task]
<1>1. /\ cursor \in DOMAIN waiters
      /\ w \in Waiter
      /\ w.task \in Tasks
      /\ r \in Amounts
  <2>1. cursor <= Len(waiters)
    BY DEF GrantWaiter
  <2> QED
    BY <2>1, CursorInQueue, QueueFacts
<1>2. /\ waiters' \in Seq(Waiter)
      /\ OneTicketEach'
      /\ \A u \in Tasks : Queued(u)' <=> Queued(u)
  <2>1. [task |-> w.task, granted |-> TRUE, waker |-> None] \in Waiter
    BY <1>1 DEF Waiter
  <2> QED
    BY <1>1, <2>1, UpdateTicket, Zenon DEF GrantWaiter
<1>3. /\ Fits(free, r)
      /\ free' = Take(free, r)
      /\ granted' = Add(granted, r)
  BY DEF GrantWaiter
<1>4. collected' \subseteq Tasks \X Wakers
  <2>1. w.waker \in Wakers \cup {None}
    BY <1>1 DEF Waiter
  <2>2. collected \subseteq Tasks \X Wakers
    BY DEF TypeOK
  <2>3. collected' = IF w.waker = None THEN collected ELSE collected \cup {<<w.task, w.waker>>}
    BY DEF GrantWaiter
  <2> HIDE DEF w
  <2>4. CASE w.waker = None
    BY <2>2, <2>3, <2>4, Zenon
  <2>5. CASE w.waker # None
    <3>1. <<w.task, w.waker>> \in Tasks \X Wakers
      BY <1>1, <2>1, <2>5, Zenon
    <3> QED
      BY <2>2, <2>3, <2>5, <3>1, Zenon
  <2> QED
    BY <2>4, <2>5
<1>5. passed' \in [Tasks -> SUBSET Tasks]
  <2>1. \A j \in 1..Len(waiters) : waiters[j].task \in Tasks
    BY QueueFacts DEF Waiter
  <2>2. \A j \in 1..(cursor - 1) : j \in 1..Len(waiters)
    BY <1>1, QueueFacts
  <2>3. {waiters[j].task : j \in {k \in 1..(cursor - 1) : ~waiters[k].granted}} \subseteq Tasks
    BY <2>1, <2>2
  <2>4. NotPassed(w.task) \in [Tasks -> SUBSET Tasks]
    BY DEF TypeOK, NotPassed
  <2>5. passed' = [NotPassed(w.task) EXCEPT ![w.task] =
                     {waiters[j].task : j \in {k \in 1..(cursor - 1) : ~waiters[k].granted}}]
    BY DEF GrantWaiter
  <2> QED
    BY <1>1, <2>3, <2>4, <2>5
<1> HIDE DEF w, r
<1>6. TypeOK'
  <2>1. free' \in Amounts /\ granted' \in Amounts
    BY <1>1, <1>3, TakeType, AddType DEF TypeOK
  <2>2. cursor' \in Nat \ {0}
    <3>1. cursor \in Nat \ {0}
      BY DEF TypeOK
    <3>2. cursor' = cursor + 1
      BY DEF GrantWaiter
    <3> QED
      BY <3>1, <3>2
  <2>3. UNCHANGED <<used, mutex, pc, request, clones, wakers, polledBy, ready>>
    BY DEF GrantWaiter, taskVars
  <2> QED
    BY <1>2, <1>4, <1>5, <2>1, <2>2, <2>3, Zenon DEF TypeOK
<1>7. ASSUME NEW a \in Axes, Metered(a)
      PROVE  /\ used'[a] + granted'[a] + free'[a] <= Limit[a]
             /\ used'[a] + granted'[a] <= Limit[a]
  <2>1. /\ used[a] \in Nat
        /\ granted[a] \in Nat
        /\ free[a] \in Nat
        /\ r[a] \in Nat
        /\ Limit[a] \in Nat
        /\ free'[a] \in Nat
    BY <1>1, <1>6, LimitType DEF TypeOK, Amounts
  <2>2. /\ granted'[a] = granted[a] + r[a]
        /\ free'[a] + r[a] = free[a]
        /\ used' = used
    <3>1. free \in Amounts /\ used' = used
      BY DEF TypeOK, GrantWaiter
    <3>2. free'[a] + r[a] = free[a]
      BY <1>1, <1>3, <1>7, <3>1, TakeType
    <3>3. granted'[a] = granted[a] + r[a]
      BY <1>3 DEF Add
    <3> QED
      BY <3>1, <3>2, <3>3
  <2>3. used[a] + granted[a] + free[a] <= Limit[a]
    BY <1>7, ConstantsAssumption DEF PassFits, GrantWaiter
  <2>4. /\ used[a] + (granted[a] + r[a]) + free'[a] <= Limit[a]
        /\ used[a] + (granted[a] + r[a]) <= Limit[a]
    BY <2>1, <2>2, <2>3, MovedSum, Zenon
  <2> QED
    BY <2>2, <2>4, Zenon
<1>8. PassFits' /\ NeverOversubscribed'
  BY <1>7 DEF PassFits, NeverOversubscribed, Metered
<1>9. TicketIsQueued' /\ HolderInPass'
  BY <1>2 DEF GrantWaiter, TicketIsQueued, HolderInPass
<1> QED
  BY <1>2, <1>6, <1>8, <1>9

\* dispatch reserves for a waiter that does not fit.
LEMMA ReserveInductive ==
  ASSUME Inductive, NEW t \in Tasks, ReserveForWaiter(t)
  PROVE  Inductive'
<1> USE DEF Inductive
<1> DEFINE r == request[waiters[cursor].task]
<1>1. r \in Amounts
  <2>1. cursor <= Len(waiters)
    BY Zenon DEF ReserveForWaiter
  <2> QED
    BY <2>1, CursorInQueue
<1>2. free' = Take(free, r)
  BY Zenon DEF ReserveForWaiter
<1> HIDE DEF r
<1>3. free' \in Amounts /\ \A a \in Axes : free'[a] <= free[a]
  BY <1>1, <1>2, TakeType DEF TypeOK
<1>4. TypeOK'
  <2>1. cursor' \in Nat \ {0}
    <3>1. cursor \in Nat \ {0} /\ cursor' = cursor + 1
      BY DEF TypeOK, ReserveForWaiter
    <3> HIDE DEF Inductive
    <3> QED
      BY <3>1
  <2>2. UNCHANGED <<used, waiters, mutex, granted, collected, pc, passed,
                    request, clones, wakers, polledBy, ready>>
    BY DEF ReserveForWaiter, taskVars
  <2> QED
    BY <1>3, <2>1, <2>2, Zenon DEF TypeOK
<1>5. PassFits' /\ NeverOversubscribed'
  <2>1. \A a \in Axes : /\ used[a] \in Nat
                         /\ granted[a] \in Nat
                         /\ free[a] \in Nat
                         /\ free'[a] \in Nat
                         /\ Limit[a] \in Nat
    BY <1>3, LimitType DEF TypeOK, Amounts
  <2>2. UNCHANGED <<used, granted, mutex>>
    BY DEF ReserveForWaiter
  <2>3. NeverOversubscribed'
    BY <2>2 DEF NeverOversubscribed, Metered
  <2>4. ASSUME NEW a \in Axes, Metered(a), mutex # None
        PROVE  used[a] + granted[a] + free'[a] <= Limit[a]
    <3>1. used[a] + granted[a] + free[a] <= Limit[a]
      BY <2>4 DEF PassFits
    <3> QED
      BY <1>3, <2>1, <3>1, SmallerSum, Zenon
  <2> QED
    BY <2>2, <2>3, <2>4 DEF PassFits, Metered
<1>6. TicketIsQueued' /\ OneTicketEach' /\ HolderInPass'
  BY DEF ReserveForWaiter, TicketIsQueued, OneTicketEach, HolderInPass, Queued
<1> QED
  BY <1>4, <1>5, <1>6

\* dispatch charges what it granted.
LEMMA EndPassInductive ==
  ASSUME Inductive, NEW t \in Tasks, EndPass(t)
  PROVE  Inductive'
<1> USE DEF Inductive
<1>1. TypeOK'
  <2>1. used' \in Amounts /\ free' \in Amounts /\ granted' \in Amounts
    BY AddType, ZeroType DEF EndPass, TypeOK
  <2>2. mutex' \in Tasks \cup {None} /\ cursor' \in Nat \ {0} /\ collected' \subseteq Tasks \X Wakers
    BY DEF EndPass
  <2>3. wakers' \in [Tasks -> SUBSET (Tasks \X Wakers)]
    BY DEF EndPass, TypeOK
  <2>4. pc' \in [Tasks -> {"idle", "admitPass", "admitWake", "poll", "parked",
                          "held", "freePass", "freeWake"}]
    BY DEF EndPass, TypeOK
  <2>5. UNCHANGED <<waiters, request, clones, polledBy, ready, passed>>
    BY DEF EndPass
  <2> QED
    BY <2>1, <2>2, <2>3, <2>4, <2>5, Zenon DEF TypeOK
<1>2. PassFits' /\ HolderInPass'
  BY DEF EndPass, PassFits, HolderInPass
<1>3. NeverOversubscribed'
  <2>1. \A a \in Axes : used[a] \in Nat /\ granted[a] \in Nat /\ Limit[a] \in Nat
    BY LimitType DEF TypeOK, Amounts
  <2>2. \A a \in Axes : used'[a] = used[a] + granted[a] /\ granted'[a] = 0
    BY DEF EndPass, Add, Zero
  <2> QED
    BY <2>1, <2>2 DEF NeverOversubscribed, Metered
<1>4. pc[t] \in {"admitPass", "freePass"}
  BY ConstantsAssumption DEF EndPass, HolderInPass
<1>5. TicketIsQueued' /\ OneTicketEach'
  <2>1. \A u \in Tasks : Queued(u)' <=> Queued(u)
    BY DEF EndPass, Queued
  <2>2. OneTicketEach'
    BY DEF EndPass, OneTicketEach
  <2> QED
    BY <1>4, <2>1, <2>2 DEF EndPass, TypeOK, TicketIsQueued
<1> QED
  BY <1>1, <1>2, <1>3, <1>5

\* poll of a granted ticket.
LEMMA ObserveInductive ==
  ASSUME Inductive, NEW t \in Tasks, ObserveGrant(t)
  PROVE  Inductive'
<1> USE DEF Inductive
<1>1. /\ waiters' \in Seq(Waiter)
      /\ OneTicketEach'
      /\ \A u \in Tasks : Queued(u)' <=> (Queued(u) /\ u # t)
  <2>1. Queued(t)
    BY DEF ObserveGrant, TicketIsQueued
  <2> QED
    BY <2>1, RemoveTicket DEF ObserveGrant
<1>2. TypeOK'
  BY <1>1 DEF ObserveGrant, TypeOK, passVars
<1>3. TicketIsQueued'
  BY <1>1 DEF ObserveGrant, TypeOK, TicketIsQueued
<1>4. HolderInPass' /\ PassFits' /\ NeverOversubscribed'
  BY DEF ObserveGrant, passVars, HolderInPass, PassFits, NeverOversubscribed, Metered
<1> QED
  BY <1>1, <1>2, <1>3, <1>4

\* poll of an ungranted ticket.
LEMMA ParkInductive ==
  ASSUME Inductive, NEW t \in Tasks, NEW k \in Wakers, Park(t, k)
  PROVE  Inductive'
<1> USE DEF Inductive
<1> DEFINE p == Position(t)
           w == [waiters[p] EXCEPT !.waker = k]
<1>1. p \in DOMAIN waiters
  <2>1. Queued(t)
    BY DEF Park, TicketIsQueued
  <2> QED
    BY <2>1, QueuedPosition
<1>2. waiters[p] \in Waiter
  BY <1>1, QueueFacts
<1>3. w \in Waiter /\ w.task = waiters[p].task
  BY <1>2 DEF Waiter
<1>4. waiters' = [waiters EXCEPT ![p] = w]
  BY DEF Park, StoredWaker
<1> HIDE DEF w, p
<1>5. /\ waiters' \in Seq(Waiter)
      /\ OneTicketEach'
      /\ \A u \in Tasks : Queued(u)' <=> Queued(u)
  BY <1>1, <1>3, <1>4, UpdateTicket, Zenon
<1>6. TypeOK'
  BY <1>5 DEF Park, TypeOK, passVars
<1>7. TicketIsQueued'
  BY <1>5 DEF Park, TypeOK, TicketIsQueued
<1>8. HolderInPass' /\ PassFits' /\ NeverOversubscribed'
  BY DEF Park, passVars, HolderInPass, PassFits, NeverOversubscribed, Metered
<1> QED
  BY <1>5, <1>6, <1>7, <1>8

\* Steps that leave the queue and the accounting alone.
LEMMA LocalInductive ==
  ASSUME Inductive, NEW t \in Tasks,
         \/ SkipGranted(t) \/ CallWaker(t) \/ DoneWaking(t) \/ Resume(t)
         \/ PollUnwoken(t) \/ ClonePermit(t) \/ DropClone(t)
  PROVE  Inductive'
<1> USE DEF Inductive
<1>1. UNCHANGED <<used, waiters, mutex, free, granted>>
  BY Zenon DEF SkipGranted, CallWaker, DoneWaking, Resume, PollUnwoken, ClonePermit, DropClone,
         taskVars, passVars
<1>2. PassFits' /\ NeverOversubscribed'
  BY <1>1 DEF PassFits, NeverOversubscribed, Metered
<1>3. OneTicketEach' /\ \A u \in Tasks : Queued(u)' <=> Queued(u)
  BY <1>1 DEF OneTicketEach, Queued
<1>4. SUFFICES TypeOK' /\ TicketIsQueued' /\ HolderInPass'
  BY <1>2, <1>3
<1>5. ASSUME UNCHANGED pc
      PROVE  TicketIsQueued' /\ HolderInPass'
  BY <1>1, <1>3, <1>5 DEF TicketIsQueued, HolderInPass
<1>6. CASE SkipGranted(t)
  <2>1. cursor' \in Nat \ {0}
    <3>1. cursor \in Nat \ {0}
      BY DEF TypeOK
    <3>2. cursor' = cursor + 1
      BY <1>6 DEF SkipGranted
    <3> QED
      BY <3>1, <3>2
  <2>2. UNCHANGED <<used, waiters, mutex, free, granted, collected, pc, passed,
                    request, clones, wakers, polledBy, ready>>
    BY <1>6 DEF SkipGranted, taskVars
  <2>3. TypeOK'
    BY <2>1, <2>2, Zenon DEF TypeOK
  <2> QED
    BY <1>5, <2>2, <2>3
<1>7. CASE CallWaker(t)
  <2>1. PICK k \in wakers[t] :
          /\ wakers' = [wakers EXCEPT ![t] = @ \ {k}]
          /\ ready' = [ready EXCEPT ![k[1]] =
                 @ \/ (pc[k[1]] \in {"poll", "parked"} /\ polledBy[k[1]] = k[2])]
    BY <1>7, Zenon DEF CallWaker
  <2>2. wakers' \in [Tasks -> SUBSET (Tasks \X Wakers)]
    BY <2>1 DEF TypeOK
  <2>3. ready' \in [Tasks -> BOOLEAN]
    BY <2>1, Zenon DEF TypeOK
  <2> QED
    BY <1>5, <1>7, <2>2, <2>3 DEF CallWaker, TypeOK, passVars
<1>8. CASE DoneWaking(t)
  <2>1. TypeOK'
    BY <1>8 DEF DoneWaking, TypeOK, taskVars, passVars
  <2>2. TicketIsQueued'
    BY <1>3, <1>8 DEF DoneWaking, TypeOK, TicketIsQueued
  <2>3. HolderInPass'
    BY <1>1, <1>8 DEF DoneWaking, TypeOK, HolderInPass
  <2> QED
    BY <2>1, <2>2, <2>3
<1>9. CASE Resume(t) \/ PollUnwoken(t)
  <2>1. pc[t] = "parked" /\ pc' = [pc EXCEPT ![t] = "poll"]
    BY <1>9 DEF Resume, PollUnwoken
  <2>2. TypeOK'
    BY <1>9, <2>1, Zenon DEF Resume, PollUnwoken, TypeOK, taskVars, passVars
  <2>3. TicketIsQueued'
    BY <1>3, <2>1 DEF TypeOK, TicketIsQueued
  <2>4. HolderInPass'
    BY <1>1, <2>1 DEF TypeOK, HolderInPass
  <2> QED
    BY <2>2, <2>3, <2>4
<1>10. CASE ClonePermit(t) \/ DropClone(t)
  <2>1. UNCHANGED pc /\ clones' \in [Tasks -> Nat]
    <3>1. clones \in [Tasks -> Nat] /\ clones[t] \in Nat
      BY DEF TypeOK
    <3>2. CASE ClonePermit(t)
      <4>1. UNCHANGED pc /\ clones' = [clones EXCEPT ![t] = @ + 1]
        BY <3>2 DEF ClonePermit
      <4>2. clones[t] + 1 \in Nat
        BY <3>1
      <4> QED
        BY <3>1, <4>1, <4>2, Zenon
    <3>3. CASE DropClone(t)
      <4>1. UNCHANGED pc /\ clones[t] > 1 /\ clones' = [clones EXCEPT ![t] = @ - 1]
        BY <3>3 DEF DropClone
      <4>2. clones[t] - 1 \in Nat
        BY <3>1, <4>1
      <4> QED
        BY <3>1, <4>1, <4>2, Zenon
    <3> QED
      BY <1>10, <3>2, <3>3
  <2>2. TypeOK'
    BY <1>10, <2>1 DEF ClonePermit, DropClone, TypeOK, passVars
  <2> QED
    BY <1>5, <2>1, <2>2
<1> QED
  BY <1>6, <1>7, <1>8, <1>9, <1>10

\* Every step preserves the invariant.
LEMMA NextInductive == Inductive /\ [Next]_vars => Inductive'
<1> SUFFICES ASSUME Inductive, [Next]_vars
             PROVE  Inductive'
  OBVIOUS
<1>1. CASE UNCHANGED vars
  BY <1>1 DEF Inductive, TypeOK, TicketIsQueued, OneTicketEach, HolderInPass, PassFits,
              NeverOversubscribed, Queued, Metered, vars
<1>2. ASSUME NEW t \in Tasks, Acquire(t)
      PROVE  Inductive'
  <2>1. PICK r \in Requests : acquire(t, r) \/ acquire_required(t, r) \/ acquire_client(t, r)
    BY <1>2 DEF Acquire
  <2>2. r \in Amounts
    BY ConstantsAssumption
  <2> QED
    BY <2>1, <2>2, AdmitInductive, BoundedType, EstimatedType, ClientType
    DEF acquire, acquire_required, acquire_client
<1>3. ASSUME NEW t \in Tasks, Dispatch(t)
      PROVE  Inductive'
  BY <1>3, LocalInductive, GrantInductive, ReserveInductive, EndPassInductive DEF Dispatch
<1>4. ASSUME NEW t \in Tasks, Poll(t)
      PROVE  Inductive'
  BY <1>4, ObserveInductive, ParkInductive DEF Poll
<1> QED
  BY <1>1, <1>2, <1>3, <1>4, LocalInductive, WithdrawInductive, ReleaseInductive DEF Next

-----------------------------------------------------------------------------
(* Theorems *)

\* The inductive invariant holds in every reachable state of the pool.
THEOREM SpecInductive == Spec => []Inductive
BY InitInductive, NextInductive, PTL DEF Spec

\* Every state of the pool is well formed, whatever callers ask and withdraw.
THEOREM PoolTyped == Spec => []TypeOK
<1>1. Inductive => TypeOK
  BY DEF Inductive
<1> QED
  BY <1>1, SpecInductive, PTL

\* A caller that polls or drops its ticket finds it in the queue: poll never
\* reaches its unreachable!().
THEOREM PoolTickets == Spec => []TicketIsQueued
<1>1. Inductive => TicketIsQueued
  BY DEF Inductive
<1> QED
  BY <1>1, SpecInductive, PTL

\* For any limits and requests, what dispatch grants never exceeds a metered
\* axis of the pool, also while a pass is under way.
THEOREM PoolNeverOversubscribed == Spec => []NeverOversubscribed
<1>1. Inductive => NeverOversubscribed
  BY DEF Inductive
<1> QED
  BY <1>1, SpecInductive, PTL

-----------------------------------------------------------------------------
(* Wake-ups *)


\* What a queue is made of, whatever the order.
Entries == {waiters[i] : i \in DOMAIN waiters}

\* The properties of wake-ups, waiter by waiter.
Woken(e) ==
  e.granted /\ pc[e.task] = "parked" =>
    \/ ready[e.task]
    \/ <<e.task, polledBy[e.task]>> \in collected
    \/ \E o \in Tasks : <<e.task, polledBy[e.task]>> \in wakers[o]

Armed(e) ==
  ~e.granted /\ pc[e.task] = "parked" =>
    e.waker = polledBy[e.task] /\ polledBy[e.task] # None

\* The invariant says of every waiter that it is armed or woken.
LEMMA EachWaiter ==
  ASSUME TypeOK, WakeInv
  PROVE  \A e \in Entries : e.task \in Tasks /\ Woken(e) /\ Armed(e)
<1>1. \A i \in DOMAIN waiters : waiters[i].task \in Tasks
  BY QueueFacts DEF Waiter
<1>2. \A e \in Entries : Woken(e)
  BY <1>1 DEF WakeInv, NoLostWakeup, Granted, Entries, Woken
<1>3. \A e \in Entries : Armed(e)
  BY DEF WakeInv, WaitersHaveWakers, Entries, Armed
<1> QED
  BY <1>1, <1>2, <1>3 DEF Entries

\* And it follows from that.
LEMMA EveryWaiter ==
  ASSUME WakersAreFresh', \A e \in Entries' : Woken(e)' /\ Armed(e)'
  PROVE  WakeInv'
<1>1. \A i \in DOMAIN waiters' : waiters'[i] \in Entries'
  BY DEF Entries
<1>2. NoLostWakeup'
  <2> SUFFICES ASSUME NEW t \in Tasks, pc'[t] = "parked", Granted(t)'
               PROVE  \/ ready'[t]
                      \/ <<t, polledBy'[t]>> \in collected'
                      \/ \E o \in Tasks : <<t, polledBy'[t]>> \in wakers'[o]
    BY DEF NoLostWakeup
  <2>1. PICK e \in Entries' : e.task = t /\ e.granted
    BY <1>1 DEF Granted
  <2>2. Woken(e)'
    OBVIOUS
  <2> QED
    BY <2>1, <2>2 DEF Woken
<1>3. WaitersHaveWakers'
  BY <1>1 DEF WaitersHaveWakers, Armed
<1> QED
  BY <1>2, <1>3 DEF WakeInv

\* A waiter that is enqueued joins the others.
LEMMA AddedEntries ==
  ASSUME TypeOK, NEW w, waiters' = Append(waiters, w)
  PROVE  \A e \in Entries' : e \in Entries \/ e = w
<1>1. waiters \in Seq(Waiter) /\ Len(waiters) \in Nat /\ DOMAIN waiters = 1..Len(waiters)
  BY QueueFacts
<1>2. /\ DOMAIN waiters' = 1..(Len(waiters) + 1)
      /\ \A i \in 1..Len(waiters) : waiters'[i] = waiters[i]
      /\ waiters'[Len(waiters) + 1] = w
  BY <1>1
<1>3. \A i \in 1..(Len(waiters) + 1) : i \in 1..Len(waiters) \/ i = Len(waiters) + 1
  BY <1>1
<1> QED
  BY <1>1, <1>2, <1>3 DEF Entries

\* A caller that leaves takes its own waiter and no other.
LEMMA RemovedEntries ==
  ASSUME Inductive, NEW t \in Tasks, Queued(t), waiters' = Without(Position(t))
  PROVE  \A e \in Entries' : e \in Entries /\ e.task # t
<1>1. \A j \in DOMAIN waiters' :
        \E i \in DOMAIN waiters : waiters'[j] = waiters[i] /\ waiters[i].task # t
  BY RemoveTicket DEF Inductive
<1> QED
  BY <1>1 DEF Entries

\* A waiter that changes replaces itself.
LEMMA UpdatedEntries ==
  ASSUME TypeOK, NEW i \in DOMAIN waiters, NEW w, waiters' = [waiters EXCEPT ![i] = w]
  PROVE  \A e \in Entries' : e \in Entries \/ e = w
<1>1. DOMAIN waiters' = DOMAIN waiters
  OBVIOUS
<1>2. \A j \in DOMAIN waiters : waiters'[j] = IF j = i THEN w ELSE waiters[j]
  OBVIOUS
<1> QED
  BY <1>1, <1>2 DEF Entries

\* Waiters belong to tasks.
LEMMA EntriesType ==
  ASSUME TypeOK'
  PROVE  \A e \in Entries' : e.task \in Tasks
<1>1. waiters' \in Seq(Waiter)
  BY DEF TypeOK
<1>2. \A i \in DOMAIN waiters' : waiters'[i] \in Waiter
  BY <1>1, LenProperties, ElementOfSeq
<1> QED
  BY <1>2 DEF Entries, Waiter

\* A step of a task that is not parked after it and that leaves the others
\* and the wakers to call as they are.
LEMMA QuietStep ==
  ASSUME Inductive, Inductive', WakeInv, WakersAreFresh', NEW t \in Tasks,
         pc'[t] # "parked",
         \A e \in Entries' : e \in Entries \/ e.task = t,
         \A u \in Tasks \ {t} : /\ pc'[u] = pc[u] /\ polledBy'[u] = polledBy[u]
                                /\ ready'[u] = ready[u],
         collected \subseteq collected',
         \A o \in Tasks : wakers[o] \subseteq wakers'[o]
  PROVE  WakeInv'
<1>1. TypeOK /\ TypeOK'
  BY DEF Inductive
<1>2. \A e \in Entries : e.task \in Tasks /\ Woken(e) /\ Armed(e)
  BY <1>1, EachWaiter
<1>3. ASSUME NEW e \in Entries'
      PROVE  Woken(e)' /\ Armed(e)'
  <2>1. CASE e.task = t
    BY <2>1, Zenon DEF Woken, Armed
  <2>2. CASE e.task # t
    <3>1. e \in Entries /\ e.task \in Tasks \ {t}
      BY <1>1, <1>3, <2>2, EntriesType
    <3>2. Woken(e) /\ Armed(e)
      BY <1>2, <3>1
    <3> QED
      BY <3>1, <3>2 DEF Woken, Armed
  <2> QED
    BY <2>1, <2>2
<1> QED
  BY <1>3, EveryWaiter

\* What the steps below use of the two invariants.
LEMMA WakeFacts ==
  ASSUME Inductive, WakeInv
  PROVE  /\ TypeOK
         /\ pc \in [Tasks -> {"idle", "admitPass", "admitWake", "poll", "parked",
                              "held", "freePass", "freeWake"}]
         /\ wakers \in [Tasks -> SUBSET (Tasks \X Wakers)]
         /\ polledBy \in [Tasks -> Wakers \cup {None}]
         /\ ready \in [Tasks -> BOOLEAN]
         /\ mutex = None => collected = {}
         /\ \A o \in Tasks : pc[o] \notin {"admitWake", "freeWake"} => wakers[o] = {}
         /\ mutex # None => pc[mutex] \in {"admitPass", "freePass"}
         /\ \A o \in Tasks : pc[o] \in {"poll", "parked"} => Queued(o)
BY DEF Inductive, TypeOK, WakeInv, WakersAreFresh, HolderInPass, TicketIsQueued

\* admit adds a waiter whose caller is not parked.
LEMMA AdmitWakes ==
  ASSUME Inductive, Inductive', WakeInv, NEW t \in Tasks, NEW r, Admit(t, r)
  PROVE  WakeInv'
<1> USE WakeFacts
<1>1. \A e \in Entries' : e \in Entries \/ e.task = t
  <2>1. \A e \in Entries' : e \in Entries \/ e = [task |-> t, granted |-> FALSE, waker |-> None]
    BY AddedEntries, Zenon DEF Admit
  <2> QED
    BY <2>1
<1>2. WakersAreFresh'
  BY ConstantsAssumption, Zenon DEF Admit, BeginPass, WakersAreFresh
<1>3. pc'[t] # "parked"
  BY DEF Admit
<1>4. \A u \in Tasks \ {t} : pc'[u] = pc[u] /\ polledBy'[u] = polledBy[u] /\ ready'[u] = ready[u]
  BY DEF Admit
<1>5. collected \subseteq collected' /\ \A o \in Tasks : wakers[o] \subseteq wakers'[o]
  BY DEF Admit
<1> QED
  BY <1>1, <1>2, <1>3, <1>4, <1>5, QuietStep

\* A pass that skips a waiter or reserves for it changes no waiter.
LEMMA LookWakes ==
  ASSUME Inductive, Inductive', WakeInv, NEW t \in Tasks,
         SkipGranted(t) \/ ReserveForWaiter(t)
  PROVE  WakeInv'
<1> USE WakeFacts
<1>1. Entries' = Entries
  <2>1. UNCHANGED waiters
    BY Zenon DEF SkipGranted, ReserveForWaiter
  <2> QED
    BY <2>1, Zenon DEF Entries
<1>2. WakersAreFresh'
  BY ConstantsAssumption, Zenon DEF SkipGranted, ReserveForWaiter, WakersAreFresh, taskVars
<1>3. pc'[t] # "parked"
  BY ConstantsAssumption, Zenon DEF SkipGranted, ReserveForWaiter
<1>4. \A u \in Tasks \ {t} : pc'[u] = pc[u] /\ polledBy'[u] = polledBy[u] /\ ready'[u] = ready[u]
  BY Zenon DEF SkipGranted, ReserveForWaiter, taskVars
<1>5. collected \subseteq collected' /\ \A o \in Tasks : wakers[o] \subseteq wakers'[o]
  BY Zenon DEF SkipGranted, ReserveForWaiter, taskVars
<1> QED
  BY <1>1, <1>2, <1>3, <1>4, <1>5, QuietStep, Zenon

\* A waiter that is granted while it is parked has its waker collected.
LEMMA GrantWakes ==
  ASSUME Inductive, Inductive', WakeInv, NEW t \in Tasks, GrantWaiter(t)
  PROVE  WakeInv'
<1> USE WakeFacts
<1> DEFINE w == waiters[cursor]
           new == [task |-> w.task, granted |-> TRUE, waker |-> None]
<1>1. cursor \in DOMAIN waiters /\ w \in Entries
  BY CursorInQueue, QueueFacts, Zenon DEF GrantWaiter, Entries
<1>2. /\ waiters' = [waiters EXCEPT ![cursor] = new]
      /\ collected' = (IF w.waker = None THEN collected
                       ELSE collected \cup {<<w.task, w.waker>>})
      /\ ~w.granted
      /\ UNCHANGED <<pc, wakers, polledBy, ready, mutex>>
  BY Zenon DEF GrantWaiter, taskVars
<1>3. mutex # None
  BY ConstantsAssumption, Zenon DEF GrantWaiter
<1>4. \A e \in Entries' : e \in Entries \/ e = new
  BY <1>1, <1>2, UpdatedEntries, Zenon
<1>5. \A e \in Entries : e.task \in Tasks /\ Woken(e) /\ Armed(e)
  BY EachWaiter, Zenon
<1> HIDE DEF w
<1>6. WakersAreFresh'
  BY <1>2, <1>3, Zenon DEF WakersAreFresh
<1>7. collected \subseteq collected'
  BY <1>2, Zenon
<1>8. ASSUME NEW e \in Entries'
      PROVE  Woken(e)' /\ Armed(e)'
  <2>1. CASE e \in Entries
    BY <1>2, <1>5, <1>7, <2>1, Zenon DEF Woken, Armed
  <2>2. CASE e = new
    <3>1. pc[w.task] = "parked" => w.waker = polledBy[w.task] /\ w.waker # None
      BY <1>1, <1>2, <1>5 DEF Armed
    <3>2. pc[w.task] = "parked" => <<w.task, polledBy[w.task]>> \in collected'
      BY <1>2, <3>1, Zenon
    <3>3. e.task = w.task /\ e.granted
      BY <2>2
    <3> QED
      BY <1>2, <3>2, <3>3, Zenon DEF Woken, Armed
  <2> QED
    BY <1>4, <2>1, <2>2
<1> QED
  BY <1>6, <1>8, EveryWaiter

\* The end of a pass hands the collected wakers to its task.
LEMMA EndPassWakes ==
  ASSUME Inductive, Inductive', WakeInv, NEW t \in Tasks, EndPass(t)
  PROVE  WakeInv'
<1> USE WakeFacts
<1>1. Entries' = Entries
  <2>1. UNCHANGED waiters
    BY DEF EndPass
  <2> QED
    BY <2>1, Zenon DEF Entries
<1>2. mutex = t /\ pc[t] \in {"admitPass", "freePass"} /\ wakers[t] = {}
  BY ConstantsAssumption, Zenon DEF EndPass
<1>3. /\ wakers' = [wakers EXCEPT ![t] = collected] /\ collected' = {}
      /\ pc' = [pc EXCEPT ![t] = IF @ = "admitPass" THEN "admitWake" ELSE "freeWake"]
      /\ UNCHANGED <<polledBy, ready>>
  BY DEF EndPass
<1>4. WakersAreFresh'
  BY <1>2, <1>3 DEF WakersAreFresh
<1>5. \A e \in Entries : e.task \in Tasks /\ Woken(e) /\ Armed(e)
  BY EachWaiter
<1>6. pc'[t] # "parked" /\ \A u \in Tasks \ {t} : pc'[u] = pc[u]
  BY <1>3
<1>7. collected \subseteq wakers'[t] /\ \A o \in Tasks : wakers[o] \subseteq wakers'[o]
  BY <1>2, <1>3
<1>8. ASSUME NEW e \in Entries'
      PROVE  Woken(e)' /\ Armed(e)'
  <2>1. e.task \in Tasks /\ Woken(e) /\ Armed(e)
    BY <1>1, <1>5, Zenon
  <2>2. pc'[e.task] = "parked" => pc[e.task] = "parked"
    BY <1>6, <2>1, Zenon
  <2> QED
    BY <1>3, <1>7, <2>1, <2>2, Zenon DEF Woken, Armed
<1> QED
  BY <1>4, <1>8, EveryWaiter

\* A waker that is called makes the caller it belongs to ready, unless that
\* caller was polled with another one since.
LEMMA CallWakes ==
  ASSUME Inductive, Inductive', WakeInv, NEW t \in Tasks, CallWaker(t)
  PROVE  WakeInv'
<1> USE WakeFacts
<1>1. Entries' = Entries
  <2>1. UNCHANGED waiters
    BY DEF CallWaker
  <2> QED
    BY <2>1, Zenon DEF Entries
<1>2. PICK k \in wakers[t] :
        /\ wakers' = [wakers EXCEPT ![t] = @ \ {k}]
        /\ ready' = [ready EXCEPT ![k[1]] =
             @ \/ (pc[k[1]] \in {"poll", "parked"} /\ polledBy[k[1]] = k[2])]
  BY Zenon DEF CallWaker
<1>3. k \in Tasks \X Wakers
  OBVIOUS
<1>4. UNCHANGED <<pc, polledBy, collected, mutex>>
  BY DEF CallWaker, passVars
<1>5. WakersAreFresh'
  BY <1>2, <1>4 DEF WakersAreFresh
<1>6. \A e \in Entries : e.task \in Tasks /\ Woken(e) /\ Armed(e)
  BY EachWaiter, Zenon
<1>7. \A u \in Tasks : /\ ready[u] => ready'[u]
                       /\ pc[u] = "parked" /\ k = <<u, polledBy[u]>> => ready'[u]
  <2> TAKE u \in Tasks
  <2>1. CASE u = k[1]
    <3>1. ready'[u] = (ready[u] \/ (pc[u] \in {"poll", "parked"} /\ polledBy[u] = k[2]))
      BY <1>2, <2>1, Zenon
    <3>2. k = <<u, polledBy[u]>> => polledBy[u] = k[2]
      OBVIOUS
    <3>3. pc[u] = "parked" => pc[u] \in {"poll", "parked"}
      OBVIOUS
    <3> QED
      BY <3>1, <3>2, <3>3, Zenon
  <2>2. CASE u # k[1]
    BY <1>2, <2>2
  <2> QED
    BY <2>1, <2>2, Zenon
<1>8. \A o \in Tasks : \A x \in wakers[o] : x \in wakers'[o] \/ x = k
  BY <1>2
<1>9. ASSUME NEW e \in Entries'
      PROVE  Woken(e)' /\ Armed(e)'
  <2>1. e.task \in Tasks /\ Woken(e) /\ Armed(e)
    BY <1>1, <1>6, Zenon
  <2> QED
    BY <1>4, <1>7, <1>8, <2>1, Zenon DEF Woken, Armed
<1> QED
  BY <1>5, <1>9, EveryWaiter

\* A caller that has called its wakers has none left.
LEMMA DoneWakingWakes ==
  ASSUME Inductive, Inductive', WakeInv, NEW t \in Tasks, DoneWaking(t)
  PROVE  WakeInv'
<1> USE WakeFacts
<1>1. Entries' = Entries
  <2>1. UNCHANGED waiters
    BY DEF DoneWaking
  <2> QED
    BY <2>1, Zenon DEF Entries
<1>2. WakersAreFresh'
  BY ConstantsAssumption, Zenon DEF DoneWaking, WakersAreFresh, taskVars, passVars
<1>3. pc'[t] # "parked"
  BY DEF DoneWaking
<1>4. \A u \in Tasks \ {t} : pc'[u] = pc[u] /\ polledBy'[u] = polledBy[u] /\ ready'[u] = ready[u]
  BY DEF DoneWaking, taskVars, passVars
<1>5. collected \subseteq collected' /\ \A o \in Tasks : wakers[o] \subseteq wakers'[o]
  BY DEF DoneWaking, taskVars, passVars
<1> QED
  BY <1>1, <1>2, <1>3, <1>4, <1>5, QuietStep, Zenon

\* A caller that observes its grant leaves the queue.
LEMMA ObserveWakes ==
  ASSUME Inductive, Inductive', WakeInv, NEW t \in Tasks, ObserveGrant(t)
  PROVE  WakeInv'
<1> USE WakeFacts
<1>1. \A e \in Entries' : e \in Entries \/ e.task = t
  <2>1. Queued(t) /\ waiters' = Without(Position(t))
    BY DEF ObserveGrant
  <2> QED
    BY <2>1, RemovedEntries, Zenon
<1>2. WakersAreFresh'
  BY ConstantsAssumption DEF ObserveGrant, WakersAreFresh, passVars
<1>3. pc'[t] # "parked"
  BY DEF ObserveGrant
<1>4. \A u \in Tasks \ {t} : pc'[u] = pc[u] /\ polledBy'[u] = polledBy[u] /\ ready'[u] = ready[u]
  BY DEF ObserveGrant, passVars
<1>5. collected \subseteq collected' /\ \A o \in Tasks : wakers[o] \subseteq wakers'[o]
  BY DEF ObserveGrant, passVars
<1> QED
  BY <1>1, <1>2, <1>3, <1>4, <1>5, QuietStep, Zenon

\* A caller that parks leaves the waker it was polled with.
LEMMA ParkWakes ==
  ASSUME Inductive, Inductive', WakeInv, NEW t \in Tasks, NEW k \in Wakers, Park(t, k)
  PROVE  WakeInv'
<1> USE WakeFacts
<1> DEFINE p == Position(t)
           new == [waiters[p] EXCEPT !.waker = k]
<1>1. p \in DOMAIN waiters /\ waiters[p].task = t
  BY QueuedPosition DEF Park
<1>2. waiters[p] \in Waiter /\ ~waiters[p].granted
  BY <1>1, QueueFacts DEF Park, Granted
<1>3. waiters' = [waiters EXCEPT ![p] = new]
  BY DEF Park, StoredWaker
<1>4. new.task = t /\ ~new.granted /\ new.waker = k
  BY <1>1, <1>2 DEF Waiter
<1> HIDE DEF p, new
<1>5. \A e \in Entries' : e \in Entries \/ e = new
  BY <1>1, <1>3, UpdatedEntries, Zenon
<1>6. \A i \in DOMAIN waiters' : waiters'[i].task = t => waiters'[i] = new
  <2>1. OneTicketEach
    BY DEF Inductive
  <2>2. DOMAIN waiters' = DOMAIN waiters
    BY <1>3
  <2>3. \A i \in DOMAIN waiters : waiters'[i] = IF i = p THEN new ELSE waiters[i]
    BY <1>3
  <2> QED
    BY <1>1, <2>1, <2>2, <2>3, Zenon DEF OneTicketEach
<1>7. /\ polledBy' = [polledBy EXCEPT ![t] = k] /\ pc' = [pc EXCEPT ![t] = "parked"]
      /\ UNCHANGED <<wakers, ready, mutex, collected>> /\ pc[t] = "poll"
  BY DEF Park, passVars
<1>8. WakersAreFresh'
  BY <1>7 DEF WakersAreFresh
<1>9. \A e \in Entries : e.task \in Tasks /\ Woken(e) /\ Armed(e)
  BY EachWaiter, Zenon
<1>10. ASSUME NEW e \in Entries'
       PROVE  Woken(e)' /\ Armed(e)'
  <2>1. CASE e.task = t
    <3>1. e = new
      BY <1>6, <1>10, <2>1, Zenon DEF Entries
    <3>2. polledBy'[t] = k /\ k # None
      BY <1>7, ConstantsAssumption
    <3> QED
      BY <1>4, <3>1, <3>2, Zenon DEF Woken, Armed
  <2>2. CASE e.task # t
    <3>1. e \in Entries
      BY <1>4, <1>5, <1>10, <2>2, Zenon
    <3>2. e.task \in Tasks /\ Woken(e) /\ Armed(e)
      BY <1>9, <3>1, Zenon
    <3>3. pc'[e.task] = pc[e.task] /\ polledBy'[e.task] = polledBy[e.task]
      BY <1>7, <2>2, <3>2, Zenon
    <3> QED
      BY <1>7, <3>2, <3>3, Zenon DEF Woken, Armed
  <2> QED
    BY <2>1, <2>2, Zenon
<1> QED
  BY <1>8, <1>10, EveryWaiter

\* A caller that is polled again is no longer parked.
LEMMA RepollWakes ==
  ASSUME Inductive, Inductive', WakeInv, NEW t \in Tasks, Resume(t) \/ PollUnwoken(t)
  PROVE  WakeInv'
<1> USE WakeFacts
<1>1. Entries' = Entries
  <2>1. UNCHANGED waiters
    BY DEF Resume, PollUnwoken
  <2> QED
    BY <2>1, Zenon DEF Entries
<1>2. WakersAreFresh'
  BY ConstantsAssumption, Zenon DEF Resume, PollUnwoken, WakersAreFresh, taskVars, passVars
<1>3. pc'[t] # "parked"
  BY DEF Resume, PollUnwoken
<1>4. \A u \in Tasks \ {t} : pc'[u] = pc[u] /\ polledBy'[u] = polledBy[u] /\ ready'[u] = ready[u]
  BY DEF Resume, PollUnwoken, taskVars, passVars
<1>5. collected \subseteq collected' /\ \A o \in Tasks : wakers[o] \subseteq wakers'[o]
  BY DEF Resume, PollUnwoken, taskVars, passVars
<1> QED
  BY <1>1, <1>2, <1>3, <1>4, <1>5, QuietStep, Zenon

\* A caller that withdraws leaves the queue and starts a pass with no wakers.
LEMMA WithdrawWakes ==
  ASSUME Inductive, Inductive', WakeInv, NEW t \in Tasks, Withdraw(t)
  PROVE  WakeInv'
<1> USE WakeFacts
<1>1. \A e \in Entries' : e \in Entries \/ e.task = t
  <2>1. Queued(t) /\ waiters' = Without(Position(t))
    BY DEF Withdraw
  <2> QED
    BY <2>1, RemovedEntries, Zenon
<1>2. WakersAreFresh'
  BY ConstantsAssumption DEF Withdraw, WakersAreFresh, BeginPass
<1>3. pc'[t] # "parked"
  BY DEF Withdraw
<1>4. \A u \in Tasks \ {t} : pc'[u] = pc[u] /\ polledBy'[u] = polledBy[u] /\ ready'[u] = ready[u]
  BY DEF Withdraw, BeginPass
<1>5. collected \subseteq collected' /\ \A o \in Tasks : wakers[o] \subseteq wakers'[o]
  BY DEF Withdraw, BeginPass
<1> QED
  BY <1>1, <1>2, <1>3, <1>4, <1>5, QuietStep, Zenon

\* Clones and releases of a permit concern no waiter.
LEMMA PermitWakes ==
  ASSUME Inductive, Inductive', WakeInv, NEW t \in Tasks, ClonePermit(t) \/ DropClone(t) \/ Release(t)
  PROVE  WakeInv'
<1> USE WakeFacts
<1>1. Entries' = Entries
  <2>1. UNCHANGED waiters
    BY DEF ClonePermit, DropClone, Release
  <2> QED
    BY <2>1, Zenon DEF Entries
<1>2. WakersAreFresh'
  BY ConstantsAssumption, Zenon DEF ClonePermit, DropClone, Release, WakersAreFresh, BeginPass, passVars
<1>3. pc'[t] # "parked"
  BY Zenon DEF ClonePermit, DropClone, Release
<1>4. \A u \in Tasks \ {t} : pc'[u] = pc[u] /\ polledBy'[u] = polledBy[u] /\ ready'[u] = ready[u]
  BY Zenon DEF ClonePermit, DropClone, Release, BeginPass, passVars
<1>5. collected \subseteq collected' /\ \A o \in Tasks : wakers[o] \subseteq wakers'[o]
  BY Zenon DEF ClonePermit, DropClone, Release, BeginPass, passVars
<1> QED
  BY <1>1, <1>2, <1>3, <1>4, <1>5, QuietStep, Zenon

\* The invariant of wake-ups, for every pool, set of callers and of wakers.
THEOREM PoolWakes == Spec => []WakeInv
<1>1. Init => WakeInv
  <2> SUFFICES ASSUME Init
               PROVE  WakeInv
    OBVIOUS
  <2>1. DOMAIN waiters = {}
    BY DEF Init
  <2>2. NoLostWakeup /\ WaitersHaveWakers
    BY <2>1, Zenon DEF NoLostWakeup, Granted, WaitersHaveWakers
  <2>3. WakersAreFresh
    BY DEF Init, WakersAreFresh
  <2> QED
    BY <2>2, <2>3 DEF WakeInv
<1>2. Inductive /\ Inductive' /\ WakeInv /\ [Next]_vars => WakeInv'
  <2> SUFFICES ASSUME Inductive, Inductive', WakeInv, [Next]_vars
               PROVE  WakeInv'
    OBVIOUS
  <2>1. CASE UNCHANGED vars
    BY <2>1, Zenon DEF vars, WakeInv, NoLostWakeup, Granted, WaitersHaveWakers, WakersAreFresh
  <2>2. ASSUME NEW t \in Tasks, Acquire(t)
        PROVE  WakeInv'
    BY <2>2, AdmitWakes, Zenon DEF Acquire, acquire, acquire_required, acquire_client
  <2>3. ASSUME NEW t \in Tasks, Dispatch(t)
        PROVE  WakeInv'
    BY <2>3, LookWakes, GrantWakes, EndPassWakes, Zenon DEF Dispatch
  <2>4. ASSUME NEW t \in Tasks, Poll(t)
        PROVE  WakeInv'
    BY <2>4, ObserveWakes, ParkWakes, Zenon DEF Poll
  <2>5. ASSUME NEW t \in Tasks,
               CallWaker(t) \/ DoneWaking(t) \/ Resume(t) \/ PollUnwoken(t) \/ Withdraw(t)
        PROVE  WakeInv'
    BY <2>5, CallWakes, DoneWakingWakes, RepollWakes, WithdrawWakes, Zenon
  <2>6. ASSUME NEW t \in Tasks, ClonePermit(t) \/ DropClone(t) \/ Release(t)
        PROVE  WakeInv'
    BY <2>6, PermitWakes, Zenon
  <2> QED
    BY <2>1, <2>2, <2>3, <2>4, <2>5, <2>6, Zenon DEF Next
<1> QED
  BY <1>1, <1>2, SpecInductive, PTL DEF Spec

\* A parked caller that was granted is going to be polled, however the calls
\* of wakers interleave with polls, withdrawals and later passes.
THEOREM PoolNoLostWakeup == Spec => []NoLostWakeup
<1>1. WakeInv => NoLostWakeup
  BY DEF WakeInv
<1> QED
  BY <1>1, PoolWakes, PTL
=============================================================================
