--------------------------- MODULE MCResourcePool ---------------------------
(***************************************************************************)
(* Small pools for TLC, and the properties of ResourcePool that sum over   *)
(* tasks or look along the queue.                                          *)
(***************************************************************************)
EXTENDS ResourcePool, FiniteSetsExt, TLC

\* A request as a caller writes it: cpu, memory, count of the slot "device".
Ask(c, m, d) == ("cpu" :> c @@ "mem" :> m @@ "device" :> d)

\* A small action, one that wants every CPU, one that wants most memory, and
\* one that asks for more than the pool has and for the unpublished slot.
MCRequests == {Ask(1, 1, 0), Ask(2, 1, 0), Ask(1, 2, 0), Ask(0, 9, 2)}
MCSlotLimits == ("device" :> 0)

\* Tasks whose request is charged to the pool: permit holders, and waiters
\* that were granted and have not looked.
Charged == {t \in Tasks : pc[t] = "held" \/ Granted(t)}

\* Outside a dispatch pass the usage is exactly what holders and granted
\* waiters asked for: dropping a ticket between grant and observation, and
\* dropping the last clone of a permit, return everything, once.
Conservation ==
  mutex = None =>
    \A a \in Axes : used[a] = MapThenSumSet(LAMBDA t : request[t][a], Charged)

\* Capacity that would be free for the waiter at index i if the requests that
\* overtook it had not been granted, after the waiters ahead of it took theirs.
FreeWithoutOvertakers(i) ==
  LET overtakers == {t \in Charged : waiters[i].task \in passed[t]}
      ahead == {j \in 1..(i - 1) : ~waiters[j].granted}
  IN  [a \in Axes |->
         Minus(Limit[a] + MapThenSumSet(LAMBDA t : request[t][a], overtakers),
               used[a] + MapThenSumSet(LAMBDA j : request[waiters[j].task][a], ahead))]

\* "It can never delay an earlier request": no waiter is blocked that would
\* run if the later requests granted ahead of it were not there.  With nobody
\* ahead of it this says that no release or withdrawal forgets to dispatch.
NeverDelayed ==
  mutex = None =>
    \A i \in DOMAIN waiters :
      ~waiters[i].granted => ~Fits(FreeWithoutOvertakers(i), request[waiters[i].task])

\* No caller starves: one that is admitted to the queue and does not give up
\* gets its permit, however many smaller requests keep arriving.
EventuallyAdmitted ==
  \A t \in Tasks : pc[t] = "admitPass" ~> pc[t] \in {"held", "freePass"}
=============================================================================
