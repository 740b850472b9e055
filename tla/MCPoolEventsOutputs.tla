------------------------ MODULE MCPoolEventsOutputs ------------------------
(***************************************************************************)
(* Four parts that do not touch each other, one of them in each behaviour: *)
(* the resource pool, the delivery of events, a target's deferred outputs, *)
(* and the scheduler of the targets of a graph.                            *)
(***************************************************************************)
EXTENDS MCResourcePool, EventTransport, MCDeferredOutputs, BuildScheduler

VARIABLE part

allVars == <<part, vars, eventVars, deferredVars, buildVars>>

\* Three different callers of the pool: one with small actions, one that may
\* want every CPU, and one that may want most of the memory, or more than there
\* is together with the unpublished slot.
Asks == ( 1 :> {Ask(1, 1, 0)}
       @@ 2 :> {Ask(1, 1, 0), Ask(2, 1, 0)}
       @@ 3 :> {Ask(1, 2, 0), Ask(0, 9, 2)} )

PoolScope == \A t \in Tasks : pc[t] = "admitPass" =>
  \E r \in Asks[t] : request[t] \in {bounded_by(r), Estimated(r), ClientRequest(r)}

\* Fewer failures once the producer has published most of its events.
EventScope == published + breaks <= MaxPublished

\* Acyclic graphs of four targets that name up to two dependencies, or one twice,
\* with a fifth, number 0, of a plain kind; and the graphs of three targets with
\* a dependency each, which are cyclic; and the one that the other parts start with.
Lists(names, n) == UNION {[1 .. k -> names] : k \in 0 .. n}
MCGraphs ==
  {(0 :> <<>> @@ 1 :> a @@ 2 :> b @@ 3 :> c @@ 4 :> d) :
      a \in Lists({0}, 1), b \in Lists({1}, 2), c \in Lists({1, 2}, 2), d \in Lists({1, 2, 3}, 2)}
  \cup [1 .. 3 -> {<<t>> : t \in 1 .. 3}] \cup {[t \in {1} |-> <<>>]}

\* Parts that do not run start in one state.
MCInit ==
  /\ part \in {"pool", "events", "outputs", "targets"}
  /\ IF part = "outputs" THEN TRUE ELSE program = CHOOSE p \in Programs : TRUE
  /\ IF part = "targets" THEN TRUE ELSE graph = [t \in {1} |-> <<>>]
  /\ Init /\ EventInit /\ DeferredInit /\ BuildInit

\* Only the pool must always have a step to take: the other parts end.
MCNext ==
  \/ part = "pool" /\ Next /\ PoolScope' /\ UNCHANGED <<part, eventVars, deferredVars, buildVars>>
  \/ part = "events" /\ EventNext /\ EventScope' /\ UNCHANGED <<part, vars, deferredVars, buildVars>>
  \/ part = "outputs" /\ DeferredNext /\ UNCHANGED <<part, vars, eventVars, buildVars>>
  \/ part = "targets" /\ BuildNext /\ UNCHANGED <<part, vars, eventVars, deferredVars>>
  \/ part # "pool" /\ UNCHANGED allVars

MCSpec == MCInit /\ [][MCNext]_allVars
=============================================================================
