------------------------- MODULE MCDeferredOutputs -------------------------
(***************************************************************************)
(* Small targets for TLC: the tree t with the files t/a and t/b, the files *)
(* u and v, and the file w, whose path cannot be resolved.                 *)
(***************************************************************************)
EXTENDS DeferredOutputs

MCFiles == {"t/a", "t/b", "u", "v", "w"}
MCUnder == [p \in MCFiles \cup {"t"} |-> IF p = "t" THEN {"t/a", "t/b"} ELSE {p}]

Free(inputs, outputs) ==
    [inputs |-> inputs, outputs |-> outputs, clean |-> {}, logs |-> {}, dirs |-> {},
     prior |-> FALSE, cacheable |-> TRUE, intermediate |-> FALSE, expands |-> FALSE]

Tree == Free({}, {"t"})
Overlay == Free({}, {"t/a"})
ReadsTree == Free({"t"}, {"u"})
Ordered == [Free({"u"}, {"v"}) EXCEPT !.prior = TRUE]
Expansion == [Free({"t/a", "u"}, {}) EXCEPT !.prior = TRUE, !.expands = TRUE]
KeptInCache == [Free({}, {"u"}) EXCEPT !.intermediate = TRUE]

Menu ==
    {Tree, Overlay, ReadsTree, Ordered, Expansion, KeptInCache,
     Free({"t/a"}, {"t/a"}),                                 \* changes a file in place
     [Free({"t/b"}, {"v"}) EXCEPT !.cacheable = FALSE],
     [Free({}, {"v"}) EXCEPT !.clean = {"u"}],
     [Free({}, {"v"}) EXCEPT !.dirs = {"t"}],
     [Free({"w"}, {"t/a"}) EXCEPT !.logs = {"v"}],
     Free({}, {"w"})}

\* Every list of three actions, and every list of four that builds, overlays
\* and reads the tree in some order.
MCPrograms ==
    [1 .. 3 -> Menu] \cup [1 .. 4 -> {Tree, Overlay, ReadsTree, Ordered}]

\* A tree that is kept in the cache, with a file laid over it that is not.
OverlaidPrograms ==
    {<<[Tree EXCEPT !.intermediate = TRUE], Overlay, last>> : last \in {Ordered, ReadsTree}}
=============================================================================
