------------------------------ MODULE Eviction ------------------------------
(***************************************************************************)
(* The plan of a pass of the garbage collector (gc of once-cas): which     *)
(* files of a listing go so that the store fits its budget.                *)
(***************************************************************************)
EXTENDS Integers, Sequences, FiniteSetsExt, Functions

CONSTANTS
  Actions, Blobs,
  Size         \* bytes of a blob or of an action result

ASSUME EvictionAssumption ==
  /\ IsFiniteSet(Blobs \cup Actions) /\ Blobs \cap Actions = {}
  /\ Size \in [Blobs \cup Actions -> Nat]

VARIABLE
  gc           \* the pass: its budget, its two listings, what it evicts

Total(es) == SumFunctionOnSet(Size, es)

Snapshot == Range(gc.blobs) \cup Range(gc.acts)

\* What is evicted so far, the bytes left, and for each blob the surviving
\* results that reference it.
Tally == [victims |-> {}, after |-> Total(Snapshot),
          owners |-> [b \in Range(gc.blobs) |-> {a \in Range(gc.acts) : b \in gc.refs[a]}]]

\* Tier 1: an orphan goes while the store is over budget.
EvictOrphan(t, b) ==
  IF t.owners[b] # {} \/ t.after <= gc.max THEN t
  ELSE [victims |-> t.victims \cup {b}, after |-> t.after - Size[b], owners |-> t.owners]

\* Mutant of EvictAction: a blob goes with any result that references it.
EvictShared(t, a) ==
  IF t.after <= gc.max THEN t
  ELSE LET gone == {b \in Range(gc.blobs) : a \in t.owners[b]} \ t.victims
       IN  [t EXCEPT !.victims = @ \cup {a} \cup gone, !.after = @ - Size[a] - Total(gone)]

\* Tier 2: a result goes while the store is over budget, and with it, whatever
\* the budget, the blobs that no other surviving result references.
EvictAction(t, a) ==
  IF t.after <= gc.max THEN t
  ELSE LET gone == {b \in Range(gc.blobs) : t.owners[b] = {a}} \ t.victims
       IN  [victims |-> t.victims \cup {a} \cup gone,
            after   |-> t.after - Size[a] - Total(gone),
            owners  |-> [b \in Range(gc.blobs) |-> t.owners[b] \ {a}]]

\* The tally after the first i blobs and after the first i results, oldest first.
TierOne[i \in 0..Len(gc.blobs)] ==
  IF i = 0 THEN Tally ELSE EvictOrphan(TierOne[i - 1], gc.blobs[i])

TierTwo[i \in 0..Len(gc.acts)] ==
  IF i = 0 THEN TierOne[Len(gc.blobs)] ELSE EvictAction(TierTwo[i - 1], gc.acts[i])

-----------------------------------------------------------------------------
(* Properties *)

\* What a pass that listed bs and as may evict to have at most max bytes: what
\* survives fits the budget and is what the report says; no survivor lost a
\* blob; results go oldest first and only when no orphan is left; evicted results
\* leave no blob of theirs behind; and without the last victim the budget would
\* not be met.
WellChosen(bs, as, refs, max, victims, after) ==
  LET kept    == (Range(bs) \cup Range(as)) \ victims
      orphans == {b \in Range(bs) : \A a \in Range(as) : b \notin refs[a]}
      goneActs == victims \cap Actions
      keptActs == Range(as) \ victims
      needed(some) == UNION {refs[a] : a \in some}
  IN  /\ Total(kept) = after /\ after <= max
      /\ needed(keptActs) \cap victims = {}
      /\ goneActs # {} => orphans \subseteq victims
      /\ goneActs = Range(SubSeq(as, 1, Cardinality(goneActs)))
      /\ needed(goneActs) \cap kept \subseteq needed(keptActs)
      /\ IF goneActs # {}
           THEN LET last == as[Cardinality(goneActs)] IN
                Total(kept \cup {last} \cup (refs[last] \cap Range(bs))) > max
           ELSE LET last == Max({i \in DOMAIN bs : bs[i] \in victims}) IN
                Total(kept \cup {bs[last]}) > max

\* A pass evicts what it should and no more.
EvictionPolicy ==
  gc.pc = "remove" => WellChosen(gc.blobs, gc.acts, gc.refs, gc.max, gc.victims, gc.after)
=============================================================================
