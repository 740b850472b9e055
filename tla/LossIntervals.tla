---------------------------- MODULE LossIntervals ----------------------------
(***************************************************************************)
(* LossIntervals of once-events-client: lost sequence numbers as intervals *)
(* in a map keyed by the first number of each.  It implements LossSet.     *)
(*                                                                         *)
(* A call that fails an assertion unwinds the task that owns the map: what *)
(* it leaves behind is never read, so the map keeps its value here.        *)
(***************************************************************************)
EXTENDS Naturals

CONSTANTS
  Top,         \* the largest sequence number (u64::MAX)
  LossReasons  \* loss reasons

ASSUME TopAssumption == Top \in Nat

VARIABLES
  intervals, \* first -> [last, reason]
  outcome,   \* what record last returned
  panicked

lossVars == <<intervals, outcome, panicked>>

Seqs == 0..Top
Keys == DOMAIN intervals

LossInit == intervals = [k \in {} |-> {}] /\ outcome = "none" /\ panicked = FALSE

Succ(n) == IF n = Top THEN Top ELSE n + 1   \* saturating_add(1)

\* The first or the last member of a set of numbers.
Lowest(S)  == CHOOSE x \in S : \A y \in S : x <= y
Highest(S) == CHOOSE x \in S : \A y \in S : y <= x

Lasts(S) == {intervals[k].last : k \in S}

\* LossIntervals::left_neighbour, as a set of at most one key.
left_neighbour(key) == {k \in Keys : k < key /\ \A j \in Keys : j < key => j <= k}

\* The left neighbour that a new range for a reason absorbs.
LeftAbsorbed(first, reason) ==
  {k \in left_neighbour(first) : /\ first <= Succ(intervals[k].last)
                                 /\ intervals[k].reason = reason}

LeftConflict(first, reason) ==
  \E k \in left_neighbour(first) : /\ first <= intervals[k].last
                                   /\ intervals[k].reason # reason

\* The keys inspected to the right, once first..last is extended by the
\* absorbed left neighbour.
RightRange(absorbed, first, last) ==
  {k \in Keys \ absorbed : first <= k /\ k <= Succ(last)}

\* The map after the intervals of a set of keys were replaced by one.
Replaced(keys, first, last, reason) ==
  [k \in (Keys \ keys) \cup {first} |->
     IF k = first THEN [last |-> last, reason |-> reason] ELSE intervals[k]]

record(first, last, reason) ==
  LET left  == LeftAbsorbed(first, reason)
      low   == Lowest({first} \cup left)
      high  == Highest({last} \cup Lasts(left))
      range == RightRange(left, low, high)
      right == {k \in range : intervals[k].reason = reason}
  IN  /\ ~panicked
      /\ IF \/ last < first
            \/ LeftConflict(first, reason)
            \/ \E k \in range \ right : k <= high
           THEN panicked' = TRUE /\ UNCHANGED <<intervals, outcome>>
           ELSE /\ intervals' = Replaced(left \cup right,
                                         Lowest({low} \cup right),
                                         Highest({high} \cup Lasts(right)), reason)
                /\ outcome' = IF left \cup right = {} THEN "inserted" ELSE "merged"
                /\ UNCHANGED panicked

\* The keys the loop of acknowledge_up_to removes: in order, up to the first
\* interval that reaches beyond seq.
Popped(seq) ==
  {k \in Keys : k <= seq /\ \A j \in Keys : j < k => intervals[j].last <= seq}

\* Mutant of Straddling: the rest of a partly acknowledged interval is
\* dropped.
StraddlingDropped(seq) == {}

Straddling(seq) == {k \in Popped(seq) : seq < intervals[k].last}

acknowledge_up_to(seq) ==
  /\ ~panicked
  /\ intervals' =
       [k \in (Keys \ Popped(seq)) \cup {seq + 1 : j \in Straddling(seq)} |->
          IF k = seq + 1 /\ Straddling(seq) # {}
            THEN intervals[CHOOSE j \in Straddling(seq) : TRUE]
            ELSE intervals[k]]
  /\ UNCHANGED <<outcome, panicked>>

drain ==
  /\ ~panicked
  /\ intervals' = [k \in {} |-> {}]
  /\ UNCHANGED <<outcome, panicked>>

\* snapshot_before, as the set of the intervals it lists.
snapshot_before(before) ==
  {k \in Keys : k < before /\ intervals[k].last < before}

LossNext ==
  \/ \E first, last \in Seqs, reason \in LossReasons : record(first, last, reason)
  \/ \E seq \in Seqs : acknowledge_up_to(seq)
  \/ drain

LossSpec == LossInit /\ [][LossNext]_lossVars

-----------------------------------------------------------------------------
(* Properties *)

Covered(keys) ==
  {l \in Seqs \X LossReasons :
     \E k \in keys : k <= l[1] /\ l[1] <= intervals[k].last /\ l[2] = intervals[k].reason}

Set == INSTANCE LossSet WITH loss <- Covered(Keys)

\* next_batch lists the gaps before the first event it sends: if that number
\* is not lost itself, they are all the numbers lost before it.
SameSnapshot ==
  \A before \in Seqs :
    (\A r \in LossReasons : <<before, r>> \notin Covered(Keys)) =>
      Covered(snapshot_before(before)) = Set!Before(before)

SameCall ==
  \/ UNCHANGED lossVars
  \/ /\ \A first, last \in Seqs, reason \in LossReasons :
          record(first, last, reason) => Set!Record(first, last, reason)
     /\ \A seq \in Seqs : acknowledge_up_to(seq) => Set!AcknowledgeUpTo(seq)
     /\ drain => Set!Drain

\* The map is a set of lost numbers, each lost for one reason: it starts
\* empty, every call changes that set, answers and panics as the call of
\* LossSet with the same arguments, and a snapshot misses none of it.
ImplementsLossSet == Set!Init /\ [][SameCall]_lossVars /\ []SameSnapshot
=============================================================================
